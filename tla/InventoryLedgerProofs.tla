------------------------- MODULE InventoryLedgerProofs -------------------------
\* What holds of the ledger for any reservations, quantities, windows and requests.
\* The argument is that the version of the stock row vouches for what was read
\* (ReadsVouched), as long as no reset has written a version of its own.
EXTENDS InventoryLedger, TLAPS

\* A replenishment that still finds the version it has read finds the stock it has
\* read, since every statement counts the version up.
ReadsVouched ==
  NeverReset =>
    \A w \in Window : replenish[w].pc = "claimed" =>
      /\ replenish[w].version <= stock.version
      /\ replenish[w].version = stock.version => replenish[w].available = stock.available

\* A window that has added is completed, and is not claimed again.
AddedIsCompleted ==
  \A w \in Window :
    /\ additions[w] \in {0, 1}
    /\ additions[w] = 1 => batch[w] = "COMPLETED"

IInv ==
  /\ TypeOK
  /\ NeverOversold
  /\ ReadsVouched
  /\ StockMatchesReports
  /\ AddedIsCompleted

-----------------------------------------------------------------------------
\* Each part survives every step

\* Every step keeps the ledger well typed.
LEMMA TypeStep == IInv /\ [Next]_vars => TypeOK'
  <1> SUFFICES ASSUME IInv, [Next]_vars PROVE TypeOK'
    OBVIOUS
  <1> USE LedgerAssumption DEF IInv, TypeOK, AddedIsCompleted
  <1>1 ASSUME NEW q \in Request, Reads(q) PROVE TypeOK'
    BY <1>1 DEF Reads, Done, Progress, replenishVars
  <1>2 ASSUME NEW q \in Request, Reserves(q) PROVE TypeOK'
    BY <1>2 DEF Reserves, Reserve, Ends, Done, Progress, replenishVars
  <1>3 ASSUME NEW q \in Request, Releases(q) PROVE TypeOK'
    BY <1>3 DEF Releases, Release, Ends, Done, Progress, Settled, replenishVars
  <1>4 ASSUME NEW q \in Request, Confirms(q) PROVE TypeOK'
    BY <1>4 DEF Confirms, Ends, Done, Progress, Settled, replenishVars
  <1>5 ASSUME NEW q \in Request, Fails(q) PROVE TypeOK'
    BY <1>5 DEF Fails, Ends, Done, Progress, replenishVars
  <1>6 ASSUME NEW r \in Reservation, Due(r) PROVE TypeOK'
    BY <1>6 DEF Due, replenishVars
  <1>7 ASSUME NEW w \in Window, ReplenishReads(w) PROVE TypeOK'
    BY <1>7 DEF ReplenishReads, Claimable, replenishVars
  <1>8 ASSUME NEW w \in Window, ReplenishSkips(w) PROVE TypeOK'
    BY <1>8 DEF ReplenishSkips, ReplenishCommits, NoReplenish, replenishVars
  <1>9 ASSUME NEW w \in Window, ReplenishAdds(w) PROVE TypeOK'
    <2>1 stock' \in [available : Int, reserved : Int, version : Nat]
      <3>1 stock' = [stock EXCEPT !.available = TargetQty, !.version = @ + 1]
        BY <1>9 DEF ReplenishAdds, ReplenishToTarget
      <3>2 TargetQty \in Int /\ stock.version + 1 \in Nat
        OBVIOUS
      <3> QED
        BY <3>1, <3>2
    <2>2 /\ replenish' \in [Window -> [pc : {"idle", "claimed"}, available : Int, version : Nat]]
         /\ batch' \in [Window -> {"NONE", "COMPLETED", "FAILED"}]
         /\ \A v \in Window : replenish'[v].pc = "claimed" => batch'[v] # "COMPLETED"
      BY <1>9 DEF ReplenishAdds, ReplenishCommits, NoReplenish
    <2>3 reported' \in Int
      <3>1 replenish[w].available \in Int
        OBVIOUS
      <3> QED
        BY <1>9, <3>1 DEF ReplenishAdds
    <2>4 additions' \in [Window -> Nat]
      BY <1>9 DEF ReplenishAdds
    <2> QED
      BY <1>9, <2>1, <2>2, <2>3, <2>4 DEF ReplenishAdds
  <1>10 ASSUME NEW w \in Window, ReplenishLoses(w) PROVE TypeOK'
    BY <1>10 DEF ReplenishLoses, ReplenishCommits, NoReplenish, replenishVars
  <1>11 ASSUME NEW w \in Window, ReplenishFails(w) PROVE TypeOK'
    BY <1>11 DEF ReplenishFails, NoReplenish, replenishVars
  <1>12 ASSUME NEW x \in Reset, ResetReads(x) PROVE TypeOK'
    BY <1>12 DEF ResetReads, Progress, replenishVars
  <1>13 ASSUME NEW x \in Reset, ResetWrites(x) PROVE TypeOK'
    BY <1>13 DEF ResetWrites, Done, Progress, replenishVars
  <1>14 CASE UNCHANGED vars
    BY <1>14 DEF vars, replenishVars
  <1> QED
    BY <1>1, <1>2, <1>3, <1>4, <1>5, <1>6, <1>7, <1>8, <1>9, <1>10, <1>11, <1>12, <1>13,
       <1>14
    DEF Next

\* Only reserve takes stock away, and only from what its own statement finds.
LEMMA StockStep == IInv /\ [Next]_vars => NeverOversold'
  <1> SUFFICES ASSUME IInv, [Next]_vars PROVE NeverOversold'
    OBVIOUS
  <1> USE LedgerAssumption DEF IInv, TypeOK, NeverOversold
  <1>1 ASSUME NEW q \in Request, Reads(q) PROVE NeverOversold'
    BY <1>1 DEF Reads, Done, Progress, replenishVars
  <1>2 ASSUME NEW q \in Request, Reserves(q) PROVE NeverOversold'
    BY <1>2 DEF Reserves, Reserve, Ends, Done, Progress, replenishVars
  <1>3 ASSUME NEW q \in Request, Releases(q) PROVE NeverOversold'
    BY <1>3 DEF Releases, Release, Ends, Done, Progress, Settled, replenishVars
  <1>4 ASSUME NEW q \in Request, Confirms(q) PROVE NeverOversold'
    BY <1>4 DEF Confirms, Ends, Done, Progress, Settled, replenishVars
  <1>5 ASSUME NEW q \in Request, Fails(q) PROVE NeverOversold'
    BY <1>5 DEF Fails, Ends, Done, Progress, replenishVars
  <1>6 ASSUME NEW r \in Reservation, Due(r) PROVE NeverOversold'
    BY <1>6 DEF Due, replenishVars
  <1>7 ASSUME NEW w \in Window, ReplenishReads(w) PROVE NeverOversold'
    BY <1>7 DEF ReplenishReads, Claimable, replenishVars
  <1>8 ASSUME NEW w \in Window, ReplenishSkips(w) PROVE NeverOversold'
    BY <1>8 DEF ReplenishSkips, ReplenishCommits, NoReplenish, replenishVars
  <1>9 ASSUME NEW w \in Window, ReplenishAdds(w) PROVE NeverOversold'
    BY <1>9
    DEF ReplenishAdds, ReplenishToTarget, ReplenishCommits, NoReplenish, replenishVars
  <1>10 ASSUME NEW w \in Window, ReplenishLoses(w) PROVE NeverOversold'
    BY <1>10 DEF ReplenishLoses, ReplenishCommits, NoReplenish, replenishVars
  <1>11 ASSUME NEW w \in Window, ReplenishFails(w) PROVE NeverOversold'
    BY <1>11 DEF ReplenishFails, NoReplenish, replenishVars
  <1>12 ASSUME NEW x \in Reset, ResetReads(x) PROVE NeverOversold'
    BY <1>12 DEF ResetReads, Progress, replenishVars
  <1>13 ASSUME NEW x \in Reset, ResetWrites(x) PROVE NeverOversold'
    BY <1>13 DEF ResetWrites, Done, Progress, replenishVars
  <1>14 CASE UNCHANGED vars
    BY <1>14 DEF vars, replenishVars
  <1> QED
    BY <1>1, <1>2, <1>3, <1>4, <1>5, <1>6, <1>7, <1>8, <1>9, <1>10, <1>11, <1>12, <1>13,
       <1>14
    DEF Next

\* A statement that changes the stock leaves every older reading with an older version.
LEMMA VouchedStep == IInv /\ [Next]_vars => ReadsVouched'
  <1> SUFFICES ASSUME IInv, [Next]_vars PROVE ReadsVouched'
    OBVIOUS
  <1> USE LedgerAssumption DEF IInv, TypeOK, ReadsVouched, NeverReset
  <1>1 ASSUME NEW q \in Request, Reads(q) PROVE ReadsVouched'
    BY <1>1 DEF Reads, Done, Progress, replenishVars
  <1>2 ASSUME NEW q \in Request, Reserves(q) PROVE ReadsVouched'
    BY <1>2 DEF Reserves, Reserve, Ends, Done, Progress, replenishVars
  <1>3 ASSUME NEW q \in Request, Releases(q) PROVE ReadsVouched'
    BY <1>3 DEF Releases, Release, Ends, Done, Progress, Settled, replenishVars
  <1>4 ASSUME NEW q \in Request, Confirms(q) PROVE ReadsVouched'
    BY <1>4 DEF Confirms, Ends, Done, Progress, Settled, replenishVars
  <1>5 ASSUME NEW q \in Request, Fails(q) PROVE ReadsVouched'
    BY <1>5 DEF Fails, Ends, Done, Progress, replenishVars
  <1>6 ASSUME NEW r \in Reservation, Due(r) PROVE ReadsVouched'
    BY <1>6 DEF Due, replenishVars
  <1>7 ASSUME NEW w \in Window, ReplenishReads(w) PROVE ReadsVouched'
    BY <1>7 DEF ReplenishReads, Claimable, replenishVars
  <1>8 ASSUME NEW w \in Window, ReplenishSkips(w) PROVE ReadsVouched'
    BY <1>8 DEF ReplenishSkips, ReplenishCommits, NoReplenish, replenishVars
  <1>9 ASSUME NEW w \in Window, ReplenishAdds(w) PROVE ReadsVouched'
    BY <1>9
    DEF ReplenishAdds, ReplenishToTarget, ReplenishCommits, NoReplenish, replenishVars
  <1>10 ASSUME NEW w \in Window, ReplenishLoses(w) PROVE ReadsVouched'
    BY <1>10 DEF ReplenishLoses, ReplenishCommits, NoReplenish, replenishVars
  <1>11 ASSUME NEW w \in Window, ReplenishFails(w) PROVE ReadsVouched'
    BY <1>11 DEF ReplenishFails, NoReplenish, replenishVars
  <1>12 ASSUME NEW x \in Reset, ResetReads(x) PROVE ReadsVouched'
    BY <1>12 DEF ResetReads, Progress, replenishVars
  <1>13 ASSUME NEW x \in Reset, ResetWrites(x) PROVE ReadsVouched'
    BY <1>13 DEF ResetWrites, Done, Progress, replenishVars
  <1>14 CASE UNCHANGED vars
    BY <1>14 DEF vars, replenishVars
  <1> QED
    BY <1>1, <1>2, <1>3, <1>4, <1>5, <1>6, <1>7, <1>8, <1>9, <1>10, <1>11, <1>12, <1>13,
       <1>14
    DEF Next

\* Stock and reports grow by the same amount.
LEMMA AddingUp ==
  ASSUME NEW a \in Int, NEW s \in Int, NEW i \in Int, NEW p \in Int, NEW t \in Int,
         a + s = i + p
  PROVE  t + s = i + (p + (t - a))
  OBVIOUS

\* reserve and release move quantities; a replenishment adds what it computed, because
\* ReadsVouched makes its reading current.
LEMMA AccountStep == IInv /\ [Next]_vars => StockMatchesReports'
  <1> SUFFICES ASSUME IInv, [Next]_vars PROVE StockMatchesReports'
    OBVIOUS
  <1> USE LedgerAssumption DEF IInv, TypeOK, ReadsVouched, StockMatchesReports, NeverReset
  <1>1 ASSUME NEW q \in Request, Reads(q) PROVE StockMatchesReports'
    BY <1>1 DEF Reads, Done, Progress, replenishVars
  <1>2 ASSUME NEW q \in Request, Reserves(q) PROVE StockMatchesReports'
    BY <1>2 DEF Reserves, Reserve, Ends, Done, Progress, replenishVars
  <1>3 ASSUME NEW q \in Request, Releases(q) PROVE StockMatchesReports'
    BY <1>3 DEF Releases, Release, Ends, Done, Progress, Settled, replenishVars
  <1>4 ASSUME NEW q \in Request, Confirms(q) PROVE StockMatchesReports'
    BY <1>4 DEF Confirms, Ends, Done, Progress, Settled, replenishVars
  <1>5 ASSUME NEW q \in Request, Fails(q) PROVE StockMatchesReports'
    BY <1>5 DEF Fails, Ends, Done, Progress, replenishVars
  <1>6 ASSUME NEW r \in Reservation, Due(r) PROVE StockMatchesReports'
    BY <1>6 DEF Due, replenishVars
  <1>7 ASSUME NEW w \in Window, ReplenishReads(w) PROVE StockMatchesReports'
    BY <1>7 DEF ReplenishReads, Claimable, replenishVars
  <1>8 ASSUME NEW w \in Window, ReplenishSkips(w) PROVE StockMatchesReports'
    BY <1>8 DEF ReplenishSkips, ReplenishCommits, NoReplenish, replenishVars
  <1>9 ASSUME NEW w \in Window, ReplenishAdds(w) PROVE StockMatchesReports'
    <2>1 SUFFICES ASSUME NeverReset'
                  PROVE  stock'.available + stock'.reserved = InitialStock + reported'
      OBVIOUS
    <2>2 NeverReset
      BY <1>9, <2>1 DEF ReplenishAdds
    <2>3 replenish[w].available = stock.available
      BY <1>9, <2>2 DEF ReplenishAdds, ReplenishToTarget
    <2>4 /\ stock'.available = TargetQty /\ stock'.reserved = stock.reserved
         /\ reported' = reported + (TargetQty - stock.available)
      BY <1>9, <2>3 DEF ReplenishAdds, ReplenishToTarget
    <2>5 stock.available + stock.reserved = InitialStock + reported
      BY <2>2
    <2>6 /\ stock.available \in Int /\ stock.reserved \in Int /\ reported \in Int
         /\ TargetQty \in Int /\ InitialStock \in Int
      OBVIOUS
    <2> QED
      <3> HIDE DEF IInv
      <3>1 TargetQty + stock.reserved = InitialStock + (reported + (TargetQty - stock.available))
        BY <2>5, <2>6, AddingUp
      <3> QED
        BY <2>4, <3>1, Zenon
  <1>10 ASSUME NEW w \in Window, ReplenishLoses(w) PROVE StockMatchesReports'
    BY <1>10 DEF ReplenishLoses, ReplenishCommits, NoReplenish, replenishVars
  <1>11 ASSUME NEW w \in Window, ReplenishFails(w) PROVE StockMatchesReports'
    BY <1>11 DEF ReplenishFails, NoReplenish, replenishVars
  <1>12 ASSUME NEW x \in Reset, ResetReads(x) PROVE StockMatchesReports'
    BY <1>12 DEF ResetReads, Progress, replenishVars
  <1>13 ASSUME NEW x \in Reset, ResetWrites(x) PROVE StockMatchesReports'
    BY <1>13 DEF ResetWrites, Done, Progress, replenishVars
  <1>14 CASE UNCHANGED vars
    BY <1>14 DEF vars, replenishVars
  <1> QED
    BY <1>1, <1>2, <1>3, <1>4, <1>5, <1>6, <1>7, <1>8, <1>9, <1>10, <1>11, <1>12, <1>13,
       <1>14
    DEF Next

\* Only a window that is not completed is ever claimed.
LEMMA AddedStep == IInv /\ [Next]_vars => AddedIsCompleted'
  <1> SUFFICES ASSUME IInv, [Next]_vars PROVE AddedIsCompleted'
    OBVIOUS
  <1> USE DEF IInv, TypeOK, AddedIsCompleted
  <1>1 ASSUME NEW q \in Request, Reads(q) PROVE AddedIsCompleted'
    BY <1>1 DEF Reads, Done, Progress, replenishVars
  <1>2 ASSUME NEW q \in Request, Reserves(q) PROVE AddedIsCompleted'
    BY <1>2 DEF Reserves, Reserve, Ends, Done, Progress, replenishVars
  <1>3 ASSUME NEW q \in Request, Releases(q) PROVE AddedIsCompleted'
    BY <1>3 DEF Releases, Release, Ends, Done, Progress, Settled, replenishVars
  <1>4 ASSUME NEW q \in Request, Confirms(q) PROVE AddedIsCompleted'
    BY <1>4 DEF Confirms, Ends, Done, Progress, Settled, replenishVars
  <1>5 ASSUME NEW q \in Request, Fails(q) PROVE AddedIsCompleted'
    BY <1>5 DEF Fails, Ends, Done, Progress, replenishVars
  <1>6 ASSUME NEW r \in Reservation, Due(r) PROVE AddedIsCompleted'
    BY <1>6 DEF Due, replenishVars
  <1>7 ASSUME NEW w \in Window, ReplenishReads(w) PROVE AddedIsCompleted'
    BY <1>7 DEF ReplenishReads, Claimable, replenishVars
  <1>8 ASSUME NEW w \in Window, ReplenishSkips(w) PROVE AddedIsCompleted'
    BY <1>8 DEF ReplenishSkips, ReplenishCommits, NoReplenish, replenishVars
  <1>9 ASSUME NEW w \in Window, ReplenishAdds(w) PROVE AddedIsCompleted'
    <2>1 additions[w] = 0
      <3>1 replenish[w].pc = "claimed"
        BY <1>9 DEF ReplenishAdds
      <3>2 batch[w] # "COMPLETED"
        BY <3>1
      <3> QED
        BY <3>2
    <2>2 additions' = [additions EXCEPT ![w] = 1]
      BY <1>9, <2>1 DEF ReplenishAdds
    <2>3 batch' = [batch EXCEPT ![w] = "COMPLETED"]
      BY <1>9 DEF ReplenishAdds, ReplenishCommits
    <2> QED
      BY <2>2, <2>3
  <1>10 ASSUME NEW w \in Window, ReplenishLoses(w) PROVE AddedIsCompleted'
    BY <1>10 DEF ReplenishLoses, ReplenishCommits, NoReplenish, replenishVars
  <1>11 ASSUME NEW w \in Window, ReplenishFails(w) PROVE AddedIsCompleted'
    BY <1>11 DEF ReplenishFails, NoReplenish, replenishVars
  <1>12 ASSUME NEW x \in Reset, ResetReads(x) PROVE AddedIsCompleted'
    BY <1>12 DEF ResetReads, Progress, replenishVars
  <1>13 ASSUME NEW x \in Reset, ResetWrites(x) PROVE AddedIsCompleted'
    BY <1>13 DEF ResetWrites, Done, Progress, replenishVars
  <1>14 CASE UNCHANGED vars
    BY <1>14 DEF vars, replenishVars
  <1> QED
    BY <1>1, <1>2, <1>3, <1>4, <1>5, <1>6, <1>7, <1>8, <1>9, <1>10, <1>11, <1>12, <1>13,
       <1>14
    DEF Next

\* The invariant holds initially.
LEMMA InitHolds == Init => IInv
  BY LedgerAssumption
  DEF Init, IInv, TypeOK, NeverOversold, ReadsVouched, StockMatchesReports, AddedIsCompleted,
      Progress, New, NoReplenish

\* The invariant holds throughout.
LEMMA Invariance == Spec => []IInv
  <1>1 IInv /\ [Next]_vars => IInv'
    BY TypeStep, StockStep, VouchedStep, AccountStep, AddedStep DEF IInv
  <1> QED
    BY <1>1, InitHolds, PTL DEF Spec

-----------------------------------------------------------------------------
\* Theorems

\* The stock row, the reservations and all transactions keep their types; only
\* reservations with a row fall due, and no replenishment works on a completed window
\* (claimReplenishmentBatch).
THEOREM TypeCorrect == Spec => []TypeOK
  BY Invariance, PTL DEF IInv

\* The conditional update of InventoryRepository.reserve never lets available_qty
\* fall below zero, also beside resets that overwrite the row.
THEOREM NothingOversold == Spec => []NeverOversold
  BY Invariance, PTL DEF IInv

\* The addedQuantity that replenishDemoInventory computes from its snapshot is what
\* replenishToTarget adds: without resets, available and reserved stock are the initial
\* stock and the reported additions.
THEOREM ReportsAreExact == Spec => []StockMatchesReports
  BY Invariance, PTL DEF IInv

\* The batch row of a window lets it add stock at most once, over all retries.
THEOREM WindowsAddOnce == Spec => []ReplenishedOnce
  <1>1 IInv => ReplenishedOnce
    BY DEF IInv, AddedIsCompleted, ReplenishedOnce
  <1> QED
    BY <1>1, Invariance, PTL
=============================================================================
