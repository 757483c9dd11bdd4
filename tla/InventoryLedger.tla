---------------------------- MODULE InventoryLedger ----------------------------
\* The stock of one SKU and the reservations on it
\* (inventory-service/.../service/InventoryService.java). Every request is a
\* transaction under REPEATABLE READ: it reads a snapshot, later takes the lock of
\* the stock row, changes the row as it is then, writes its reservation and
\* commits. SKUs share nothing but their transactions, so one stands for all.
EXTENDS Integers, Functions

CONSTANTS
  Reservation,          \* ids; operationId equals reservationId in every caller
  Qty,                  \* Qty[r]: quantity that reservation r asks for
  Request,              \* reserve, release, confirm and expire requests
  Window,               \* windows of the replenishment schedule
  Reset,                \* reset requests
  InitialStock,         \* available_qty at first
  TargetQty,            \* targetAvailableQty
  BaselineQty           \* baseline_qty

ASSUME LedgerAssumption ==
  /\ Qty \in [Reservation -> Nat \ {0}]
  /\ InitialStock \in Nat /\ TargetQty \in Nat \ {0} /\ BaselineQty \in Nat

VARIABLES
  stock,                \* the row of inventories
  status,               \* status[r] in inventory_reservations, "NONE" without a row
  due,                  \* reservations whose expires_at has passed
  asks,                 \* asks[q]: what request q asks for
  request,              \* request[q]: how far q is, and the version it has read
  batch,                \* batch[w] in inventory_replenishment_batches
  replenish,            \* replenish[w]: the transaction that replenishes in window w
  reset,                \* reset[x]: how far x is, and the version it has read
  reported,             \* history: sum of the addedQuantity of committed replenishments
  additions,            \* history: additions[w], how often window w has added stock
  raced                 \* history: reservations that two open requests found RESERVED

replenishVars == <<batch, replenish, reported, additions>>
vars == <<stock, status, due, asks, request, replenishVars, reset, raced>>

Operations == {"reserve", "release", "confirm", "expire"}
Settled == {"CONFIRMED", "RELEASED", "EXPIRED"}
Progress == [pc : {"new", "writing", "done"}, version : Nat]
New == [pc |-> "new", version |-> 0]
Done == [pc |-> "done", version |-> 0]
NoReplenish == [pc |-> "idle", available |-> 0, version |-> 0]

\* Besides the types: only reservations with a row fall due, and no transaction
\* replenishes in a window that is completed.
TypeOK ==
  /\ stock \in [available : Int, reserved : Int, version : Nat]
  /\ status \in [Reservation -> {"NONE", "RESERVED"} \cup Settled]
  /\ due \subseteq Reservation
  /\ asks \in [Request -> [op : Operations, on : Reservation]]
  /\ request \in [Request -> Progress]
  /\ batch \in [Window -> {"NONE", "COMPLETED", "FAILED"}]
  /\ replenish \in [Window -> [pc : {"idle", "claimed"}, available : Int, version : Nat]]
  /\ reset \in [Reset -> Progress]
  /\ reported \in Int
  /\ additions \in [Window -> Nat]
  /\ raced \subseteq Reservation
  /\ \A r \in due : status[r] # "NONE"
  /\ \A w \in Window : replenish[w].pc = "claimed" => batch[w] # "COMPLETED"

Init ==
  /\ stock = [available |-> InitialStock, reserved |-> 0, version |-> 0]
  /\ status = [r \in Reservation |-> "NONE"]
  /\ due = {}
  /\ asks \in [Request -> [op : Operations, on : Reservation]]
  /\ request = [q \in Request |-> New]
  /\ batch = [w \in Window |-> "NONE"]
  /\ replenish = [w \in Window |-> NoReplenish]
  /\ reset = [x \in Reset |-> New]
  /\ reported = 0
  /\ additions = [w \in Window |-> 0]
  /\ raced = {}

-----------------------------------------------------------------------------
\* Statements on the stock row, each under its lock

\* Defect: the version and the quantity are trusted as they were read.
ReserveUnchecked(qty, version) ==
  stock' = [available |-> stock.available - qty, reserved |-> stock.reserved + qty,
            version |-> stock.version + 1]

Reserve(qty, version) ==
  /\ stock.available >= qty
  /\ stock.version = version
  /\ stock' = [available |-> stock.available - qty, reserved |-> stock.reserved + qty,
               version |-> stock.version + 1]

Release(qty) ==
  stock' = [available |-> stock.available + qty, reserved |-> stock.reserved - qty,
            version |-> stock.version + 1]

\* Defect: the statement leaves the version out.
ReplenishAnyVersion(version) ==
  /\ stock.available < TargetQty
  /\ stock' = [stock EXCEPT !.available = TargetQty, !.version = @ + 1]

ReplenishToTarget(version) ==
  /\ stock.available < TargetQty
  /\ stock.version = version
  /\ stock' = [stock EXCEPT !.available = TargetQty, !.version = @ + 1]

-----------------------------------------------------------------------------
\* reserve(), release(), confirm() and expire()

\* Defect: the status of the reservation is not looked at.
ProceedsUnlessNone(q) ==
  IF asks[q].op = "reserve" THEN status[asks[q].on] = "NONE"
  ELSE status[asks[q].on] # "NONE"

\* What the reads of a request must have found for it to write at all. Otherwise it
\* answers with the existing reservation, with an error, or with nothing.
Proceeds(q) ==
  LET r == asks[q].on IN
  CASE asks[q].op = "reserve" -> status[r] = "NONE"
    [] asks[q].op = "expire" -> status[r] = "RESERVED" /\ r \in due
    [] OTHER -> status[r] = "RESERVED"

Settles(q) == asks[q].op # "reserve" /\ request[q].pc = "writing"

\* The snapshot: the first SELECT fixes what the later ones see.
Reads(q) ==
  /\ request[q].pc = "new"
  /\ request' = [request EXCEPT ![q] =
                   IF Proceeds(q) THEN [pc |-> "writing", version |-> stock.version] ELSE Done]
  /\ raced' = IF /\ asks[q].op # "reserve" /\ Proceeds(q)
                 /\ \E p \in Request : Settles(p) /\ asks[p].on = asks[q].on
                THEN raced \cup {asks[q].on} ELSE raced
  /\ UNCHANGED <<stock, status, due, asks, replenishVars, reset>>

Ends(q) == request' = [request EXCEPT ![q] = Done]

\* reserve: the row is updated and the reservation inserted; the unique key keeps a
\* second row of the same operation out.
Reserves(q) ==
  /\ request[q].pc = "writing" /\ asks[q].op = "reserve"
  /\ status[asks[q].on] = "NONE"
  /\ Reserve(Qty[asks[q].on], request[q].version)
  /\ status' = [status EXCEPT ![asks[q].on] = "RESERVED"]
  /\ Ends(q)
  /\ UNCHANGED <<due, asks, replenishVars, reset, raced>>

\* release and expire: the entity that was read is written back, whatever the row
\* has become meanwhile.
Releases(q) ==
  /\ request[q].pc = "writing" /\ asks[q].op \in {"release", "expire"}
  /\ Release(Qty[asks[q].on])
  /\ status' = [status EXCEPT ![asks[q].on] =
                  IF asks[q].op = "release" THEN "RELEASED" ELSE "EXPIRED"]
  /\ Ends(q)
  /\ UNCHANGED <<due, asks, replenishVars, reset, raced>>

\* confirm: a sale stays in reserved_qty.
Confirms(q) ==
  /\ request[q].pc = "writing" /\ asks[q].op = "confirm"
  /\ status' = [status EXCEPT ![asks[q].on] = "CONFIRMED"]
  /\ Ends(q)
  /\ UNCHANGED <<stock, due, asks, replenishVars, reset, raced>>

\* The transaction rolls back: the conditional update matched no row, the key exists,
\* a lock wait timed out, the process died.
Fails(q) ==
  /\ request[q].pc = "writing"
  /\ Ends(q)
  /\ UNCHANGED <<stock, status, due, asks, replenishVars, reset, raced>>

Due(r) ==
  /\ status[r] # "NONE" /\ r \notin due
  /\ due' = due \cup {r}
  /\ UNCHANGED <<stock, status, asks, request, replenishVars, reset, raced>>

-----------------------------------------------------------------------------
\* replenishDemoInventory()

\* Defect: a batch is claimed again after it was completed.
ClaimableAlways(w) == TRUE

\* INSERT IGNORE, or a FAILED batch taken up again.
Claimable(w) == batch[w] \in {"NONE", "FAILED"}

\* Up to the SELECT on the stock. The row of traffic_replenishment_runs, written
\* first, keeps every other transaction of the window waiting until the commit.
ReplenishReads(w) ==
  /\ replenish[w].pc = "idle"
  /\ Claimable(w)
  /\ replenish' = [replenish EXCEPT ![w] = [pc |-> "claimed", available |-> stock.available,
                                            version |-> stock.version]]
  /\ UNCHANGED <<stock, status, due, asks, request, batch, reported, additions, reset, raced>>

ReplenishCommits(w, result) ==
  /\ replenish' = [replenish EXCEPT ![w] = NoReplenish]
  /\ batch' = [batch EXCEPT ![w] = result]

\* There is enough already.
ReplenishSkips(w) ==
  /\ replenish[w].pc = "claimed"
  /\ replenish[w].available >= TargetQty
  /\ ReplenishCommits(w, "COMPLETED")
  /\ UNCHANGED <<stock, status, due, asks, request, reported, additions, reset, raced>>

ReplenishAdds(w) ==
  /\ replenish[w].pc = "claimed"
  /\ replenish[w].available < TargetQty
  /\ ReplenishToTarget(replenish[w].version)
  /\ ReplenishCommits(w, "COMPLETED")
  /\ reported' = reported + (TargetQty - replenish[w].available)
  /\ additions' = [additions EXCEPT ![w] = @ + 1]
  /\ UNCHANGED <<status, due, asks, request, reset, raced>>

\* The stock has changed since it was read.
ReplenishLoses(w) ==
  /\ replenish[w].pc = "claimed"
  /\ replenish[w].available < TargetQty
  /\ stock.available >= TargetQty \/ stock.version # replenish[w].version
  /\ ReplenishCommits(w, "FAILED")
  /\ UNCHANGED <<stock, status, due, asks, request, reported, additions, reset, raced>>

\* The transaction rolls back, its claim and its FAILED mark with it.
ReplenishFails(w) ==
  /\ replenish[w].pc = "claimed"
  /\ replenish' = [replenish EXCEPT ![w] = NoReplenish]
  /\ UNCHANGED <<stock, status, due, asks, request, batch, reported, additions, reset, raced>>

-----------------------------------------------------------------------------
\* reset()

\* The snapshot is taken before the Redis lock is asked for, and the lock is given
\* back before the commit: it keeps no reset from overlapping another.
ResetReads(x) ==
  /\ reset[x].pc = "new"
  /\ reset' = [reset EXCEPT ![x] = [pc |-> "writing", version |-> stock.version]]
  /\ UNCHANGED <<stock, status, due, asks, request, replenishVars, raced>>

\* All columns of the entity are written, the version counted from the one read.
ResetWrites(x) ==
  /\ reset[x].pc = "writing"
  /\ stock' = [available |-> BaselineQty, reserved |-> 0, version |-> reset[x].version + 1]
  /\ reset' = [reset EXCEPT ![x] = Done]
  /\ UNCHANGED <<status, due, asks, request, replenishVars, raced>>

-----------------------------------------------------------------------------
Next ==
  \/ \E q \in Request : Reads(q) \/ Reserves(q) \/ Releases(q) \/ Confirms(q) \/ Fails(q)
  \/ \E r \in Reservation : Due(r)
  \/ \E w \in Window : \/ ReplenishReads(w) \/ ReplenishSkips(w) \/ ReplenishAdds(w)
                       \/ ReplenishLoses(w) \/ ReplenishFails(w)
  \/ \E x \in Reset : ResetReads(x) \/ ResetWrites(x)

Spec == Init /\ [][Next]_vars

-----------------------------------------------------------------------------
\* Properties

NeverReset == \A x \in Reset : reset[x].pc # "done"

\* No interleaving of requests, replenishments and resets sells what is not there.
NeverOversold == stock.available >= 0

\* What replenishments have reported is what they have added: stock and reserved
\* stock are the initial stock and the reported additions, although the quantity is
\* computed from a snapshot. A reset starts a new account.
StockMatchesReports ==
  NeverReset => stock.available + stock.reserved = InitialStock + reported

\* A window adds stock at most once, whatever retries, rollbacks and stale reads it
\* went through.
ReplenishedOnce == \A w \in Window : additions[w] <= 1

\* reserved_qty is the quantity of the reservations that are held or sold, as long as
\* no two requests found the same reservation RESERVED before either had written.
HeldOrSold == {r \in Reservation : status[r] \in {"RESERVED", "CONFIRMED"}}
ReservedMatches ==
  NeverReset /\ raced = {} => stock.reserved = SumFunctionOnSet(Qty, HeldOrSold)

=============================================================================
