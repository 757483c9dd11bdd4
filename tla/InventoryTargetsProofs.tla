------------------------- MODULE InventoryTargetsProofs -------------------------
\* What holds of the two inventory holders and their guard for every set of runs
\* and every bound. The argument is one inductive invariant, IInv: each of its parts
\* is shown to survive a step in a lemma of its own, with one step per action that
\* can disturb it.
EXTENDS InventoryTargets, TLAPS

\* synchronized: a request is alone in the monitor of its holder, and does one thing.
Monitor ==
  /\ \A r, s \in Run :
       InMonitor(r) /\ InMonitor(s) /\ scenario[r] = scenario[s] => r = s
  /\ \A r \in Run : prepare[r] = "locking" => release[r] = "none"

\* The connection of a holder belongs to a run of that holder: the one whose lock
\* statement runs, or the active one, which has the lock as well.
ConnectionOwned ==
  /\ \A r \in Run : prepare[r] = "locking" => connection[scenario[r]] = r
  /\ \A h \in Holder, r \in Run :
       connection[h] = r =>
         /\ scenario[r] = h
         /\ prepare[r] = "ok" => activeRunId[h] = r /\ lock[h] = r

\* The active run has the connection, but for one that expired while it waited for
\* its lock: its failing prepare leaves the name behind.
ActiveOwned ==
  \A h \in Holder, r \in Run :
    activeRunId[h] = r /\ r \notin expired => connection[h] = r /\ prepare[r] = "ok"

\* The scheduler only works for expired runs, and a request that releases has asked
\* for it and has no registration left.
EndsAreDue ==
  /\ scheduler.pc # "idle" => scheduler.run \in expired
  /\ \A r \in Run : release[r] # "none" => asked[r] > 0
  /\ \A r \in Run : release[r] = "fence" => cleanups[r] # "registered"

\* FenceKept, from the acceptance of the run on.
FenceTaken ==
  \A r \in Run :
    (cleanups[r] = "registered" \/ prepare[r] = "locking") /\ r \notin expired
      /\ (\A s \in accepted : s <= r)
      => fence = r

IInv ==
  /\ TypeOK
  /\ Monitor
  /\ ConnectionOwned
  /\ ActiveOwned
  /\ EndsAreDue
  /\ HeldIsGuarded
  /\ FenceTaken

-----------------------------------------------------------------------------
\* Types

\* Tokens are natural numbers, and no token stands for no run.
LEMMA RunsArePositive == NoRun \notin Run /\ Run \subseteq Nat
  BY GuardAssumption DEF NoRun

\* The count of faults stays within its bound.
LEMMA FaultTypes == faults \in 0..MaxFaults /\ Fault => faults' \in 0..MaxFaults
  BY GuardAssumption DEF Fault

\* A cleanup that is given up is that of a run.
LEMMA AbandonTypes ==
  ASSUME abandoned \subseteq Run, NEW r \in Run
  PROVE  abandoned \cup {r} \subseteq Run
  OBVIOUS

\* Closing the connection keeps connections, active runs and locks well typed.
LEMMA CloseTypes ==
  ASSUME TypeOK, NEW r \in Run, CloseResource(r)
  PROVE  /\ connection' \in [Holder -> Run \cup {NoRun}]
         /\ activeRunId' \in [Holder -> Run \cup {NoRun}]
         /\ lock' \in [Holder -> Run \cup {NoRun}]
         /\ \A h \in Holder : connection'[h] \in {connection[h], NoRun}
  BY DEF TypeOK, CloseResource, holderVars

\* Every step keeps the state well typed.
LEMMA TypeStep == IInv /\ [Next]_vars => TypeOK'
  <1> SUFFICES ASSUME IInv, [Next]_vars PROVE TypeOK'
    OBVIOUS
  <1> USE RunsArePositive, GuardAssumption, TargetsAssumption
    DEF IInv, TypeOK, GuardTypeOK, Holder
  <1>1 ASSUME NEW r \in Run, PrepareRefused(r) PROVE TypeOK'
    BY <1>1 DEF PrepareRefused, Fault, holderVars
  <1>2 ASSUME NEW r \in Run, PrepareAccepted(r) PROVE TypeOK'
    BY <1>2 DEF PrepareAccepted, AcceptStart
  <1>3 ASSUME NEW r \in Run, PrepareLocks(r) PROVE TypeOK'
    BY <1>3 DEF PrepareLocks, RegisterCleanup, ConnectionOwned
  <1>4 ASSUME NEW r \in Run, PrepareFails(r) PROVE TypeOK'
    BY <1>4 DEF PrepareFails, guardVars, ConnectionOwned
  <1>5 ASSUME NEW r \in Run, ReleaseEnters(r) PROVE TypeOK'
    BY <1>5 DEF ReleaseEnters, holderVars
  <1>6 ASSUME NEW r \in Run, ReleaseUnfences(r) PROVE TypeOK'
    BY <1>6 DEF ReleaseUnfences, ReleaseFence, holderVars
  <1>7 ASSUME NEW r \in Run, ReleaseGivesUp(r) PROVE TypeOK'
    BY <1>7 DEF ReleaseGivesUp, Fault, holderVars
  <1>8 ASSUME NEW r \in Run, ReleaseCloses(r) PROVE TypeOK'
    BY <1>8, CloseTypes DEF ReleaseCloses, guardVars
  <1>9 ASSUME NEW r \in Run, BesideHolders(SchedulerClaims(r)) PROVE TypeOK'
    BY <1>9 DEF BesideHolders, SchedulerClaims, holderVars, requestVars
  <1>10 ASSUME NEW r \in Run, BesideHolders(Expire(r)) PROVE TypeOK'
    BY <1>10 DEF BesideHolders, Expire, holderVars, requestVars
  <1>11 ASSUME BesideHolders(SchedulerReleasesFence) PROVE TypeOK'
    BY <1>11
    DEF BesideHolders, SchedulerReleasesFence, ReleaseFence, holderVars, requestVars
  <1>12 ASSUME BesideHolders(SchedulerGivesUp) PROVE TypeOK'
    <2>1 scheduler.run \in Run /\ scheduler' = Idle
      BY <1>12 DEF BesideHolders, SchedulerGivesUp, EndsAreDue
    <2>2 Idle \in [pc : {"idle", "fence", "cleanup"}, run : Run \cup {NoRun}]
      BY DEF Idle
    <2>3 scheduler' \in [pc : {"idle", "fence", "cleanup"}, run : Run \cup {NoRun}]
      BY <2>1, <2>2
    <2>4 abandoned' \subseteq Run /\ faults' \in 0..MaxFaults
      <3>1 abandoned' = abandoned \cup {scheduler.run} /\ Fault
        BY <1>12 DEF BesideHolders, SchedulerGivesUp
      <3> QED
        BY <2>1, <3>1, FaultTypes, AbandonTypes
    <2>5 UNCHANGED <<expired, fence, cleanups, accepted, scenario, connection, activeRunId, lock,
                     prepare, release, asked>>
      BY <1>12 DEF BesideHolders, SchedulerGivesUp, holderVars, requestVars
    <2> QED
      BY <2>3, <2>4, <2>5
  <1>13 ASSUME BesideHolders(FenceLapses) PROVE TypeOK'
    BY <1>13 DEF BesideHolders, FenceLapses, holderVars, requestVars
  <1>14 ASSUME SchedulerCloses PROVE TypeOK'
    <2>1 scheduler.run \in Run /\ scheduler' = Idle
      BY <1>14 DEF SchedulerCloses, SchedulerDone, EndsAreDue
    <2>2 Idle \in [pc : {"idle", "fence", "cleanup"}, run : Run \cup {NoRun}]
      BY DEF Idle
    <2>3 /\ connection' \in [Holder -> Run \cup {NoRun}]
         /\ activeRunId' \in [Holder -> Run \cup {NoRun}]
         /\ lock' \in [Holder -> Run \cup {NoRun}]
         /\ \A h \in Holder : connection'[h] \in {connection[h], NoRun}
      BY <1>14, <2>1, CloseTypes DEF SchedulerCloses
    <2> QED
      BY <1>14, <2>1, <2>2, <2>3 DEF SchedulerCloses, SchedulerDone, requestVars
  <1>15 ASSUME PoolRetiresSession PROVE TypeOK'
    BY <1>15 DEF PoolRetiresSession, guardVars, requestVars
  <1>16 ASSUME ServiceRestarts PROVE TypeOK'
    BY <1>16 DEF ServiceRestarts, Fault, Idle
  <1>17 CASE UNCHANGED vars
    BY <1>17 DEF vars, guardVars, holderVars, requestVars
  <1> QED
    BY <1>1, <1>2, <1>3, <1>4, <1>5, <1>6, <1>7, <1>8, <1>9, <1>10, <1>11, <1>12, <1>13,
       <1>14, <1>15, <1>16, <1>17
    DEF Next

\* A request enters a free monitor, and has left it before the next one enters.
LEMMA MonitorStep == IInv /\ [Next]_vars => Monitor'
  <1> SUFFICES ASSUME IInv, [Next]_vars PROVE Monitor'
    OBVIOUS
  <1> USE RunsArePositive DEF IInv, TypeOK, Monitor, InMonitor, MonitorFree
  <1>1 ASSUME NEW r \in Run, PrepareRefused(r) PROVE Monitor'
    BY <1>1 DEF PrepareRefused, Fault, holderVars
  <1>2 ASSUME NEW r \in Run, PrepareAccepted(r) PROVE Monitor'
    BY <1>2 DEF PrepareAccepted, AcceptStart
  <1>3 ASSUME NEW r \in Run, PrepareLocks(r) PROVE Monitor'
    BY <1>3 DEF PrepareLocks, RegisterCleanup
  <1>4 ASSUME NEW r \in Run, PrepareFails(r) PROVE Monitor'
    BY <1>4 DEF PrepareFails, guardVars
  <1>5 ASSUME NEW r \in Run, ReleaseEnters(r) PROVE Monitor'
    BY <1>5 DEF ReleaseEnters, holderVars
  <1>6 ASSUME NEW r \in Run, ReleaseUnfences(r) PROVE Monitor'
    BY <1>6 DEF ReleaseUnfences, ReleaseFence, holderVars
  <1>7 ASSUME NEW r \in Run, ReleaseGivesUp(r) PROVE Monitor'
    BY <1>7 DEF ReleaseGivesUp, Fault, holderVars
  <1>8 ASSUME NEW r \in Run, ReleaseCloses(r) PROVE Monitor'
    BY <1>8 DEF ReleaseCloses, guardVars
  <1>9 ASSUME NEW r \in Run, BesideHolders(SchedulerClaims(r)) PROVE Monitor'
    BY <1>9 DEF BesideHolders, SchedulerClaims, holderVars, requestVars
  <1>10 ASSUME NEW r \in Run, BesideHolders(Expire(r)) PROVE Monitor'
    BY <1>10 DEF BesideHolders, Expire, holderVars, requestVars
  <1>11 ASSUME BesideHolders(SchedulerReleasesFence) PROVE Monitor'
    BY <1>11
    DEF BesideHolders, SchedulerReleasesFence, ReleaseFence, holderVars, requestVars
  <1>12 ASSUME BesideHolders(SchedulerGivesUp) PROVE Monitor'
    BY <1>12 DEF BesideHolders, SchedulerGivesUp, Fault, Idle, holderVars, requestVars
  <1>13 ASSUME BesideHolders(FenceLapses) PROVE Monitor'
    BY <1>13 DEF BesideHolders, FenceLapses, holderVars, requestVars
  <1>14 ASSUME SchedulerCloses PROVE Monitor'
    BY <1>14 DEF SchedulerCloses, SchedulerDone, Idle, requestVars
  <1>15 ASSUME PoolRetiresSession PROVE Monitor'
    BY <1>15 DEF PoolRetiresSession, guardVars, requestVars
  <1>16 ASSUME ServiceRestarts PROVE Monitor'
    BY <1>16 DEF ServiceRestarts, Fault, Idle
  <1>17 CASE UNCHANGED vars
    BY <1>17 DEF vars, guardVars, holderVars, requestVars
  <1> QED
    BY <1>1, <1>2, <1>3, <1>4, <1>5, <1>6, <1>7, <1>8, <1>9, <1>10, <1>11, <1>12, <1>13,
       <1>14, <1>15, <1>16, <1>17
    DEF Next

\* Only a preparing or the active run has the connection; nobody closes it meanwhile
\* for a run whose lock statement waits inside the monitor.
LEMMA ConnectionStep == IInv /\ [Next]_vars => ConnectionOwned'
  <1> SUFFICES ASSUME IInv, [Next]_vars PROVE ConnectionOwned'
    OBVIOUS
  <1> USE RunsArePositive DEF IInv, TypeOK, ConnectionOwned
  <1>1 ASSUME NEW r \in Run, PrepareRefused(r) PROVE ConnectionOwned'
    BY <1>1 DEF PrepareRefused, Fault, holderVars
  <1>2 ASSUME NEW r \in Run, PrepareAccepted(r) PROVE ConnectionOwned'
    BY <1>2 DEF PrepareAccepted, AcceptStart, MonitorFree, InMonitor
  <1>3 ASSUME NEW r \in Run, PrepareLocks(r) PROVE ConnectionOwned'
    BY <1>3 DEF PrepareLocks, RegisterCleanup, Monitor, InMonitor
  <1>4 ASSUME NEW r \in Run, PrepareFails(r) PROVE ConnectionOwned'
    BY <1>4 DEF PrepareFails, guardVars, Monitor, InMonitor
  <1>5 ASSUME NEW r \in Run, ReleaseEnters(r) PROVE ConnectionOwned'
    BY <1>5 DEF ReleaseEnters, holderVars
  <1>6 ASSUME NEW r \in Run, ReleaseUnfences(r) PROVE ConnectionOwned'
    BY <1>6 DEF ReleaseUnfences, ReleaseFence, holderVars
  <1>7 ASSUME NEW r \in Run, ReleaseGivesUp(r) PROVE ConnectionOwned'
    BY <1>7 DEF ReleaseGivesUp, Fault, holderVars
  <1>8 ASSUME NEW r \in Run, ReleaseCloses(r) PROVE ConnectionOwned'
    <2>1 \A s \in Run : prepare[s] = "locking" => scenario[s] # scenario[r]
      BY <1>8 DEF ReleaseCloses, Monitor, InMonitor
    <2> QED
      BY <1>8, <2>1 DEF ReleaseCloses, CloseResource, guardVars, holderVars
  <1>9 ASSUME NEW r \in Run, BesideHolders(SchedulerClaims(r)) PROVE ConnectionOwned'
    BY <1>9 DEF BesideHolders, SchedulerClaims, holderVars, requestVars
  <1>10 ASSUME NEW r \in Run, BesideHolders(Expire(r)) PROVE ConnectionOwned'
    BY <1>10 DEF BesideHolders, Expire, holderVars, requestVars
  <1>11 ASSUME BesideHolders(SchedulerReleasesFence) PROVE ConnectionOwned'
    BY <1>11
    DEF BesideHolders, SchedulerReleasesFence, ReleaseFence, holderVars, requestVars
  <1>12 ASSUME BesideHolders(SchedulerGivesUp) PROVE ConnectionOwned'
    BY <1>12 DEF BesideHolders, SchedulerGivesUp, Fault, Idle, holderVars, requestVars
  <1>13 ASSUME BesideHolders(FenceLapses) PROVE ConnectionOwned'
    BY <1>13 DEF BesideHolders, FenceLapses, holderVars, requestVars
  <1>14 ASSUME SchedulerCloses PROVE ConnectionOwned'
    <2>1 scheduler.run \in Run
      BY <1>14 DEF SchedulerCloses, EndsAreDue, GuardTypeOK
    <2>2 \A s \in Run : prepare[s] = "locking" => scenario[s] # scenario[scheduler.run]
      BY <1>14, <2>1 DEF SchedulerCloses, MonitorFree, InMonitor
    <2> QED
      BY <1>14, <2>1, <2>2
      DEF SchedulerCloses, SchedulerDone, CloseResource, holderVars, requestVars
  <1>15 ASSUME PoolRetiresSession PROVE ConnectionOwned'
    BY <1>15 DEF PoolRetiresSession, guardVars, requestVars
  <1>16 ASSUME ServiceRestarts PROVE ConnectionOwned'
    BY <1>16 DEF ServiceRestarts, Fault, Idle
  <1>17 CASE UNCHANGED vars
    BY <1>17 DEF vars, guardVars, holderVars, requestVars
  <1> QED
    BY <1>1, <1>2, <1>3, <1>4, <1>5, <1>6, <1>7, <1>8, <1>9, <1>10, <1>11, <1>12, <1>13,
       <1>14, <1>15, <1>16, <1>17
    DEF Next

\* The name of the active run changes only with its lock, except after an expiry.
LEMMA ActiveStep == IInv /\ [Next]_vars => ActiveOwned'
  <1> SUFFICES ASSUME IInv, [Next]_vars PROVE ActiveOwned'
    OBVIOUS
  <1> USE RunsArePositive DEF IInv, TypeOK, ActiveOwned
  <1>1 ASSUME NEW r \in Run, PrepareRefused(r) PROVE ActiveOwned'
    BY <1>1 DEF PrepareRefused, Fault, holderVars
  <1>2 ASSUME NEW r \in Run, PrepareAccepted(r) PROVE ActiveOwned'
    BY <1>2 DEF PrepareAccepted, AcceptStart
  <1>3 ASSUME NEW r \in Run, PrepareLocks(r) PROVE ActiveOwned'
    BY <1>3 DEF PrepareLocks, RegisterCleanup, ConnectionOwned
  <1>4 ASSUME NEW r \in Run, PrepareFails(r) PROVE ActiveOwned'
    BY <1>4 DEF PrepareFails, guardVars, ConnectionOwned
  <1>5 ASSUME NEW r \in Run, ReleaseEnters(r) PROVE ActiveOwned'
    BY <1>5 DEF ReleaseEnters, holderVars
  <1>6 ASSUME NEW r \in Run, ReleaseUnfences(r) PROVE ActiveOwned'
    BY <1>6 DEF ReleaseUnfences, ReleaseFence, holderVars
  <1>7 ASSUME NEW r \in Run, ReleaseGivesUp(r) PROVE ActiveOwned'
    BY <1>7 DEF ReleaseGivesUp, Fault, holderVars
  <1>8 ASSUME NEW r \in Run, ReleaseCloses(r) PROVE ActiveOwned'
    BY <1>8
    DEF ReleaseCloses, guardVars, CloseResource, holderVars, ConnectionOwned, Monitor,
        InMonitor, MonitorFree
  <1>9 ASSUME NEW r \in Run, BesideHolders(SchedulerClaims(r)) PROVE ActiveOwned'
    BY <1>9 DEF BesideHolders, SchedulerClaims, holderVars, requestVars
  <1>10 ASSUME NEW r \in Run, BesideHolders(Expire(r)) PROVE ActiveOwned'
    BY <1>10 DEF BesideHolders, Expire, holderVars, requestVars
  <1>11 ASSUME BesideHolders(SchedulerReleasesFence) PROVE ActiveOwned'
    BY <1>11
    DEF BesideHolders, SchedulerReleasesFence, ReleaseFence, holderVars, requestVars
  <1>12 ASSUME BesideHolders(SchedulerGivesUp) PROVE ActiveOwned'
    BY <1>12 DEF BesideHolders, SchedulerGivesUp, Fault, Idle, holderVars, requestVars
  <1>13 ASSUME BesideHolders(FenceLapses) PROVE ActiveOwned'
    BY <1>13 DEF BesideHolders, FenceLapses, holderVars, requestVars
  <1>14 ASSUME SchedulerCloses PROVE ActiveOwned'
    BY <1>14
    DEF SchedulerCloses, SchedulerDone, Idle, requestVars, CloseResource, holderVars,
        ConnectionOwned, Monitor, InMonitor, MonitorFree
  <1>15 ASSUME PoolRetiresSession PROVE ActiveOwned'
    BY <1>15 DEF PoolRetiresSession, guardVars, requestVars
  <1>16 ASSUME ServiceRestarts PROVE ActiveOwned'
    BY <1>16 DEF ServiceRestarts, Fault, Idle
  <1>17 CASE UNCHANGED vars
    BY <1>17 DEF vars, guardVars, holderVars, requestVars
  <1> QED
    BY <1>1, <1>2, <1>3, <1>4, <1>5, <1>6, <1>7, <1>8, <1>9, <1>10, <1>11, <1>12, <1>13,
       <1>14, <1>15, <1>16, <1>17
    DEF Next

\* A registration that was claimed or taken out comes back only for a preparing run.
LEMMA EndsStep == IInv /\ [Next]_vars => EndsAreDue'
  <1> SUFFICES ASSUME IInv, [Next]_vars PROVE EndsAreDue'
    OBVIOUS
  <1> USE RunsArePositive, TargetsAssumption DEF IInv, TypeOK, GuardTypeOK, EndsAreDue
  <1>1 ASSUME NEW r \in Run, PrepareRefused(r) PROVE EndsAreDue'
    BY <1>1 DEF PrepareRefused, Fault, holderVars
  <1>2 ASSUME NEW r \in Run, PrepareAccepted(r) PROVE EndsAreDue'
    BY <1>2 DEF PrepareAccepted, AcceptStart
  <1>3 ASSUME NEW r \in Run, PrepareLocks(r) PROVE EndsAreDue'
    BY <1>3 DEF PrepareLocks, RegisterCleanup, Monitor
  <1>4 ASSUME NEW r \in Run, PrepareFails(r) PROVE EndsAreDue'
    BY <1>4 DEF PrepareFails, guardVars
  <1>5 ASSUME NEW r \in Run, ReleaseEnters(r) PROVE EndsAreDue'
    BY <1>5 DEF ReleaseEnters, holderVars
  <1>6 ASSUME NEW r \in Run, ReleaseUnfences(r) PROVE EndsAreDue'
    BY <1>6 DEF ReleaseUnfences, ReleaseFence, holderVars
  <1>7 ASSUME NEW r \in Run, ReleaseGivesUp(r) PROVE EndsAreDue'
    BY <1>7 DEF ReleaseGivesUp, Fault, holderVars
  <1>8 ASSUME NEW r \in Run, ReleaseCloses(r) PROVE EndsAreDue'
    BY <1>8 DEF ReleaseCloses, guardVars
  <1>9 ASSUME NEW r \in Run, BesideHolders(SchedulerClaims(r)) PROVE EndsAreDue'
    BY <1>9 DEF BesideHolders, SchedulerClaims, holderVars, requestVars
  <1>10 ASSUME NEW r \in Run, BesideHolders(Expire(r)) PROVE EndsAreDue'
    BY <1>10 DEF BesideHolders, Expire, holderVars, requestVars
  <1>11 ASSUME BesideHolders(SchedulerReleasesFence) PROVE EndsAreDue'
    BY <1>11
    DEF BesideHolders, SchedulerReleasesFence, ReleaseFence, holderVars, requestVars
  <1>12 ASSUME BesideHolders(SchedulerGivesUp) PROVE EndsAreDue'
    BY <1>12 DEF BesideHolders, SchedulerGivesUp, Fault, Idle, holderVars, requestVars
  <1>13 ASSUME BesideHolders(FenceLapses) PROVE EndsAreDue'
    BY <1>13 DEF BesideHolders, FenceLapses, holderVars, requestVars
  <1>14 ASSUME SchedulerCloses PROVE EndsAreDue'
    BY <1>14 DEF SchedulerCloses, SchedulerDone, Idle, requestVars
  <1>15 ASSUME PoolRetiresSession PROVE EndsAreDue'
    BY <1>15 DEF PoolRetiresSession, guardVars, requestVars
  <1>16 ASSUME ServiceRestarts PROVE EndsAreDue'
    BY <1>16 DEF ServiceRestarts, Fault, Idle
  <1>17 CASE UNCHANGED vars
    BY <1>17 DEF vars, guardVars, holderVars, requestVars
  <1> QED
    BY <1>1, <1>2, <1>3, <1>4, <1>5, <1>6, <1>7, <1>8, <1>9, <1>10, <1>11, <1>12, <1>13,
       <1>14, <1>15, <1>16, <1>17
    DEF Next

\* Every way of losing the registration leads to closeResource, or to an abandoned run.
LEMMA GuardedStep == IInv /\ [Next]_vars => HeldIsGuarded'
  <1> SUFFICES ASSUME IInv, [Next]_vars PROVE HeldIsGuarded'
    OBVIOUS
  <1> USE RunsArePositive DEF IInv, TypeOK, GuardTypeOK, HeldIsGuarded
  <1>1 ASSUME NEW r \in Run, PrepareRefused(r) PROVE HeldIsGuarded'
    BY <1>1 DEF PrepareRefused, Fault, holderVars
  <1>2 ASSUME NEW r \in Run, PrepareAccepted(r) PROVE HeldIsGuarded'
    BY <1>2 DEF PrepareAccepted, AcceptStart
  <1>3 ASSUME NEW r \in Run, PrepareLocks(r) PROVE HeldIsGuarded'
    BY <1>3 DEF PrepareLocks, RegisterCleanup, ConnectionOwned
  <1>4 ASSUME NEW r \in Run, PrepareFails(r) PROVE HeldIsGuarded'
    BY <1>4 DEF PrepareFails, guardVars, ConnectionOwned
  <1>5 ASSUME NEW r \in Run, ReleaseEnters(r) PROVE HeldIsGuarded'
    BY <1>5 DEF ReleaseEnters, holderVars
  <1>6 ASSUME NEW r \in Run, ReleaseUnfences(r) PROVE HeldIsGuarded'
    BY <1>6 DEF ReleaseUnfences, ReleaseFence, holderVars
  <1>7 ASSUME NEW r \in Run, ReleaseGivesUp(r) PROVE HeldIsGuarded'
    BY <1>7 DEF ReleaseGivesUp, Fault, holderVars
  <1>8 ASSUME NEW r \in Run, ReleaseCloses(r) PROVE HeldIsGuarded'
    BY <1>8
    DEF ReleaseCloses, guardVars, CloseResource, holderVars, ConnectionOwned, EndsAreDue
  <1>9 ASSUME NEW r \in Run, BesideHolders(SchedulerClaims(r)) PROVE HeldIsGuarded'
    BY <1>9 DEF BesideHolders, SchedulerClaims, holderVars, requestVars
  <1>10 ASSUME NEW r \in Run, BesideHolders(Expire(r)) PROVE HeldIsGuarded'
    BY <1>10 DEF BesideHolders, Expire, holderVars, requestVars
  <1>11 ASSUME BesideHolders(SchedulerReleasesFence) PROVE HeldIsGuarded'
    BY <1>11
    DEF BesideHolders, SchedulerReleasesFence, ReleaseFence, holderVars, requestVars
  <1>12 ASSUME BesideHolders(SchedulerGivesUp) PROVE HeldIsGuarded'
    BY <1>12 DEF BesideHolders, SchedulerGivesUp, Fault, Idle, holderVars, requestVars
  <1>13 ASSUME BesideHolders(FenceLapses) PROVE HeldIsGuarded'
    BY <1>13 DEF BesideHolders, FenceLapses, holderVars, requestVars
  <1>14 ASSUME SchedulerCloses PROVE HeldIsGuarded'
    BY <1>14
    DEF SchedulerCloses, SchedulerDone, Idle, requestVars, CloseResource, holderVars,
        ConnectionOwned, EndsAreDue
  <1>15 ASSUME PoolRetiresSession PROVE HeldIsGuarded'
    BY <1>15 DEF PoolRetiresSession, guardVars, requestVars
  <1>16 ASSUME ServiceRestarts PROVE HeldIsGuarded'
    BY <1>16 DEF ServiceRestarts, Fault, Idle
  <1>17 CASE UNCHANGED vars
    BY <1>17 DEF vars, guardVars, holderVars, requestVars
  <1> QED
    BY <1>1, <1>2, <1>3, <1>4, <1>5, <1>6, <1>7, <1>8, <1>9, <1>10, <1>11, <1>12, <1>13,
       <1>14, <1>15, <1>16, <1>17
    DEF Next

\* Only a newer token or the run's own release moves its fence.
LEMMA FenceStep == IInv /\ [Next]_vars => FenceTaken'
  <1> SUFFICES ASSUME IInv, [Next]_vars PROVE FenceTaken'
    OBVIOUS
  <1> USE RunsArePositive DEF IInv, TypeOK, GuardTypeOK, FenceTaken
  <1>1 ASSUME NEW r \in Run, PrepareRefused(r) PROVE FenceTaken'
    BY <1>1 DEF PrepareRefused, Fault, holderVars
  <1>2 ASSUME NEW r \in Run, PrepareAccepted(r) PROVE FenceTaken'
    BY <1>2 DEF PrepareAccepted, AcceptStart, Acceptable
  <1>3 ASSUME NEW r \in Run, PrepareLocks(r) PROVE FenceTaken'
    BY <1>3 DEF PrepareLocks, RegisterCleanup
  <1>4 ASSUME NEW r \in Run, PrepareFails(r) PROVE FenceTaken'
    BY <1>4 DEF PrepareFails, guardVars
  <1>5 ASSUME NEW r \in Run, ReleaseEnters(r) PROVE FenceTaken'
    BY <1>5 DEF ReleaseEnters, holderVars
  <1>6 ASSUME NEW r \in Run, ReleaseUnfences(r) PROVE FenceTaken'
    BY <1>6 DEF ReleaseUnfences, ReleaseFence, holderVars, EndsAreDue, Monitor
  <1>7 ASSUME NEW r \in Run, ReleaseGivesUp(r) PROVE FenceTaken'
    BY <1>7 DEF ReleaseGivesUp, Fault, holderVars
  <1>8 ASSUME NEW r \in Run, ReleaseCloses(r) PROVE FenceTaken'
    BY <1>8 DEF ReleaseCloses, guardVars
  <1>9 ASSUME NEW r \in Run, BesideHolders(SchedulerClaims(r)) PROVE FenceTaken'
    BY <1>9 DEF BesideHolders, SchedulerClaims, holderVars, requestVars
  <1>10 ASSUME NEW r \in Run, BesideHolders(Expire(r)) PROVE FenceTaken'
    BY <1>10 DEF BesideHolders, Expire, holderVars, requestVars
  <1>11 ASSUME BesideHolders(SchedulerReleasesFence) PROVE FenceTaken'
    BY <1>11
    DEF BesideHolders, SchedulerReleasesFence, ReleaseFence, holderVars, requestVars,
        EndsAreDue
  <1>12 ASSUME BesideHolders(SchedulerGivesUp) PROVE FenceTaken'
    BY <1>12 DEF BesideHolders, SchedulerGivesUp, Fault, Idle, holderVars, requestVars
  <1>13 ASSUME BesideHolders(FenceLapses) PROVE FenceTaken'
    BY <1>13 DEF BesideHolders, FenceLapses, holderVars, requestVars
  <1>14 ASSUME SchedulerCloses PROVE FenceTaken'
    BY <1>14 DEF SchedulerCloses, SchedulerDone, Idle, requestVars
  <1>15 ASSUME PoolRetiresSession PROVE FenceTaken'
    BY <1>15 DEF PoolRetiresSession, guardVars, requestVars
  <1>16 ASSUME ServiceRestarts PROVE FenceTaken'
    BY <1>16 DEF ServiceRestarts, Fault, Idle
  <1>17 CASE UNCHANGED vars
    BY <1>17 DEF vars, guardVars, holderVars, requestVars
  <1> QED
    BY <1>1, <1>2, <1>3, <1>4, <1>5, <1>6, <1>7, <1>8, <1>9, <1>10, <1>11, <1>12, <1>13,
       <1>14, <1>15, <1>16, <1>17
    DEF Next

\* Every step preserves the invariant.
LEMMA Inductive == IInv /\ [Next]_vars => IInv'
  BY TypeStep, MonitorStep, ConnectionStep, ActiveStep, EndsStep, GuardedStep, FenceStep
  DEF IInv

\* The invariant holds initially.
LEMMA InitHolds == Init => IInv
  BY RunsArePositive, GuardAssumption, TargetsAssumption
  DEF Init, GuardInit, IInv, TypeOK, GuardTypeOK, Holder, Monitor, InMonitor, ConnectionOwned,
      ActiveOwned, EndsAreDue, HeldIsGuarded, FenceTaken, Idle

\* The invariant holds throughout.
LEMMA Invariance == Spec => []IInv
  BY InitHolds, Inductive, PTL DEF Spec

-----------------------------------------------------------------------------
\* Theorems

\* The variables of the guard and of both holders keep their types, and a connection
\* belongs to a run that is being prepared or was prepared (InventoryAvailabilityService
\* and InventoryReservationService, availabilityConnection and reservationConnection).
THEOREM TypeCorrect == Spec => []TypeOK
  BY Invariance, PTL DEF IInv

\* A prepared lock is never forgotten by inventory-service: registerCleanup comes
\* before prepare returns, and whoever takes the registration out of the map goes on
\* to close the resource, unless Redis fails it.
THEOREM PreparedIsGuarded == Spec => []HeldIsGuarded
  BY Invariance, PTL DEF IInv

\* report and summary, which only compare activeRunId, find the connection and the
\* lock of a run that has not expired, whatever other runs prepare and release.
THEOREM ActiveHoldsItsLock == Spec => []ActiveHasResource
  <1>1 IInv => ActiveHasResource
    BY DEF IInv, ActiveOwned, ConnectionOwned, ActiveHasResource
  <1> QED
    BY <1>1, Invariance, PTL

\* OperationRunGuard: the newest accepted run keeps the fence until its own release or
\* expiry, although both holders and the scheduler release older runs at any time.
THEOREM NewestKeepsFence == Spec => []FenceKept
  <1>1 IInv => FenceKept
    BY DEF IInv, FenceTaken, FenceKept
  <1> QED
    BY <1>1, Invariance, PTL

\* closeResource compares the run before it closes: in every step the connection of a
\* run goes only by its own expiry, release or failing prepare, or by a restart.
THEOREM RunsEndTheirOwn == Spec => OnlyOwnEnd
  <1> DEFINE Own ==
        \A h \in Holder, r \in Run :
          connection[h] = r /\ connection'[h] # r =>
            r \in expired \/ asked[r] > 0 \/ prepare[r] = "locking" \/ faults' # faults
  <1>1 IInv /\ [Next]_vars => Own
    <2> SUFFICES ASSUME IInv, [Next]_vars, NEW h \in Holder, NEW r \in Run,
                        connection[h] = r, connection'[h] # r
                 PROVE  r \in expired \/ asked[r] > 0 \/ prepare[r] = "locking" \/ faults' # faults
      OBVIOUS
    <2> USE RunsArePositive DEF IInv, TypeOK, GuardTypeOK
    <2>1 ASSUME NEW s \in Run, ReleaseCloses(s)
         PROVE  s = r \/ prepare[r] = "locking"
      <3>1 activeRunId[h] = s
        BY <2>1 DEF ReleaseCloses, CloseResource, holderVars
      <3> QED
        BY <3>1 DEF ConnectionOwned
    <2>2 ASSUME NEW s \in Run, ReleaseCloses(s) PROVE asked[r] > 0 \/ prepare[r] = "locking"
      BY <2>1, <2>2 DEF ReleaseCloses, EndsAreDue
    <2>3 ASSUME SchedulerCloses PROVE r \in expired \/ prepare[r] = "locking"
      <3>1 activeRunId[h] = scheduler.run
        BY <2>3 DEF SchedulerCloses, CloseResource, holderVars
      <3> QED
        BY <2>3, <3>1 DEF SchedulerCloses, ConnectionOwned, EndsAreDue
    <2>4 ASSUME NEW s \in Run, PrepareAccepted(s) PROVE FALSE
      BY <2>4 DEF PrepareAccepted
    <2>5 ASSUME NEW s \in Run, PrepareLocks(s) \/ PrepareFails(s) PROVE prepare[r] = "locking"
      BY <2>5 DEF PrepareLocks, PrepareFails, ConnectionOwned
    <2>6 ASSUME ServiceRestarts PROVE faults' # faults
      BY <2>6 DEF ServiceRestarts, Fault
    <2>7 CASE UNCHANGED connection
      BY <2>7
    <2>8 \/ UNCHANGED connection
         \/ \E s \in Run : ReleaseCloses(s) \/ PrepareAccepted(s) \/ PrepareLocks(s)
                           \/ PrepareFails(s)
         \/ SchedulerCloses \/ ServiceRestarts
      BY DEF Next, vars, holderVars, PrepareRefused, ReleaseEnters, ReleaseUnfences,
             ReleaseGivesUp, BesideHolders, PoolRetiresSession
    <2> QED
      BY <2>2, <2>3, <2>4, <2>5, <2>6, <2>7, <2>8
  <1>2 Spec => [][Own]_vars
    BY <1>1, Invariance, PTL DEF Spec
  <1> QED
    BY <1>2 DEF OnlyOwnEnd
=============================================================================
