---------------------------- MODULE InventoryTargets ----------------------------
\* The two holders of inventory-service that share one OperationRunGuard:
\* InventoryAvailabilityService ("table"), which keeps LOCK TABLES inventories
\* WRITE on a dedicated connection, and InventoryReservationService ("row"), which
\* keeps a transaction with SELECT ... FOR UPDATE open. prepare and release are
\* synchronized methods of their holder; the guard's scheduler runs beside them.
EXTENDS OperationRunGuard

CONSTANT
  MaxReleases           \* bound on release requests per run (stop, retry, remove)

ASSUME TargetsAssumption == MaxReleases \in Nat

Holder == {"table", "row"}

VARIABLES
  scenario,             \* scenario[r]: the holder that run r addresses
  connection,           \* connection[h]: run that opened the dedicated connection
  activeRunId,          \* activeRunId[h], with fencingToken
  lock,                 \* lock[h]: run whose session has the table or row lock
  prepare,              \* prepare[r]: the prepare request of r
  release,              \* release[r]: the release request of r inside the monitor
  asked                 \* asked[r]: release requests for r so far

holderVars == <<connection, activeRunId, lock>>
requestVars == <<prepare, release, asked>>
vars == <<guardVars, scenario, holderVars, requestVars>>

\* Besides the types: only a run that is being prepared or was prepared has a
\* connection.
TypeOK ==
  /\ GuardTypeOK
  /\ scenario \in [Run -> Holder]
  /\ connection \in [Holder -> Run \cup {NoRun}]
  /\ activeRunId \in [Holder -> Run \cup {NoRun}]
  /\ lock \in [Holder -> Run \cup {NoRun}]
  /\ prepare \in [Run -> {"sent", "locking", "ok", "error"}]
  /\ release \in [Run -> {"none", "fence", "close"}]
  /\ asked \in [Run -> 0..MaxReleases]
  /\ \A h \in Holder, r \in Run : connection[h] = r => prepare[r] \in {"locking", "ok"}

Init ==
  /\ GuardInit
  /\ scenario \in [Run -> Holder]
  /\ connection = [h \in Holder |-> NoRun]
  /\ activeRunId = [h \in Holder |-> NoRun]
  /\ lock = [h \in Holder |-> NoRun]
  /\ prepare = [r \in Run |-> "sent"]
  /\ release = [r \in Run |-> "none"]
  /\ asked = [r \in Run |-> 0]

-----------------------------------------------------------------------------
\* A request that is between two of its steps is inside the monitor of its holder.
InMonitor(r) == prepare[r] = "locking" \/ release[r] # "none"
MonitorFree(h) == \A r \in Run : scenario[r] = h => ~InMonitor(r)

\* Defect: the resource is closed for whichever run asks.
CloseAnyResource(r) ==
  LET h == scenario[r] IN
  /\ connection' = [connection EXCEPT ![h] = NoRun]
  /\ activeRunId' = [activeRunId EXCEPT ![h] = NoRun]
  /\ lock' = [lock EXCEPT ![h] = IF connection[h] # NoRun /\ @ = connection[h] THEN NoRun ELSE @]

\* closeResource: UNLOCK TABLES or rollback, then the connection goes back to the pool.
CloseResource(r) ==
  LET h == scenario[r] IN
  IF activeRunId[h] = r
    THEN /\ connection' = [connection EXCEPT ![h] = NoRun]
         /\ activeRunId' = [activeRunId EXCEPT ![h] = NoRun]
         /\ lock' = [lock EXCEPT ![h] =
                       IF connection[h] # NoRun /\ @ = connection[h] THEN NoRun ELSE @]
    ELSE UNCHANGED holderVars

-----------------------------------------------------------------------------
\* prepare()

\* The context is expired, the token is behind the fence, or Redis fails.
PrepareRefused(r) ==
  /\ prepare[r] = "sent"
  /\ MonitorFree(scenario[r])
  /\ \/ ~Acceptable(r) /\ UNCHANGED faults
     \/ Fault
  /\ prepare' = [prepare EXCEPT ![r] = "error"]
  /\ UNCHANGED <<expired, fence, cleanups, scheduler, accepted, abandoned, scenario,
                 holderVars, release, asked>>

\* Defect: the holder names its active run before it has the lock.
AcceptedAsActive(r) ==
  LET h == scenario[r] IN
  /\ prepare[r] = "sent"
  /\ MonitorFree(h)
  /\ AcceptStart(r)
  /\ connection[h] = NoRun
  /\ prepare' = [prepare EXCEPT ![r] = "locking"]
  /\ connection' = [connection EXCEPT ![h] = r]
  /\ activeRunId' = [activeRunId EXCEPT ![h] = r]
  /\ UNCHANGED <<expired, cleanups, scheduler, faults, abandoned, scenario, lock, release, asked>>

\* The token is accepted, and with it the fence taken, before the holder looks
\* whether it is already active.
PrepareAccepted(r) ==
  LET h == scenario[r] IN
  /\ prepare[r] = "sent"
  /\ MonitorFree(h)
  /\ AcceptStart(r)
  /\ IF connection[h] # NoRun
       THEN prepare' = [prepare EXCEPT ![r] = "error"] /\ UNCHANGED connection
       ELSE /\ prepare' = [prepare EXCEPT ![r] = "locking"]
            /\ connection' = [connection EXCEPT ![h] = r]
  /\ UNCHANGED <<expired, cleanups, scheduler, faults, abandoned, scenario, activeRunId,
                 lock, release, asked>>

\* The lock statement returns once the database has granted it; the metadata lock
\* of LOCK TABLES and that of the open transaction exclude each other. If the run has
\* expired meanwhile, registerCleanup throws and the connection is closed, which
\* rolls the transaction back but leaves the table locked by the pooled session.
PrepareLocks(r) ==
  LET h == scenario[r] IN
  /\ prepare[r] = "locking"
  /\ \A g \in Holder : lock[g] = NoRun
  /\ activeRunId' = [activeRunId EXCEPT ![h] = r]
  /\ RegisterCleanup(r)
  /\ IF r \in expired
       THEN /\ connection' = [connection EXCEPT ![h] = NoRun]
            /\ lock' = IF h = "table" THEN [lock EXCEPT ![h] = r] ELSE lock
            /\ prepare' = [prepare EXCEPT ![r] = "error"]
       ELSE /\ lock' = [lock EXCEPT ![h] = r]
            /\ prepare' = [prepare EXCEPT ![r] = "ok"]
            /\ UNCHANGED connection
  /\ UNCHANGED <<expired, fence, scheduler, faults, accepted, abandoned, scenario, release,
                 asked>>

\* No connection, or the lock wait timed out.
PrepareFails(r) ==
  LET h == scenario[r] IN
  /\ prepare[r] = "locking"
  /\ prepare' = [prepare EXCEPT ![r] = "error"]
  /\ connection' = [connection EXCEPT ![h] = NoRun]
  /\ UNCHANGED <<guardVars, scenario, activeRunId, lock, release, asked>>

-----------------------------------------------------------------------------
\* release() and remove()

\* The registration is taken out of the map. One that is missing or claimed makes
\* guard.release a no-op; the holder closes its resource in either case.
ReleaseEnters(r) ==
  /\ MonitorFree(scenario[r])
  /\ asked[r] < MaxReleases
  /\ asked' = [asked EXCEPT ![r] = @ + 1]
  /\ cleanups' = [cleanups EXCEPT ![r] = "none"]
  /\ release' = [release EXCEPT ![r] = IF cleanups[r] = "registered" THEN "fence" ELSE "close"]
  /\ UNCHANGED <<expired, fence, scheduler, faults, accepted, abandoned, scenario, holderVars,
                 prepare>>

ReleaseUnfences(r) ==
  /\ release[r] = "fence"
  /\ ReleaseFence(r)
  /\ release' = [release EXCEPT ![r] = "close"]
  /\ UNCHANGED <<expired, cleanups, scheduler, faults, accepted, abandoned, scenario,
                 holderVars, prepare, asked>>

\* The script throws: the request fails with its registration gone.
ReleaseGivesUp(r) ==
  /\ release[r] = "fence"
  /\ Fault
  /\ release' = [release EXCEPT ![r] = "none"]
  /\ abandoned' = abandoned \cup {r}
  /\ UNCHANGED <<expired, fence, cleanups, scheduler, accepted, scenario, holderVars, prepare,
                 asked>>

ReleaseCloses(r) ==
  /\ release[r] = "close"
  /\ CloseResource(r)
  /\ release' = [release EXCEPT ![r] = "none"]
  /\ UNCHANGED <<guardVars, scenario, prepare, asked>>

-----------------------------------------------------------------------------
\* The scheduler, the database and the process

BesideHolders(step) == step /\ UNCHANGED <<scenario, holderVars, requestVars>>

\* Defect: the cleanup is given up when it should wait for the monitor.
SchedulerSkips ==
  /\ scheduler.pc = "cleanup"
  /\ IF MonitorFree(scenario[scheduler.run]) THEN CloseResource(scheduler.run)
     ELSE UNCHANGED holderVars
  /\ SchedulerDone
  /\ UNCHANGED <<scenario, requestVars>>

\* The registered cleanup waits for the monitor of its holder.
SchedulerCloses ==
  /\ scheduler.pc = "cleanup"
  /\ MonitorFree(scenario[scheduler.run])
  /\ CloseResource(scheduler.run)
  /\ SchedulerDone
  /\ UNCHANGED <<scenario, requestVars>>

\* The pool retires a session that still had the table locked.
PoolRetiresSession ==
  /\ lock["table"] # NoRun
  /\ connection["table"] # lock["table"]
  /\ lock' = [lock EXCEPT !["table"] = NoRun]
  /\ UNCHANGED <<guardVars, scenario, connection, activeRunId, requestVars>>

\* Sessions and memory are gone, the fence key is not.
ServiceRestarts ==
  /\ Fault
  /\ connection' = [h \in Holder |-> NoRun]
  /\ activeRunId' = [h \in Holder |-> NoRun]
  /\ lock' = [h \in Holder |-> NoRun]
  /\ cleanups' = [r \in Run |-> "none"]
  /\ scheduler' = Idle
  /\ prepare' = [r \in Run |-> IF prepare[r] = "locking" THEN "error" ELSE prepare[r]]
  /\ release' = [r \in Run |-> "none"]
  /\ UNCHANGED <<expired, fence, accepted, abandoned, scenario, asked>>

Next ==
  \/ \E r \in Run :
       \/ PrepareRefused(r)
       \/ PrepareAccepted(r)
       \/ PrepareLocks(r)
       \/ PrepareFails(r)
       \/ ReleaseEnters(r)
       \/ ReleaseUnfences(r)
       \/ ReleaseGivesUp(r)
       \/ ReleaseCloses(r)
       \/ BesideHolders(SchedulerClaims(r))
       \/ BesideHolders(Expire(r))
  \/ BesideHolders(SchedulerReleasesFence)
  \/ BesideHolders(SchedulerGivesUp)
  \/ BesideHolders(FenceLapses)
  \/ SchedulerCloses
  \/ PoolRetiresSession
  \/ ServiceRestarts

Spec == Init /\ [][Next]_vars

\* Threads go on, and lock waits end: infra/mysql/my.cnf:12-13 bounds them by 10 s
\* and 30 s. No request has to come.
Fairness ==
  /\ WF_vars(BesideHolders(SchedulerReleasesFence))
  /\ WF_vars(SchedulerCloses)
  /\ \A r \in Run :
       /\ WF_vars(BesideHolders(SchedulerClaims(r)))
       /\ WF_vars(PrepareLocks(r) \/ PrepareFails(r))
       /\ WF_vars(ReleaseUnfences(r))
       /\ WF_vars(ReleaseCloses(r))

FairSpec == Spec /\ Fairness

-----------------------------------------------------------------------------
\* Properties

\* A prepared resource is never forgotten: its cleanup is registered, or somebody is
\* about to run it; the exception is a release that Redis failed.
HeldIsGuarded ==
  \A h \in Holder, r \in Run :
    connection[h] = r /\ prepare[r] = "ok" =>
      \/ cleanups[r] = "registered"
      \/ scheduler.pc # "idle" /\ scheduler.run = r
      \/ release[r] # "none"
      \/ r \in abandoned

\* What report and summary rely on: the active run, unless expired, has its
\* connection and its lock, although prepare sets them one after the other.
ActiveHasResource ==
  \A h \in Holder, r \in Run :
    activeRunId[h] = r /\ r \notin expired => connection[h] = r /\ lock[h] = r

\* The newest accepted run keeps the fence while its cleanup is registered and it
\* has not expired: no release of an older run takes the fence away.
FenceKept ==
  \A r \in Run :
    cleanups[r] = "registered" /\ r \notin expired /\ (\A s \in accepted : s <= r)
      => fence = r

\* A run loses its connection only by its own end: expiry, a release request for
\* it, its own failing prepare, or a restart; never by the release of another run.
OnlyOwnEnd ==
  [][\A h \in Holder, r \in Run :
       connection[h] = r /\ connection'[h] # r =>
         r \in expired \/ asked[r] > 0 \/ prepare[r] = "locking" \/ faults' # faults]_vars

\* After its expiry a run gives its resource up, without any request, unless Redis
\* failed its release.
ResourceFreed ==
  \A h \in Holder, r \in Run :
    connection[h] = r /\ r \in expired ~> connection[h] # r \/ r \in abandoned

\* traffic-control-plane/src/content/runbook/en/inventory-table-exclusive.md:42 says
\* that the lock lasts until release, expiry cleanup or an error path closes the
\* resource: no session keeps the table locked without the dedicated connection.
LockEndsWithConnection ==
  \A h \in Holder : lock[h] # NoRun => connection[h] = lock[h]
=============================================================================
