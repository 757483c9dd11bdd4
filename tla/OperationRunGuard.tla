--------------------------- MODULE OperationRunGuard ---------------------------
\* The guard that every target service keeps between a fault run and its effect
\* (common/.../coordination/OperationRunGuard.java): a fence key in Redis that
\* outlives the process, and in memory the cleanups registered for the expiry of
\* runs, with the one thread that runs them. The holders that use it are in
\* InventoryTargets. A run is its fencing token.
EXTENDS Naturals

CONSTANTS
  Run,                  \* fencing tokens of the runs that reach the service
  MaxFaults             \* bound on Redis failures and restarts in a behaviour

ASSUME GuardAssumption == Run \subseteq Nat \ {0} /\ MaxFaults \in Nat

VARIABLES
  expired,              \* runs whose expiresAt has passed
  fence,                \* the fence key of this service, 0 if absent
  cleanups,             \* cleanups[r]: the registration of r in the map
  scheduler,            \* the thread "operation-run-expiry"
  faults,               \* faults that may still happen
  accepted,             \* history: runs whose start was accepted
  abandoned             \* history: runs whose release gave up on a Redis failure

guardVars == <<expired, fence, cleanups, scheduler, faults, accepted, abandoned>>

NoRun == 0
Idle == [pc |-> "idle", run |-> NoRun]

GuardTypeOK ==
  /\ expired \subseteq Run
  /\ fence \in Run \cup {0}
  /\ cleanups \in [Run -> {"none", "registered", "claimed"}]
  /\ scheduler \in [pc : {"idle", "fence", "cleanup"}, run : Run \cup {NoRun}]
  /\ faults \in 0..MaxFaults
  /\ accepted \subseteq Run
  /\ abandoned \subseteq Run

GuardInit ==
  /\ expired = {}
  /\ fence = 0
  /\ cleanups = [r \in Run |-> "none"]
  /\ scheduler = Idle
  /\ faults = MaxFaults
  /\ accepted = {}
  /\ abandoned = {}

Fault == faults > 0 /\ faults' = faults - 1

\* acceptStart, ACCEPT_SCRIPT: a token that is not behind the fence becomes the fence.
Acceptable(r) == r \notin expired /\ fence <= r
AcceptStart(r) ==
  /\ Acceptable(r)
  /\ fence' = r
  /\ accepted' = accepted \cup {r}

\* registerCleanup, which refuses an expired context.
RegisterCleanup(r) ==
  cleanups' = IF r \in expired THEN cleanups ELSE [cleanups EXCEPT ![r] = "registered"]

\* Defect: the fence is deleted without comparing its token.
DeleteFence(r) == fence' = 0

\* RELEASE_SCRIPT
ReleaseFence(r) == fence' = IF fence = r THEN 0 ELSE fence

\* Defect: the cleanup of a run is left out when another run took the fence.
ClaimsIfFenced(r) ==
  /\ scheduler.pc = "idle"
  /\ r \in expired
  /\ cleanups[r] = "registered"
  /\ fence \in {0, r}
  /\ cleanups' = [cleanups EXCEPT ![r] = "claimed"]
  /\ scheduler' = [pc |-> "fence", run |-> r]
  /\ UNCHANGED <<expired, fence, faults, accepted, abandoned>>

\* The timeout of a registration fires: it is claimed and stays in the map until
\* its cleanup has run.
SchedulerClaims(r) ==
  /\ scheduler.pc = "idle"
  /\ r \in expired
  /\ cleanups[r] = "registered"
  /\ cleanups' = [cleanups EXCEPT ![r] = "claimed"]
  /\ scheduler' = [pc |-> "fence", run |-> r]
  /\ UNCHANGED <<expired, fence, faults, accepted, abandoned>>

SchedulerReleasesFence ==
  /\ scheduler.pc = "fence"
  /\ ReleaseFence(scheduler.run)
  /\ scheduler' = [scheduler EXCEPT !.pc = "cleanup"]
  /\ UNCHANGED <<expired, cleanups, faults, accepted, abandoned>>

\* The script throws: the task ends, its registration claimed and its cleanup not run.
SchedulerGivesUp ==
  /\ scheduler.pc = "fence"
  /\ Fault
  /\ scheduler' = Idle
  /\ abandoned' = abandoned \cup {scheduler.run}
  /\ UNCHANGED <<expired, fence, cleanups, accepted>>

\* The end of release(context, registration) on the scheduler: cleanup.run() has
\* returned and the registration is removed, if it is still there.
SchedulerDone ==
  /\ scheduler' = Idle
  /\ cleanups' = [cleanups EXCEPT ![scheduler.run] = "none"]
  /\ UNCHANGED <<expired, fence, faults, accepted, abandoned>>

Expire(r) ==
  /\ r \notin expired
  /\ expired' = expired \cup {r}
  /\ UNCHANGED <<fence, cleanups, scheduler, faults, accepted, abandoned>>

\* The key lives until expiresAt of the run whose token it holds.
FenceLapses ==
  /\ fence \in expired
  /\ fence' = 0
  /\ UNCHANGED <<expired, cleanups, scheduler, faults, accepted, abandoned>>
=============================================================================
