------------------------------- MODULE FaultRun -------------------------------
\* The coordinators of fault runs and what they coordinate: the Web/API process
\* ("api") and the worker process, each with its own FaultRunCoordinator
\* (traffic-control-plane/src/lib/fault-run-coordinator.ts), the store they share,
\* and the fenced target service. ScenarioWorkers adds the load that the worker
\* process puts on the target.
\*
\* One action is one stretch of code between two awaits. Time is reduced to which
\* runs have reached expires_at; all processes read the same clock.
EXTENDS FaultRunStore

CONSTANTS
  MaxFaults,            \* bound on crashes and SQL errors in a behaviour
  MaxRecoveries,        \* bound on recoveries in progress at the same time
  MaxStray,             \* bound on delayed release requests in the network
  UsedKinds             \* kinds of scenario that operators ask for

ASSUME FaultRunAssumption ==
  /\ MaxFaults \in Nat /\ MaxRecoveries \in Nat /\ MaxStray \in Nat
  /\ UsedKinds \subseteq Kinds

VARIABLES
  expired,              \* runs whose expires_at has passed
  call,                 \* call[r]: the create request that drew UUID r
  timer,                \* timer[p]: runs with an armed timeout in process p
  rec,                  \* rec[p][r]: the recovery in recoveryPromises of process p
  boot,                 \* the worker process: scheduleActiveRuns, then polling
  prep,                 \* prep[r]: the prepare request of r
  stray,                \* runs with a release request whose caller gave up
  fence,                \* the Redis fence key of the target service, 0 if absent
  held,                 \* runs whose effect the target service holds
  released,             \* history: how far a release of r has ever got
  faults                \* faults that may still happen

processVars == <<call, timer, rec, boot>>
targetVars == <<prep, stray, fence, held, released>>
vars == <<storeVars, expired, processVars, targetVars, faults>>

Proc == {"api", "worker"}
Reasons == {"MANUAL", "EXPIRED"}

IdleCall(r) == [pc |-> "idle", run |-> r, seen |-> "NONE", compensated |-> FALSE]
IdleRecovery == [pc |-> "idle", reason |-> "EXPIRED"]
Booting(pc, rs) == [pc |-> pc, runs |-> rs]

Calls == [pc : {"idle", "existing", "insert", "start", "confirm", "arm",
                "compensate", "fail", "done"},
          run : Run, seen : States \cup {"NONE"}, compensated : BOOLEAN]
Recovers == [pc : {"idle", "mark", "drain", "release", "finish", "fail"}, reason : Reasons]
Boots == [pc : {"down", "compensate", "fail", "failHeld", "wait", "up"}, runs : SUBSET Run]

ProcessTypeOK ==
  /\ call \in [Run -> Calls]
  /\ timer \in [Proc -> SUBSET Run]
  /\ rec \in [Proc -> [Run -> Recovers]]
  /\ boot \in Boots

TargetTypeOK ==
  /\ prep \in [Run -> {"none", "sent", "ok", "error"}]
  /\ stray \subseteq Run
  /\ fence \in Nat
  /\ held \subseteq Run
  /\ released \in [Run -> {"none", "asked", "confirmed"}]

TypeOK ==
  /\ StoreTypeOK
  /\ expired \subseteq Run
  /\ ProcessTypeOK
  /\ TargetTypeOK
  /\ faults \in 0..MaxFaults

Init ==
  /\ StoreInit
  /\ expired = {}
  /\ call = [r \in Run |-> IdleCall(r)]
  /\ timer = [p \in Proc |-> {}]
  /\ rec = [p \in Proc |-> [r \in Run |-> IdleRecovery]]
  /\ boot = Booting("up", {})
  /\ prep = [r \in Run |-> "none"]
  /\ stray = {}
  /\ fence = 0
  /\ held = {}
  /\ released = [r \in Run |-> "none"]
  /\ faults = MaxFaults

-----------------------------------------------------------------------------
\* Helpers

Goto(r, pc) == call' = [call EXCEPT ![r].pc = pc]
CallDone(r) == call' = [call EXCEPT ![r] = [IdleCall(r) EXCEPT !.pc = "done"]]
GotoRecovery(p, r, pc) == rec' = [rec EXCEPT ![p][r].pc = pc]
RecoveryDone(p, r) == rec' = [rec EXCEPT ![p][r] = IdleRecovery]

\* A fault of the environment: a crash, or a statement that fails.
Fault == faults > 0 /\ faults' = faults - 1

\* schedule(): replaces the timer of a run; none for a run that is over.
Scheduled(p, r, seen) ==
  timer' = [timer EXCEPT ![p] = IF seen \in ActiveStates THEN @ \cup {r} ELSE @ \ {r}]

Cleared(p, r) == timer' = [timer EXCEPT ![p] = @ \ {r}]

\* OperationRunGuard.release and the cleanup of the holder: only the run that
\* holds the target gives up its fence and its effect.
TargetReleases(r) ==
  /\ held' = held \ {r}
  /\ fence' = IF r \in held /\ fence = token[r] THEN 0 ELSE fence

\* GatewayFaultRunTargetAdapter.stop, answered: a surge has no target to call.
ReleaseConfirmed(r) ==
  /\ released' = [released EXCEPT ![r] = "confirmed"]
  /\ IF kind[r] = "SURGE" THEN UNCHANGED <<held, fence>> ELSE TargetReleases(r)
  /\ UNCHANGED <<prep, stray>>

\* GatewayFaultRunTargetAdapter.stop, failed: the target refused or was not
\* reached, or the request is still on its way when the caller gives up.
ReleaseFailed(r) ==
  /\ kind[r] # "SURGE"
  /\ \/ UNCHANGED stray
     \/ Cardinality(stray) < MaxStray /\ stray' = stray \cup {r}
  /\ released' = [released EXCEPT ![r] = IF @ = "none" THEN "asked" ELSE @]
  /\ UNCHANGED <<prep, fence, held>>

-----------------------------------------------------------------------------
\* create(), in the api process

CreateInserts(r, k, d) ==
  /\ call[r].pc = "idle"
  /\ Insert(r, k, d)
  /\ Goto(r, "insert")
  /\ UNCHANGED <<expired, timer, rec, boot, targetVars, faults>>

\* The idempotency key already names run s, which is returned.
CreateFindsRun(r, s) ==
  /\ call[r].pc = "idle"
  /\ HasRow(s)
  /\ call' = [call EXCEPT ![r] = [@ EXCEPT !.pc = "existing", !.run = s, !.seen = state[s]]]
  /\ UNCHANGED <<storeVars, expired, timer, rec, boot, targetVars, faults>>

\* ActiveFaultRunError, or IdempotencyKeyReuseError for a key that an earlier
\* request used with other parameters.
CreateRefused(r) ==
  /\ call[r].pc = "idle"
  /\ \E s \in Run : HasRow(s)
  /\ CallDone(r)
  /\ UNCHANGED <<storeVars, expired, timer, rec, boot, targetVars, faults>>

\* create() schedules the run it found as it was when it was read.
ExistingScheduled(r) ==
  /\ call[r].pc = "existing"
  /\ Scheduled("api", call[r].run, call[r].seen)
  /\ CallDone(r)
  /\ UNCHANGED <<storeVars, expired, rec, boot, targetVars, faults>>

\* The read-back after the insert fails: create() throws before its try block.
InsertReadbackFails(r) ==
  /\ call[r].pc = "insert"
  /\ Fault
  /\ CallDone(r)
  /\ UNCHANGED <<storeVars, expired, timer, rec, boot, targetVars>>

TargetStarts(r) ==
  /\ call[r].pc = "insert"
  /\ IF kind[r] = "SURGE"
       THEN Goto(r, "confirm") /\ UNCHANGED prep
       ELSE Goto(r, "start") /\ prep' = [prep EXCEPT ![r] = "sent"]
  /\ UNCHANGED <<storeVars, expired, timer, rec, boot,
                 stray, fence, held, released, faults>>

StartAnswered(r) ==
  /\ call[r].pc = "start"
  /\ prep[r] \in {"ok", "error"}
  /\ Goto(r, IF prep[r] = "ok" THEN "confirm" ELSE "compensate")
  /\ UNCHANGED <<storeVars, expired, timer, rec, boot, targetVars, faults>>

\* Defect: a timeout of the prepare request is taken for its acceptance.
TimeoutAccepted(r) ==
  /\ call[r].pc = "start"
  /\ Goto(r, "confirm")
  /\ UNCHANGED <<storeVars, expired, timer, rec, boot, targetVars, faults>>

\* The connection breaks or the fetch times out: the answer, or the request
\* itself, is still in the network.
StartTimesOut(r) ==
  /\ call[r].pc = "start"
  /\ Goto(r, "compensate")
  /\ UNCHANGED <<storeVars, expired, timer, rec, boot, targetVars, faults>>

\* Defect: the create request activates its run without comparing the state.
ConfirmBlindly(r) ==
  /\ call[r].pc = "confirm"
  /\ Transition(r, ActiveStates, "ACTIVE", "none")
  /\ Goto(r, "arm")
  /\ UNCHANGED <<expired, timer, rec, boot, targetVars, faults>>

Confirm(r) ==
  /\ call[r].pc = "confirm"
  /\ Transition(r, {"CREATING"}, "ACTIVE", "none")
  /\ Goto(r, "arm")
  /\ UNCHANGED <<expired, timer, rec, boot, targetVars, faults>>

\* The transition throws, before its commit or in the read-back after it.
ConfirmErrors(r) ==
  /\ call[r].pc = "confirm"
  /\ Fault
  /\ \/ UNCHANGED storeVars
     \/ Transition(r, {"CREATING"}, "ACTIVE", "none")
  /\ Goto(r, "compensate")
  /\ UNCHANGED <<expired, timer, rec, boot, targetVars>>

\* The record read back is scheduled, whether or not the transition took place.
Arm(r) ==
  /\ call[r].pc = "arm"
  /\ Scheduled("api", r, state[r])
  /\ CallDone(r)
  /\ UNCHANGED <<storeVars, expired, rec, boot, targetVars, faults>>

\* compensateAfterCreateFailure: its result is the evidence of the failed run.
Compensate(r) ==
  /\ call[r].pc = "compensate"
  /\ \/ /\ ReleaseConfirmed(r)
        /\ call' = [call EXCEPT ![r].pc = "fail", ![r].compensated = TRUE]
     \/ /\ ReleaseFailed(r)
        /\ Goto(r, "fail")
  /\ UNCHANGED <<storeVars, expired, timer, rec, boot, faults>>

RecordCreateFailure(r) ==
  /\ call[r].pc = "fail"
  /\ Transition(r, {"CREATING"}, "FAILED",
                IF call[r].compensated THEN "compensated" ELSE "notCompensated")
  /\ CallDone(r)
  /\ UNCHANGED <<expired, timer, rec, boot, targetVars, faults>>

\* The release succeeds but COMPENSATION_COMPLETED cannot be written.
CompensationEventLost(r) ==
  /\ call[r].pc = "compensate"
  /\ Fault
  /\ ReleaseConfirmed(r)
  /\ Goto(r, "fail")
  /\ UNCHANGED <<storeVars, expired, timer, rec, boot>>

\* An event or the transition of the compensation cannot be written: create()
\* throws and leaves the run as it is.
CompensationErrors(r) ==
  /\ call[r].pc \in {"compensate", "fail"}
  /\ Fault
  /\ CallDone(r)
  /\ UNCHANGED <<storeVars, expired, timer, rec, boot, targetVars>>

-----------------------------------------------------------------------------
\* stop() and recover(), in either process

\* stop(): a run that is not active is returned as it is, and a recovery in
\* progress in this process is joined. Otherwise recover() begins with the state
\* just read: a run seen in RECOVERING is not marked again, and one past
\* expires_at is recovered as EXPIRED whoever asked. What happens between this
\* read and the next statement is the pc "mark" or "drain" of the recovery.
Recoveries == {q \in Proc \X Run : rec[q[1]][q[2]].pc # "idle"}
StopProceeds(p, r) ==
  /\ IsActive(r)
  /\ rec[p][r].pc = "idle"
  /\ Cardinality(Recoveries) < MaxRecoveries

Recover(p, r, reason) ==
  IF StopProceeds(p, r)
    THEN rec' = [rec EXCEPT ![p][r] =
                   [pc |-> IF state[r] = "RECOVERING" THEN "drain" ELSE "mark",
                    reason |-> IF r \in expired THEN "EXPIRED" ELSE reason]]
    ELSE UNCHANGED rec

StopBegins(p, r, reason) ==
  /\ Recover(p, r, reason)
  /\ IF StopProceeds(p, r) THEN Cleared(p, r) ELSE UNCHANGED timer

\* POST /internal/fault-runs/{id}/stop
ManualStop(r) ==
  /\ HasRow(r)
  /\ StopBegins("api", r, "MANUAL")
  /\ UNCHANGED <<storeVars, expired, call, boot, targetVars, faults>>

\* The timeout that schedule() armed.
TimerFires(p, r) ==
  /\ r \in timer[p]
  /\ r \in expired
  /\ Cleared(p, r)
  /\ Recover(p, r, "EXPIRED")
  /\ UNCHANGED <<storeVars, expired, call, boot, targetVars, faults>>

\* Defect: the poll lists only ACTIVE runs.
PollsActiveOnly(r) ==
  /\ boot.pc = "up"
  /\ state[r] = "ACTIVE"
  /\ r \in expired
  /\ StopBegins("worker", r, "EXPIRED")
  /\ UNCHANGED <<storeVars, expired, call, boot, targetVars, faults>>

\* recoverExpiredRuns(), which the worker calls at start and every second.
PollExpired(r) ==
  /\ boot.pc = "up"
  /\ IsActive(r)
  /\ r \in expired
  /\ StopBegins("worker", r, "EXPIRED")
  /\ UNCHANGED <<storeVars, expired, call, boot, targetVars, faults>>

\* A run that another process has ended meanwhile is left alone; one that it is
\* recovering is drained and released here as well.
MarkRecovering(p, r) ==
  /\ rec[p][r].pc = "mark"
  /\ Transition(r, {"CREATING", "ACTIVE"}, "RECOVERING", "none")
  /\ IF IsEnded(r) THEN RecoveryDone(p, r) ELSE GotoRecovery(p, r, "drain")
  /\ UNCHANGED <<expired, call, timer, boot, targetVars, faults>>

\* drainRun: the process awaits the drain that was registered in it, if any.
\* ScenarioWorkers says when that ends.
Drain(p, r) ==
  /\ rec[p][r].pc = "drain"
  /\ GotoRecovery(p, r, "release")
  /\ UNCHANGED <<storeVars, expired, call, timer, boot, targetVars, faults>>

\* Defect: a failed release is recorded as a stop.
ReleaseAssumed(p, r) ==
  /\ rec[p][r].pc = "release"
  /\ ReleaseConfirmed(r) \/ ReleaseFailed(r)
  /\ GotoRecovery(p, r, "finish")
  /\ UNCHANGED <<storeVars, expired, call, timer, boot, faults>>

Release(p, r) ==
  /\ rec[p][r].pc = "release"
  /\ \/ ReleaseConfirmed(r) /\ GotoRecovery(p, r, "finish")
     \/ ReleaseFailed(r) /\ GotoRecovery(p, r, "fail")
  /\ UNCHANGED <<storeVars, expired, call, timer, boot, faults>>

RecordRecovery(p, r) ==
  /\ rec[p][r].pc = "finish"
  /\ Transition(r, {"RECOVERING"},
                IF rec[p][r].reason = "MANUAL" THEN "STOPPED" ELSE "RECOVERED", "stopped")
  /\ RecoveryDone(p, r)
  /\ UNCHANGED <<expired, call, timer, boot, targetVars, faults>>

RecordRecoveryFailure(p, r) ==
  /\ rec[p][r].pc = "fail"
  /\ Transition(r, {"RECOVERING"}, "FAILED", "notStopped")
  /\ RecoveryDone(p, r)
  /\ UNCHANGED <<expired, call, timer, boot, targetVars, faults>>

\* A statement of recover() fails: the promise rejects and is forgotten. During
\* scheduleActiveRuns that ends the worker, see WorkerCrashes.
RecoveryErrors(p, r) ==
  /\ rec[p][r].pc \in {"mark", "drain", "finish", "fail"}
  /\ ~(p = "worker" /\ boot.pc = "wait")
  /\ Fault
  /\ RecoveryDone(p, r)
  /\ UNCHANGED <<storeVars, expired, call, timer, boot, targetVars>>

-----------------------------------------------------------------------------
\* The worker process: start, health of the runner

\* scheduleActiveRuns: by the state it lists, a run is compensated, stopped, or
\* given a timer.
WorkerStarts ==
  /\ boot.pc = "down"
  /\ IF ActiveRuns = {}
       THEN boot' = Booting("wait", {}) /\ UNCHANGED <<timer, rec>>
       ELSE \E r \in ActiveRuns :
              IF state[r] = "CREATING"
                THEN boot' = Booting("compensate", {r}) /\ UNCHANGED <<timer, rec>>
                ELSE /\ boot' = Booting("wait", {r})
                     /\ IF state[r] = "RECOVERING" \/ r \in expired
                          THEN StopBegins("worker", r, "EXPIRED")
                          ELSE Scheduled("worker", r, state[r]) /\ UNCHANGED rec
  /\ UNCHANGED <<storeVars, expired, call, targetVars, faults>>

\* As in create(), a release whose COMPENSATION_COMPLETED cannot be written counts
\* as failed.
BootCompensates(r) ==
  /\ boot.pc = "compensate"
  /\ r \in boot.runs
  /\ \/ ReleaseConfirmed(r) /\ boot' = Booting("fail", {r}) /\ UNCHANGED faults
     \/ ReleaseConfirmed(r) /\ boot' = Booting("failHeld", {r}) /\ Fault
     \/ ReleaseFailed(r) /\ boot' = Booting("failHeld", {r}) /\ UNCHANGED faults
  /\ UNCHANGED <<storeVars, expired, call, timer, rec>>

\* CREATE_RECOVERY_FAILED, with stop reason CONTROL_PLANE_RESTART.
BootRecordsFailure(r) ==
  /\ boot.pc \in {"fail", "failHeld"}
  /\ r \in boot.runs
  /\ Transition(r, {"CREATING"}, "FAILED",
                IF boot.pc = "fail" THEN "compensated" ELSE "notCompensated")
  /\ boot' = Booting("wait", {})
  /\ UNCHANGED <<expired, call, timer, rec, targetVars, faults>>

\* main() goes on when scheduleActiveRuns has awaited its stop() calls.
WorkerReady ==
  /\ boot.pc = "wait"
  /\ \A r \in boot.runs : rec["worker"][r].pc = "idle"
  /\ boot' = Booting("up", {})
  /\ UNCHANGED <<storeVars, expired, call, timer, rec, targetVars, faults>>

\* markServiceUnavailable: a lifecycle of the heap scenario failed.
ServiceUnavailable(r) ==
  /\ boot.pc = "up"
  /\ kind[r] = "HEAP"
  /\ state[r] \in {"ACTIVE", "RECOVERING"}
  /\ Cleared("worker", r)
  /\ Transition(r, {"ACTIVE", "RECOVERING"}, "SERVICE_UNAVAILABLE", "none")
  /\ UNCHANGED <<expired, call, rec, boot, targetVars, faults>>

\* The restart route: the service comes back without its effects, then
\* markServiceRecovered ends the run.
ServiceRecovered(r) ==
  /\ state[r] = "SERVICE_UNAVAILABLE"
  /\ Cleared("api", r)
  /\ Transition(r, {"SERVICE_UNAVAILABLE"}, "RECOVERED", "restarted")
  /\ held' = {}
  /\ UNCHANGED <<expired, call, rec, boot, prep, stray, fence, released, faults>>

-----------------------------------------------------------------------------
\* Time, the target service, faults

Expire(r) ==
  /\ HasRow(r)
  /\ r \notin expired
  /\ expired' = expired \cup {r}
  /\ UNCHANGED <<storeVars, processVars, targetVars, faults>>

\* Defect: the target overwrites the fence and its holder without comparing tokens.
PreparesUnfenced(r) ==
  /\ prep[r] = "sent"
  /\ r \notin expired
  /\ fence' = token[r]
  /\ prep' = [prep EXCEPT ![r] = "ok"]
  /\ held' = held \cup {r}
  /\ UNCHANGED <<storeVars, expired, processVars, stray, released, faults>>

\* A prepare request reaches the target, perhaps long after it was sent. An
\* expired context and a token behind the fence are refused; the fence is taken
\* before the holder looks whether another run is active, or fails to prepare.
TargetPrepares(r) ==
  /\ prep[r] = "sent"
  /\ IF r \in expired \/ fence > token[r]
       THEN prep' = [prep EXCEPT ![r] = "error"] /\ UNCHANGED <<fence, held>>
       ELSE /\ fence' = token[r]
            /\ \/ /\ held \subseteq {r}
                  /\ prep' = [prep EXCEPT ![r] = "ok"]
                  /\ held' = held \cup {r}
               \/ /\ prep' = [prep EXCEPT ![r] = "error"]
                  /\ UNCHANGED held
  /\ UNCHANGED <<storeVars, expired, processVars, stray, released, faults>>

\* A release request arrives after its caller has given up.
StrayRelease(r) ==
  /\ r \in stray
  /\ stray' = stray \ {r}
  /\ TargetReleases(r)
  /\ UNCHANGED <<storeVars, expired, processVars, prep, released, faults>>

\* The cleanup that the target registered for expires_at.
TargetCleansUp(r) ==
  /\ r \in held
  /\ r \in expired
  /\ TargetReleases(r)
  /\ UNCHANGED <<storeVars, expired, processVars, prep, stray, released, faults>>

\* The fence key lives until expires_at of the run whose token it holds.
FenceLapses(r) ==
  /\ r \in expired
  /\ fence # 0
  /\ fence = token[r]
  /\ fence' = 0
  /\ UNCHANGED <<storeVars, expired, processVars, prep, stray, held, released, faults>>

\* The target forgets its registrations; the fence key stays in Redis.
TargetCrashes ==
  /\ held # {}
  /\ Fault
  /\ held' = {}
  /\ UNCHANGED <<storeVars, expired, processVars, prep, stray, fence, released>>

ApiCrashes ==
  /\ Fault
  /\ call' = [r \in Run |-> IF call[r].pc \in {"idle", "done"} THEN call[r]
                            ELSE [IdleCall(r) EXCEPT !.pc = "done"]]
  /\ timer' = [timer EXCEPT !["api"] = {}]
  /\ rec' = [rec EXCEPT !["api"] = [r \in Run |-> IdleRecovery]]
  /\ UNCHANGED <<storeVars, expired, boot, targetVars>>

WorkerCrashes ==
  /\ boot.pc # "down"
  /\ Fault
  /\ boot' = Booting("down", {})
  /\ timer' = [timer EXCEPT !["worker"] = {}]
  /\ rec' = [rec EXCEPT !["worker"] = [r \in Run |-> IdleRecovery]]
  /\ UNCHANGED <<storeVars, expired, call, targetVars>>

\* Retention keeps an ended run for seven days, in which every request about it
\* has long been answered.
Settled(r) ==
  /\ r \in expired
  /\ call[r].pc = "done"
  /\ \A s \in Run : call[s].pc = "existing" => call[s].run # r
  /\ \A p \in Proc : rec[p][r].pc = "idle" /\ r \notin timer[p]
  /\ r \notin boot.runs \cup stray \cup held
  /\ prep[r] # "sent"

RunRetention(r) ==
  /\ boot.pc = "up"
  /\ Settled(r)
  /\ Purge(r)
  /\ UNCHANGED <<expired, processVars, targetVars, faults>>

-----------------------------------------------------------------------------
Creating(r) ==
  \/ \E k \in Key, d \in UsedKinds : CreateInserts(r, k, d)
  \/ \E s \in Run : CreateFindsRun(r, s)
  \/ CreateRefused(r)
  \/ ExistingScheduled(r)
  \/ InsertReadbackFails(r)
  \/ TargetStarts(r)
  \/ StartAnswered(r)
  \/ StartTimesOut(r)
  \/ Confirm(r)
  \/ ConfirmErrors(r)
  \/ Arm(r)
  \/ Compensate(r)
  \/ RecordCreateFailure(r)
  \/ CompensationEventLost(r)
  \/ CompensationErrors(r)

Recovering(p, r) ==
  \/ TimerFires(p, r)
  \/ MarkRecovering(p, r)
  \/ Drain(p, r)
  \/ Release(p, r)
  \/ RecordRecovery(p, r)
  \/ RecordRecoveryFailure(p, r)
  \/ RecoveryErrors(p, r)

WorkerStep(r) ==
  \/ PollExpired(r)
  \/ BootCompensates(r)
  \/ BootRecordsFailure(r)
  \/ ServiceUnavailable(r)
  \/ RunRetention(r)

Surroundings(r) ==
  \/ Expire(r)
  \/ TargetPrepares(r)
  \/ StrayRelease(r)
  \/ TargetCleansUp(r)
  \/ FenceLapses(r)

\* Every step but a crash of the worker, which ScenarioWorkers extends.
ControlStep ==
  \/ \E r \in Run : Creating(r) \/ ManualStop(r) \/ ServiceRecovered(r)
  \/ \E p \in Proc, r \in Run : Recovering(p, r)
  \/ \E r \in Run : WorkerStep(r) \/ Surroundings(r)
  \/ WorkerStarts \/ WorkerReady
  \/ TargetCrashes \/ ApiCrashes

Next == ControlStep \/ WorkerCrashes

Spec == Init /\ [][Next]_vars

\* The clock advances, the worker is restarted by its Deployment, its one-second
\* poll goes on, and every call it makes is answered or fails. Nothing is
\* assumed of the api process, the operators or the target.
Fairness ==
  /\ WF_vars(WorkerStarts)
  /\ WF_vars(WorkerReady)
  /\ \A r \in Run :
       /\ WF_vars(Expire(r))
       /\ WF_vars(PollExpired(r))
       /\ WF_vars(BootCompensates(r))
       /\ WF_vars(BootRecordsFailure(r))
       /\ WF_vars(MarkRecovering("worker", r))
       /\ WF_vars(Drain("worker", r))
       /\ WF_vars(Release("worker", r))
       /\ WF_vars(RecordRecovery("worker", r))
       /\ WF_vars(RecordRecoveryFailure("worker", r))

FairSpec == Spec /\ Fairness

-----------------------------------------------------------------------------
\* Properties

\* Whatever requests, timers, polls and restarts interleave, at most one run is
\* CREATING, ACTIVE or RECOVERING: the promise of uq_fault_run_active, which
\* holds only because no transition leads back into these states.
SingleActive == Cardinality(ActiveRuns) <= 1

\* The run that is active carries the highest fencing token ever given out, so
\* a target can order what it hears by token alone.
NewestTokenActive ==
  \A r, s \in Run : IsActive(r) /\ s # r => token[s] < token[r]

\* A run recorded as stopped or compensated was released: its target confirmed a
\* release, or there was no target. No timeout, retry or restart between the
\* answer and the write of recoveryResult may claim otherwise.
EvidenceHonest ==
  \A r \in Run : result[r] \in {"stopped", "compensated"} => released[r] = "confirmed"

\* A run becomes ACTIVE only when its target accepted the prepare request.
ActiveWasPrepared ==
  \A r \in Run : state[r] = "ACTIVE" => kind[r] = "SURGE" \/ prep[r] = "ok"

\* While a run is ACTIVE, not expired and no release of it was ever sent, no other
\* run can take the target: late prepare requests of older runs meet the fence.
ActiveOwnsTarget ==
  \A r \in Run :
    state[r] = "ACTIVE" /\ kind[r] # "SURGE" /\ r \notin expired /\ released[r] = "none"
      => held \subseteq {r}

\* The lifecycle that the store shows to every reader is the abstract one.
Abstract == INSTANCE FaultRunLifecycle
Lifecycle == Abstract!LifecycleSpec

\* docs/architecture-overview.md:457 says that the target services refuse late
\* operations of old runs: a run that has ended and is not held stays so.
LateOperationsRefused ==
  [][\A r \in Run : IsEnded(r) /\ r \notin held => r \notin held']_vars

\* Every active run ends or becomes SERVICE_UNAVAILABLE once it has expired, even
\* if the process that created or was stopping it is gone.
EveryRunEnds == \A r \in Run : IsActive(r) ~> ~IsActive(r)
=============================================================================
