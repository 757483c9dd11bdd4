---------------------------- MODULE NotificationTarget ----------------------------
\* The two fault targets of notification-service, which share one OperationRunGuard:
\* heap retention and storage growth (NotificationRetentionState,
\* NotificationStorageGrowthWriter). Beside it, the control plane as far as it reaches
\* them: runs come and go (FaultRun has every step), the runner appends, and an operator
\* stops runs, cleans up after them and has the service restarted (app/page.tsx and its
\* routes). A run is its fencing token.
EXTENDS OperationRunGuard

CONSTANT HeapChoices    \* sets of runs that may be those of NOTIFICATION_HEAP_PRESSURE

VARIABLES
  heap,                 \* the runs of that scenario; the others grow the storage
  state,                \* state[r]: column fault_runs.state, or "NONE"
  prepare,              \* prepare[r]: the prepare request of r
  release,              \* release[r]: the release request of r
  held,                 \* retentionRun or storageRun, of which at most one is set
  retained,             \* runs whose objects are on the heap (retainedObjects)
  files,                \* runs with a file on the volume
  up,                   \* whether the service answers
  request,              \* the request of the console
  cleaned, lost, revived   \* history, see the properties

controlVars == <<heap, state, prepare, release>>
serviceVars == <<held, retained, files, up>>
historyVars == <<cleaned, lost, revived>>
targetVars == <<guardVars, controlVars, serviceVars, request, historyVars>>

NoRequest == [pc |-> "none", op |-> "none", run |-> NoRun]
ActiveStates == {"CREATING", "ACTIVE", "RECOVERING"}
IsActive(r) == state[r] \in ActiveStates

TypeOK ==
  /\ fence \in Run \cup {0} /\ expired \subseteq Run
  /\ cleanups \in [Run -> {"none", "registered", "claimed"}]
  /\ scheduler \in [pc : {"idle", "fence", "cleanup", "clear"}, run : Run \cup {NoRun}]
  /\ heap \in HeapChoices
  /\ state \in [Run -> ActiveStates \cup
                       {"NONE", "RECOVERED", "FAILED", "SERVICE_UNAVAILABLE"}]
  /\ prepare \in [Run -> {"none", "sent", "accepted", "refused"}]
  /\ release \in [Run -> {"none", "sent", "done", "failed"}]
  /\ held \in Run \cup {NoRun} /\ retained \subseteq heap /\ files \subseteq Run \ heap
  /\ up \in BOOLEAN
  /\ request \in [pc : {"none", "checked", "answered"},
                  op : {"none", "cleanup", "scenario", "restart"}, run : Run \cup {NoRun}]
  /\ \A history \in {cleaned, lost, revived} : history \subseteq Run

Init ==
  /\ GuardInit
  /\ heap \in HeapChoices
  /\ state = [r \in Run |-> "NONE"]
  /\ prepare = [r \in Run |-> "none"] /\ release = [r \in Run |-> "none"]
  /\ held = NoRun /\ retained = {} /\ files = {} /\ up = TRUE
  /\ request = NoRequest
  /\ cleaned = {} /\ lost = {} /\ revived = {}

-----------------------------------------------------------------------------
\* The runs

\* create(): a token is given out and the prepare request sent.
Creates(r) ==
  /\ state[r] = "NONE" /\ \A s \in Run : ~ IsActive(s) /\ (s < r => state[s] # "NONE")
  /\ state' = [state EXCEPT ![r] = "CREATING"]
  /\ prepare' = [prepare EXCEPT ![r] = "sent"]
  /\ UNCHANGED <<guardVars, heap, release, serviceVars, request, historyVars>>

Activates(r) ==
  /\ state[r] = "CREATING" /\ prepare[r] = "accepted"
  /\ state' = [state EXCEPT ![r] = "ACTIVE"]
  /\ prepare' = [prepare EXCEPT ![r] = "none"]
  /\ UNCHANGED <<guardVars, heap, release, serviceVars, request, historyVars>>

\* Of a request that nobody waits for, the answer is dropped.
Late(call) == IF call = "sent" THEN "sent" ELSE "none"

\* An answer may be lost or late; a service that is down gives none.
AnswerLost == IF up THEN Fault ELSE UNCHANGED faults

\* The target has refused, or its answer is lost: it is asked to release the run.
Compensates(r) ==
  /\ state[r] = "CREATING" /\ release[r] = "none"
  /\ IF prepare[r] = "refused" THEN UNCHANGED faults ELSE AnswerLost
  /\ prepare' = [prepare EXCEPT ![r] = Late(@)]
  /\ release' = [release EXCEPT ![r] = "sent"]
  /\ UNCHANGED <<expired, fence, cleanups, scheduler, accepted, abandoned, heap, state,
                 serviceVars, request, historyVars>>

CreateFails(r) ==
  /\ state[r] = "CREATING" /\ release[r] # "none"
  /\ IF release[r] = "sent" THEN AnswerLost ELSE UNCHANGED faults
  /\ state' = [state EXCEPT ![r] = "FAILED"]
  /\ release' = [release EXCEPT ![r] = Late(@)]
  /\ UNCHANGED <<expired, fence, cleanups, scheduler, accepted, abandoned, heap, prepare,
                 serviceVars, request, historyVars>>

\* recover(), of the operator's stop or of the timer: the release request is sent.
Recovering(r) ==
  /\ state[r] \in {"CREATING", "ACTIVE"}
  /\ state' = [state EXCEPT ![r] = "RECOVERING"]
  /\ prepare' = [prepare EXCEPT ![r] = Late(@)]
  /\ release' = [release EXCEPT ![r] = "sent"]
  /\ UNCHANGED <<guardVars, heap, serviceVars, historyVars>>

TimesOut(r) == r \in expired /\ Recovering(r) /\ UNCHANGED request

\* STOPPED, the state after an operator's stop, is taken for RECOVERED.
Recovers(r) ==
  /\ state[r] = "RECOVERING"
  /\ IF release[r] = "sent" THEN AnswerLost ELSE UNCHANGED faults
  /\ state' = [state EXCEPT ![r] = IF release[r] = "done" THEN "RECOVERED" ELSE "FAILED"]
  /\ release' = [release EXCEPT ![r] = Late(@)]
  /\ UNCHANGED <<expired, fence, cleanups, scheduler, accepted, abandoned, heap, prepare,
                 serviceVars, request, historyVars>>

\* The runner has seen a lifecycle fail, for whatever reason.
MarksUnavailable(r) ==
  /\ r \in heap /\ state[r] \in {"ACTIVE", "RECOVERING"}
  /\ state' = [state EXCEPT ![r] = "SERVICE_UNAVAILABLE"]
  /\ release' = [release EXCEPT ![r] = Late(@)]
  /\ UNCHANGED <<guardVars, heap, prepare, serviceVars, request, historyVars>>

-----------------------------------------------------------------------------
\* The target

PrepareAnswer(r, answer) ==
  prepare' = [prepare EXCEPT ![r] =
                IF state[r] = "CREATING" /\ release[r] = "none" THEN answer ELSE "none"]
ReleaseAnswer(r, answer) ==
  release' = [release EXCEPT ![r] =
                IF state[r] \in {"CREATING", "RECOVERING"} THEN answer ELSE "none"]

\* prepareRetention, prepareStorage: the fence is taken first, then another run may
\* be found. A run that expires before registerCleanup is held without one.
PrepareArrives(r) ==
  /\ prepare[r] = "sent" /\ up
  /\ IF Acceptable(r)
     THEN /\ AcceptStart(r)
          /\ \/ /\ held = NoRun /\ held' = r /\ RegisterCleanup(r)
                /\ PrepareAnswer(r, "accepted")
                /\ UNCHANGED expired
             \/ /\ held = NoRun /\ held' = r /\ expired' = expired \cup {r}
                /\ PrepareAnswer(r, "refused")
                /\ UNCHANGED cleanups
             \/ /\ held # NoRun
                /\ PrepareAnswer(r, "refused")
                /\ UNCHANGED <<held, expired, cleanups>>
          /\ revived' = IF held # NoRun \/ state[r] = "CREATING" THEN revived ELSE revived \cup {r}
     ELSE /\ PrepareAnswer(r, "refused")
          /\ UNCHANGED <<expired, fence, cleanups, accepted, held, revived>>
  /\ UNCHANGED <<scheduler, faults, abandoned, heap, state, release, retained, files, up, request,
                 cleaned, lost>>

\* Defect: whichever run is held is cleared.
ClearedAlways(r) == NoRun

\* clearRetention, clearStorage
Cleared(r) == IF held = r THEN NoRun ELSE held

\* OperationRunGuard.release, and what its caller goes on to do: it may throw with the
\* registration gone.
Released(r) ==
  /\ cleanups' = [cleanups EXCEPT ![r] = "none"]
  /\ IF cleanups[r] = "registered" THEN ReleaseFence(r) ELSE UNCHANGED fence
  /\ held' = Cleared(r)
  /\ UNCHANGED <<expired, scheduler, faults, accepted, abandoned>>

ReleaseThrows(r) ==
  /\ cleanups[r] = "registered" /\ Fault
  /\ cleanups' = [cleanups EXCEPT ![r] = "none"]
  /\ abandoned' = abandoned \cup {r}
  /\ UNCHANGED <<expired, fence, scheduler, accepted, held>>

ReleaseArrives(r) ==
  /\ release[r] = "sent" /\ up
  /\ \/ Released(r) /\ ReleaseAnswer(r, "done")
     \/ ReleaseThrows(r) /\ ReleaseAnswer(r, "failed")
  /\ UNCHANGED <<heap, state, prepare, retained, files, up, request, historyVars>>

\* appendStorage, for any run that the runner has once found active, be it CREATING.
Appends(r) ==
  /\ state[r] # "NONE" /\ r \notin heap /\ up
  /\ r \notin expired /\ fence = r /\ held = r
  /\ files' = files \cup {r}
  /\ UNCHANGED <<guardVars, controlVars, held, retained, up, request, cleaned, lost,
                 revived>>

\* Defect: the run of the other scenario is taken for one of retention.
RetainsFor(r) == r \in Run \ expired

\* shouldRetain, for any notification
Retaining(r) == r \in heap \ expired

\* Nothing but the end of the process frees what is retained.
Retains ==
  /\ up /\ Retaining(held)
  /\ retained' = retained \cup {held}
  /\ UNCHANGED <<guardVars, controlVars, held, files, up, request, historyVars>>

HeapFull ==
  /\ retained # {} /\ up' = FALSE
  /\ UNCHANGED <<guardVars, controlVars, held, retained, files, request, historyVars>>

\* A new process: holder, registrations and objects are gone, files and fence are not.
Restarted ==
  /\ up' = TRUE /\ held' = NoRun /\ retained' = {}
  /\ cleanups' = [r \in Run |-> "none"] /\ scheduler' = Idle
  /\ lost' = lost \cup ({held} \ {NoRun})
  /\ UNCHANGED <<expired, fence, accepted, abandoned, files>>

\* The cleanup on the guard's thread, outside the monitor of the holder: a run that is
\* prepared between its test and its assignment is cleared.
SchedulerTests ==
  /\ scheduler.pc = "cleanup"
  /\ IF held = scheduler.run
     THEN scheduler' = [scheduler EXCEPT !.pc = "clear"]
          /\ UNCHANGED <<expired, fence, cleanups, faults, accepted, abandoned>>
     ELSE SchedulerDone
  /\ UNCHANGED <<controlVars, serviceVars, request, historyVars>>

SchedulerClears ==
  LET cleared == {r \in Run : held = r /\ (r \in heap <=> scheduler.run \in heap)}
  IN /\ scheduler.pc = "clear" /\ SchedulerDone
     /\ held' = IF cleared = {} THEN held ELSE NoRun
     /\ lost' = lost \cup (cleared \ {scheduler.run})
     /\ UNCHANGED <<controlVars, retained, files, up, request, cleaned, revived>>

GuardStep ==
  /\ \/ \E r \in Run : SchedulerClaims(r) \/ (state[r] # "NONE" /\ Expire(r))
     \/ SchedulerReleasesFence \/ SchedulerGivesUp \/ FenceLapses
  /\ UNCHANGED <<controlVars, serviceVars, request, historyVars>>

\* The process ends by itself and is started again.
Crashes ==
  /\ Fault /\ Restarted
  /\ UNCHANGED <<controlVars, request, cleaned, revived>>

-----------------------------------------------------------------------------
\* The operator

\* A dialog names its run, whatever the page shows when it is confirmed, and every
\* route looks at that run again: that the page is some seconds old has no effect.
NoRequestOut == request.pc = "none"

StopIsConfirmed(r) == NoRequestOut /\ Recovering(r) /\ UNCHANGED request

ConfirmsCleanup(r) ==
  /\ NoRequestOut /\ r \notin heap /\ state[r] = "RECOVERED"
  /\ request' = [pc |-> "checked", op |-> "cleanup", run |-> r]
  /\ UNCHANGED <<guardVars, controlVars, serviceVars, cleaned, lost, revived>>

\* cleanupStorage
CleanupArrives ==
  /\ request.pc = "checked" /\ request.op = "cleanup" /\ request' = NoRequest
  /\ \/ /\ up /\ Released(request.run)
        /\ files' = files \ {request.run} /\ cleaned' = cleaned \cup {request.run}
     \/ up /\ ReleaseThrows(request.run) /\ UNCHANGED <<files, cleaned>>
     \/ ~ up /\ UNCHANGED <<guardVars, held, files, cleaned>>
  /\ UNCHANGED <<controlVars, retained, up, lost, revived>>

\* The broker restarts a service that does not answer, and leaves one that does.
BrokerRestarts ==
  \/ ~ up /\ Restarted
  \/ up /\ UNCHANGED <<expired, fence, cleanups, scheduler, accepted, abandoned>>
        /\ UNCHANGED <<serviceVars, lost>>

\* For a run, or for the service alone. The answer may be that it failed, or be late.
Restarts(r) ==
  /\ NoRequestOut
  /\ r # NoRun => r \in heap /\ state[r] = "SERVICE_UNAVAILABLE"
  /\ BrokerRestarts
  /\ \/ request' = [pc |-> "answered", op |-> "restart", run |-> r] /\ r # NoRun /\ UNCHANGED faults
     \/ request' = NoRequest /\ r # NoRun /\ Fault
     \/ request' = NoRequest /\ r = NoRun /\ UNCHANGED faults
  /\ UNCHANGED <<controlVars, cleaned, revived>>

\* markServiceRecovered
RestartDone ==
  /\ request.pc = "answered" /\ request' = NoRequest
  /\ IF request.run # NoRun /\ state[request.run] = "SERVICE_UNAVAILABLE"
     THEN state' = [state EXCEPT ![request.run] = "RECOVERED"]
     ELSE UNCHANGED state
  /\ UNCHANGED <<guardVars, heap, prepare, release, serviceVars, historyVars>>

\* The cleanup of the whole scenario, which no page offers: a run may start between
\* its test and its request.
ScenarioCleanupTests ==
  /\ NoRequestOut /\ \A r \in Run : ~ IsActive(r)
  /\ request' = [pc |-> "checked", op |-> "scenario", run |-> NoRun]
  /\ UNCHANGED <<guardVars, controlVars, serviceVars, historyVars>>

\* cleanupAllStorage
ScenarioCleanupArrives ==
  /\ request.pc = "checked" /\ request.op = "scenario" /\ request' = NoRequest
  /\ \/ /\ up
        /\ IF held \in Run \ heap THEN Released(held) ELSE UNCHANGED <<guardVars, held>>
        /\ lost' = lost \cup ({held} \ (heap \cup {NoRun}))
        /\ files' = {}
     \/ up /\ held \in Run \ heap /\ ReleaseThrows(held) /\ UNCHANGED <<files, lost>>
     \/ ~ up /\ UNCHANGED <<guardVars, held, files, lost>>
  /\ UNCHANGED <<controlVars, retained, up, cleaned, revived>>

-----------------------------------------------------------------------------
RunStep(r) ==
  \/ Creates(r) \/ Activates(r) \/ Compensates(r) \/ CreateFails(r) \/ TimesOut(r) \/ Recovers(r)
  \/ MarksUnavailable(r) \/ StopIsConfirmed(r) \/ ConfirmsCleanup(r)
  \/ PrepareArrives(r) \/ ReleaseArrives(r) \/ Appends(r)

Next ==
  \/ \E r \in Run : RunStep(r)
  \/ Retains \/ HeapFull \/ Crashes \/ GuardStep \/ SchedulerTests \/ SchedulerClears
  \/ CleanupArrives
  \/ (\E r \in Run \cup {NoRun} : Restarts(r)) \/ RestartDone
  \/ ScenarioCleanupTests \/ ScenarioCleanupArrives

Spec == Init /\ [][Next]_targetVars

\* An active run has the target until it expires or is asked to release it, whatever
\* requests of other runs arrive: unless the process was restarted under it, the whole
\* scenario cleaned by somebody who found no run before it began, or the guard's thread
\* cleared it in place of an earlier one (ensureAvailable, clearRetention, clearStorage).
ActiveIsServed ==
  \A r \in Run : state[r] = "ACTIVE" /\ r \notin expired \cup lost => held = r

\* When a run has been cleaned up its file stays away, however late its requests are;
\* but for a run that the target has accepted after its end (cleanupStorage,
\* appendStorage).
FilesScoped == cleaned \cap files \subseteq revived
=============================================================================
