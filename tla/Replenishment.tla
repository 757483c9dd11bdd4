----------------------------- MODULE Replenishment -----------------------------
\* The schedulers that have stock and coupons topped up once in each window of six
\* hours (inventory-replenishment.ts and coupon-replenishment.ts, which differ only in
\* names, so that one stands for both), beside executions that operators trigger.
\* Redis holds a short lock and a completion mark for each window; the service behind
\* the gateway adds nothing twice for one window (InventoryLedger, CouponPool).
EXTENDS Integers

CONSTANTS
  Scheduler,            \* worker processes
  Manual,               \* triggered executions, in the API process
  MaxAttempts,          \* requests of one execution
  LastWindow,           \* bound on windows
  MaxStops,             \* bound on crashes of worker processes
  MaxFailures           \* bound on failing requests and Redis commands

Window == 0..LastWindow
Execution == Scheduler \cup Manual
Run == Window \cup Manual
Free == [held |-> FALSE, by |-> {}, run |-> 0]

VARIABLES
  window,               \* the window of the wall clock
  due,                  \* due[s]: window at which the timer of s fires
  execution,            \* execution[e]: progress, run and attempt
  lock,                 \* the Redis lock: the living instance, if any, and run that took it
  lapsed,               \* executions whose lock has lapsed under them
  completed,            \* windows with a completion mark
  record,               \* record[r] in traffic_replenishment_runs
  replenished,          \* runs for which the service has added what was missing
  inFlight,             \* requests given up by their sender that may still arrive
  shown,                \* the status in Redis, for the console
  copied,               \* copied[e]: the status that it began with (its "running")
  told,                 \* told[m]: what the operator who triggered m has been told
  missed,               \* history: whether the status has missed a change
  stops, failures

clockVars == <<window, due>>
redisVars == <<lock, lapsed, completed>>
serviceVars == <<record, replenished, inFlight>>
statusVars == <<shown, copied, told, missed>>
faultVars == <<stops, failures>>
replenishmentVars == <<clockVars, execution, redisVars, serviceVars, statusVars, faultVars>>

Holding == {"calling", "waiting", "answered", "unlocking"}

TypeOK ==
  /\ window \in Window /\ due \in [Scheduler -> 0..LastWindow + 1]
  /\ execution \in [Execution ->
       [pc : {"idle", "begun", "locking", "down"} \cup Holding, run : Run, attempt : 0..MaxAttempts]]
  /\ lock \in [held : BOOLEAN, by : SUBSET Execution, run : Run]
  /\ lapsed \subseteq Execution /\ completed \subseteq Window
  /\ record \in [Run -> {"NONE", "COMPLETED", "FAILED"}]
  /\ replenished \subseteq Run /\ inFlight \subseteq Run
  /\ shown \in [executing : BOOLEAN, running : BOOLEAN]
  /\ copied \in [Execution -> BOOLEAN]
  /\ told \in [Manual -> {"nothing", "completed", "failed"}] /\ missed \in BOOLEAN
  /\ stops \in 0..MaxStops /\ failures \in 0..MaxFailures

\* No worker has started yet.
Init ==
  /\ window = 0 /\ due = [s \in Scheduler |-> 0]
  /\ execution = [e \in Execution |->
       [pc |-> IF e \in Manual THEN "idle" ELSE "down", run |-> 0, attempt |-> 0]]
  /\ lock = Free /\ lapsed = {} /\ completed = {}
  /\ record = [r \in Run |-> "NONE"]
  /\ replenished = {} /\ inFlight = {}
  /\ shown = [executing |-> FALSE, running |-> FALSE]
  /\ copied = [e \in Execution |-> e \in Scheduler]
  /\ told = [m \in Manual |-> "nothing"] /\ missed = FALSE
  /\ stops = 0 /\ failures = 0

Fails == failures < MaxFailures /\ failures' = failures + 1 /\ UNCHANGED stops
Step(e, from, to) ==
  execution[e].pc = from /\ execution' = [execution EXCEPT ![e].pc = to]

\* publishStatus() replaces the whole status; that it fails is not noticed.
Publishes(e, executing) ==
  \/ /\ shown' = [executing |-> executing, running |-> copied[e]]
     /\ UNCHANGED <<missed, faultVars>>
  \/ missed' = TRUE /\ Fails /\ UNCHANGED shown

\* A triggered execution continues the status that it finds.
Triggers(m) ==
  /\ execution[m].attempt = 0 /\ told[m] = "nothing" /\ execution[m].pc = "idle"
  /\ execution' = [execution EXCEPT ![m].attempt = 1]
  /\ copied' = [copied EXCEPT ![m] = shown.running]
  /\ UNCHANGED <<clockVars, redisVars, serviceVars, shown, told, missed, faultVars>>

\* start() and the timer run the window of the clock; a later one is waited for.
Begins(e) ==
  /\ execution[e].pc = "idle"
  /\ \/ e \in Scheduler /\ due[e] = window
     \/ e \in Manual /\ execution[e].attempt = 1 /\ told[e] = "nothing"
  /\ execution' = [execution EXCEPT ![e] =
       [pc |-> "begun", run |-> IF e \in Manual THEN e ELSE window, attempt |-> 1]]
  /\ Publishes(e, TRUE)
  /\ UNCHANGED <<clockVars, redisVars, serviceVars, copied, told>>

\* execute() has returned: scheduleNext() waits for the next window, and the route
\* reports a triggered execution as completed or not.
Returns(e, result) ==
  /\ execution' = [execution EXCEPT ![e].pc = "idle"]
  /\ due' = IF e \in Scheduler THEN [due EXCEPT ![e] = window + 1] ELSE due
  /\ told' = IF e \in Manual THEN [told EXCEPT ![e] = result] ELSE told
  /\ UNCHANGED <<window, copied>>

FindsCompleted(e) ==
  /\ execution[e].pc = "begun"
  /\ IF execution[e].run \in completed
     THEN Returns(e, "completed") /\ Publishes(e, FALSE)
     ELSE Step(e, "begun", "locking") /\ UNCHANGED <<clockVars, statusVars, faultVars>>
  /\ UNCHANGED <<redisVars, serviceVars>>

\* Defect: an execution that finds the lock taken leaves without a word.
SkipsSilently(e) ==
  /\ execution[e].pc = "locking" /\ lock.held
  /\ Returns(e, "failed")
  /\ UNCHANGED <<redisVars, serviceVars, shown, missed, faultVars>>

\* Whoever finds the lock taken leaves its window alone.
Skips(e) ==
  /\ execution[e].pc = "locking" /\ lock.held
  /\ Returns(e, "failed") /\ Publishes(e, FALSE)
  /\ UNCHANGED <<redisVars, serviceVars>>

\* SET NX. If it throws, a worker ends (see Stops) and a triggered execution is
\* reported as failed, with its status as it was.
Locks(e) ==
  /\ execution[e].pc = "locking"
  /\ \/ /\ ~ lock.held
        /\ Step(e, "locking", "calling")
        /\ lock' = [held |-> TRUE, by |-> {e}, run |-> execution[e].run]
        /\ UNCHANGED <<clockVars, statusVars, faultVars>>
     \/ /\ e \in Manual
        /\ Returns(e, "failed") /\ Fails /\ missed' = TRUE
        /\ UNCHANGED <<lock, shown>>
  /\ UNCHANGED <<lapsed, completed, serviceVars>>

Proceeds(e, pc) == execution' = [execution EXCEPT ![e].pc = pc]

\* persistStatus() overwrites the record of the run; that it fails is not noticed.
Recorded(e, status) == {record, [record EXCEPT ![execution[e].run] = status]}

\* An attempt failed; the last one is published, recorded and the lock given up.
NextAttempt(e) ==
  IF execution[e].attempt < MaxAttempts
  THEN /\ execution' = [execution EXCEPT ![e].pc = "waiting", ![e].attempt = @ + 1]
       /\ UNCHANGED <<record, shown, missed>>
  ELSE /\ Proceeds(e, "unlocking")
       /\ record' \in Recorded(e, "FAILED")
       /\ \/ shown' = [executing |-> FALSE, running |-> copied[e]] /\ UNCHANGED missed
          \/ UNCHANGED shown /\ missed' = TRUE

\* Defect: an answer with failures in it is taken for success.
CallsUnchecked(e) ==
  /\ execution[e].pc = "calling"
  /\ Proceeds(e, "answered")
  /\ \/ replenished' = replenished \cup {execution[e].run} /\ UNCHANGED faultVars
     \/ UNCHANGED replenished /\ Fails
  /\ UNCHANGED <<clockVars, redisVars, statusVars, record, inFlight>>

\* The service has added everything and says so; or the request fails, is refused, or
\* is given up after two minutes, done or still on its way.
Calls(e) ==
  /\ execution[e].pc = "calling"
  /\ \/ /\ Proceeds(e, "answered")
        /\ replenished' = replenished \cup {execution[e].run}
        /\ UNCHANGED <<record, inFlight, shown, missed, faultVars>>
     \/ /\ NextAttempt(e)
        /\ inFlight' \in {inFlight, inFlight \cup {execution[e].run}}
        /\ UNCHANGED replenished /\ Fails
  /\ UNCHANGED <<clockVars, redisVars, copied, told>>

LateRequestArrives(r) ==
  /\ r \in inFlight
  /\ inFlight' = inFlight \ {r}
  /\ replenished' = replenished \cup {r}
  /\ UNCHANGED <<clockVars, execution, redisVars, record, statusVars, faultVars>>

\* The completion mark, the status, then the record; a mark that cannot be set is a
\* failed attempt.
Completes(e) ==
  /\ execution[e].pc = "answered"
  /\ \/ /\ execution' = [execution EXCEPT ![e].pc = "unlocking", ![e].attempt = 0]
        /\ completed' = completed \cup ({execution[e].run} \cap Window)
        /\ record' \in Recorded(e, "COMPLETED")
        /\ Publishes(e, FALSE)
     \/ /\ execution[e].run \in Window
        /\ NextAttempt(e) /\ Fails /\ UNCHANGED completed
  /\ UNCHANGED <<clockVars, lock, lapsed, replenished, inFlight, copied, told>>

\* The back-off, in its own window or for a manual run; else there is none.
Waits(e) ==
  /\ Step(e, "waiting", "calling")
  /\ UNCHANGED <<clockVars, redisVars, serviceVars, statusVars, faultVars>>

Owns(e) == lock.by = {e} /\ lock.run = execution[e].run

\* What execute() returns: an attempt is left over only by a failed execution.
Result(e) == IF execution[e].attempt = 0 THEN "completed" ELSE "failed"

\* releaseLock() deletes its own lock only; a failing command leaves it to its TTL.
Unlocks(e) ==
  /\ execution[e].pc = "unlocking"
  /\ Returns(e, Result(e))
  /\ \/ lock' = (IF Owns(e) THEN Free ELSE lock) /\ UNCHANGED faultVars
     \/ UNCHANGED lock /\ Fails
  /\ lapsed' = lapsed \ {e}
  /\ UNCHANGED <<completed, serviceVars, shown, missed>>

\* Ten minutes have passed since the lock was taken.
LockLapses ==
  /\ lock.held
  /\ lapsed' = lapsed \cup {e \in lock.by : Owns(e) /\ execution[e].pc \in Holding}
  /\ lock' = Free
  /\ UNCHANGED <<clockVars, execution, completed, serviceVars, statusVars, faultVars>>

WindowPasses ==
  /\ window < LastWindow
  /\ window' = window + 1
  /\ UNCHANGED <<due, execution, redisVars, serviceVars, statusVars, faultVars>>

Busy(e) == execution[e].pc \notin {"idle", "down", "unlocking"}

\* Whether a triggered execution is going to publish a status from before.
Outdated == \E m \in Manual :
  told[m] = "nothing" /\ (execution[m].pc # "idle" \/ execution[m].attempt = 1)

\* The worker ends; its lock stays. stop() publishes that it does not run, even if it
\* executes; a crash, or a Redis error outside the try, publishes nothing.
Stops(s) ==
  /\ stops < MaxStops /\ stops' = stops + 1
  /\ execution[s].pc # "down"
  /\ execution' = [execution EXCEPT ![s].pc = "down"]
  /\ lapsed' = lapsed \ {s}
  /\ lock' = [lock EXCEPT !.by = @ \ {s}]
  /\ \/ shown' = [executing |-> Busy(s), running |-> FALSE]
        /\ missed' = (missed \/ Busy(s) \/ Outdated)
     \/ UNCHANGED shown /\ missed' = TRUE
  /\ UNCHANGED <<clockVars, completed, serviceVars, copied, told, failures>>

\* start() runs the current window at once, under a new instance.
Starts(s) ==
  /\ Step(s, "down", "idle")
  /\ due' = [due EXCEPT ![s] = window]
  /\ \/ /\ shown' = [executing |-> FALSE, running |-> TRUE]
        /\ missed' = (missed \/ Outdated)
        /\ UNCHANGED faultVars
     \/ UNCHANGED shown /\ missed' = TRUE /\ Fails
  /\ UNCHANGED <<window, redisVars, serviceVars, copied, told>>

-----------------------------------------------------------------------------
ExecutionStep(e) ==
  \/ Begins(e) \/ FindsCompleted(e) \/ Locks(e) \/ Skips(e) \/ Calls(e)
  \/ Completes(e) \/ Waits(e) \/ Unlocks(e)

Next ==
  \/ \E e \in Execution : ExecutionStep(e)
  \/ \E s \in Scheduler : Stops(s) \/ Starts(s)
  \/ \E m \in Manual : Triggers(m)
  \/ \E r \in Run : LateRequestArrives(r)
  \/ LockLapses \/ WindowPasses

Spec == Init /\ [][Next]_replenishmentVars

\* A window counts as completed, in Redis, in the records or for the operator who has
\* triggered it, only if the service has added what was missing, whatever was lost or
\* repeated (execute, POST of the trigger route).
CompletionIsReal ==
  /\ completed \subseteq replenished
  /\ \A r \in Run : record[r] = "COMPLETED" => r \in replenished
  /\ \A m \in Manual : told[m] = "completed" => m \in replenished

\* Until its lock lapses, an execution has it to itself from the first request to the
\* last: nobody deletes another's lock, so that no two executions send requests at
\* once (the token in execute and releaseLock).
OwnLockKept ==
  \A e \in Execution : execution[e].pc \in Holding /\ e \notin lapsed => Owns(e)

\* The status that the worker and the triggered executions publish over each other is
\* right again once all are done: it shows no execution, and whether the worker runs;
\* unless Redis has failed, the worker was killed at work, or it started or stopped
\* beside a triggered execution, which publishes what it has found before
\* (publishStatus, runManualInventoryReplenishment).
StatusSettles ==
  (\A e \in Execution : ~ Busy(e)) /\ ~ missed =>
    ~ shown.executing /\ shown.running = \E s \in Scheduler : execution[s].pc # "down"
=============================================================================
