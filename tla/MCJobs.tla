--------------------------------- MODULE MCJobs ---------------------------------
\* The background jobs of the worker process and its own start and end. They share no
\* state, so that each is checked by itself: which one has a state and takes steps is
\* chosen at the beginning.
EXTENDS Integers, Sequences
CONSTANTS
  Scheduler, Manual, MaxAttempts, LastWindow, MaxStops, MaxFailures,
  Owner, first, Job, Injects, JobDays, JobRows, DayRows, WindowDays, LastDay, MaxFaults, None,
  MaxLifecycles, StorageTarget,
  FaultRuns, ScenarioOf

\* Processes, triggered executions and windows have different names; what is counted, is
\* counted from 0, and a request is sent at least once.
ASSUME JobsAssumption ==
  /\ Scheduler \cap Manual = {} /\ Manual \cap (0..LastWindow) = {}
  /\ MaxAttempts \in Nat \ {0}
  /\ LastWindow \in Nat /\ MaxStops \in Nat /\ MaxFailures \in Nat
  /\ MaxLifecycles \in Nat /\ StorageTarget \in Nat

\* The days of a job are days of the model; nobody is no service, job or thread.
ASSUME WarmupAssumption ==
  /\ first \in Owner /\ None \notin Owner \cup Job /\ None \notin {"queue", "manual"} \X Owner
  /\ JobDays \in [Job -> Seq(0..LastDay)]
  /\ JobRows \in Nat /\ DayRows \in Nat /\ WindowDays \in Nat \ {0}
  /\ LastDay \in Nat \ {0} /\ MaxFaults \in Nat

VARIABLES
  focus,
  window, due, execution, lock, lapsed, completed, record, replenished, inFlight,
  shown, copied, told, missed, stops, failures,
  today, lease, mark, rowLock, service, queue, manual, job, stale, rows, partitions, excluded,
  inserted, left, faults,
  faultRun, engine, shutdown, trafficRun, lifecycle, order, lateRequests, result, engineFailures,
  open, ended, overdue, process, scan, registered, sender

Replenishing == INSTANCE Replenishment
WarmingUp == INSTANCE DataWarmup
Running == INSTANCE TrafficRunner WITH inFlight <- lateRequests, failures <- engineFailures, MaxFailures <- 1
Working == INSTANCE WorkerProcess WITH Run <- FaultRuns

MCJobDays == [j \in Job |-> <<2 - j>>]
MCScenarioOf == <<"ORDER_QUERY_SURGE", "ORDER_REPORT_SQL">>

\* The warm-up begins as it is once the first service has the lease; a job of another
\* day than today is still to be queued.
WarmupInit ==
  /\ today \in {0, 1}
  /\ lease = first /\ mark = None /\ rowLock = None
  /\ service = [w \in Owner |-> [pc |-> IF w = first THEN "acquired" ELSE "contending",
                                 held |-> w = first, stopped |-> FALSE]]
  /\ queue = [w \in Owner |-> WarmingUp!Idle] /\ manual = [w \in Owner |-> WarmingUp!NoJob]
  /\ job = [j \in Job |-> [status |-> IF j = 2 - today THEN "NONE" ELSE "FAILED",
                           owner |-> None, days |-> 0, rows |-> 0]]
  /\ stale = {} /\ left = {}
  /\ rows = [d \in 0..LastDay |-> [filled |-> 0, injected |-> 0]]
  /\ partitions = {today} /\ excluded = {}
  /\ inserted = [j \in Job |-> 0] /\ faults = 0

MCInit ==
  /\ focus \in {"replenishment", "warmup", "runner", "process"}
  /\ IF focus = "replenishment" THEN Replenishing!Init
     ELSE /\ window = None /\ execution = None /\ lock = None /\ lapsed = None
          /\ completed = None /\ record = None /\ replenished = None /\ inFlight = None
          /\ stops = None /\ failures = None /\ due = None
          /\ shown = None /\ copied = None /\ told = None /\ missed = None
  /\ IF focus = "warmup" THEN WarmupInit
     ELSE /\ today = None /\ lease = None /\ mark = None /\ rowLock = None /\ service = None
          /\ queue = None /\ manual = None /\ job = None /\ stale = None /\ rows = None
          /\ partitions = None /\ excluded = None /\ inserted = None /\ left = None
          /\ faults = None
  /\ IF focus = "runner" THEN Running!Init
     ELSE /\ faultRun = None /\ engine = None /\ shutdown = None /\ trafficRun = None
          /\ lifecycle = None /\ order = None /\ lateRequests = None /\ result = None
          /\ engineFailures = None
  /\ IF focus = "process" THEN Working!Init
     ELSE /\ open = None /\ ended = None /\ overdue = None /\ process = None /\ scan = None
          /\ registered = None /\ sender = None

replenishmentVars ==
  <<window, due, execution, lock, lapsed, completed, record, replenished, inFlight,
    shown, copied, told, missed, stops, failures>>
warmupVars ==
  <<today, lease, mark, rowLock, service, queue, manual, job, stale, rows, partitions, excluded,
    inserted, left, faults>>
runnerVars ==
  <<faultRun, engine, shutdown, trafficRun, lifecycle, order, lateRequests, result, engineFailures>>
processVars == <<open, ended, overdue, process, scan, registered, sender>>

Replenishes == focus = "replenishment" /\ Replenishing!Next
  /\ UNCHANGED <<focus, warmupVars, runnerVars, processVars>>
WarmsUp == focus = "warmup" /\ WarmingUp!Next
  /\ UNCHANGED <<focus, replenishmentVars, runnerVars, processVars>>
Runs == focus = "runner" /\ Running!Next
  /\ UNCHANGED <<focus, replenishmentVars, warmupVars, processVars>>
Works == focus = "process" /\ Working!Next
  /\ UNCHANGED <<focus, replenishmentVars, warmupVars, runnerVars>>
MCNext == Replenishes \/ WarmsUp \/ Runs \/ Works
MCSpec ==
  MCInit /\ [][MCNext]_<<focus, replenishmentVars, warmupVars, runnerVars, processVars>>

\* The state of the part that takes steps is well typed.
TypeOK ==
  /\ focus = "replenishment" => Replenishing!TypeOK
  /\ focus = "warmup" => WarmingUp!TypeOK
  /\ focus = "runner" => Running!TypeOK
  /\ focus = "process" => Working!TypeOK
\* A completion mark or record stands for stock that was added, and no execution deletes
\* the lock of another (Replenishment).
ReplenishmentIsSafe ==
  focus = "replenishment" => Replenishing!CompletionIsReal /\ Replenishing!OwnLockKept
\* The published status settles (Replenishment).
StatusSettles == focus = "replenishment" => Replenishing!StatusSettles
\* Interrupted and contested warm-up adds each row once, and a running warm-up job has a
\* thread that works on it (DataWarmup).
WarmupIsSafe == focus = "warmup" => WarmingUp!RowsExact /\ WarmingUp!NoJobStranded
\* A lifecycle does not leave an order unpaid without saying so, and a traffic run is
\* completed after the lifecycles that stop() found (TrafficRunner).
RunnerIsSafe ==
  focus = "runner" => Running!SettledWhenSaid /\ Running!DrainsStarted
\* One sender per fault run, and no surge after its executor has stopped (WorkerProcess).
SendersEnd == focus = "process" => Working!SendersEnd
=============================================================================
