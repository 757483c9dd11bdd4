----------------------------- MODULE RunnerControl -----------------------------
\* How the traffic runner follows its operator (traffic-control-plane/src/worker/
\* runner-engine.ts, lib/runtime-state.ts): the tick and the heartbeat of the engine
\* each read the pause flag and, at most every five seconds, the profile, publish a
\* status in Redis, and the tick then begins a lifecycle or not. Of the profile the
\* version and the switch are kept. What a lifecycle does is in TrafficRunner.
EXTENDS Integers

CONSTANTS
  MaxVersion,           \* bound on versions of the profile
  MaxFaults             \* bound on failing reads, failing writes and crashes

Task == {"tick", "beat"}    \* of heartbeats that overlap one is kept
Profile == [version : 1..MaxVersion, enabled : BOOLEAN]

VARIABLES
  profile,              \* runner_profile
  paused,               \* runner:control
  engine,               \* stage; copies of both; checked: less than 5 s since lastConfigCheckAt
  task,                 \* per task: where it is, and the answer on its way
  published,            \* runner:status
  firm,                 \* history: paused since before the tick began
  undone,               \* history: an older answer has unset the pause under this tick
  slow,                 \* history: a read of the profile has taken five seconds
  failed                \* faults so far

engineVars == <<engine, task, published, undone, slow>>
controlVars == <<profile, paused, engineVars, firm, failed>>

First == [version |-> 1, enabled |-> TRUE]
Resting == [pc |-> "idle", paused |-> FALSE, config |-> First, ran |-> FALSE]
Started(config) == [stage |-> "running", config |-> config, paused |-> FALSE, checked |-> FALSE]

TypeOK ==
  /\ profile \in Profile /\ paused \in BOOLEAN
  /\ engine.stage \in {"running", "stopping", "said", "exited", "crashed"}
  /\ engine.config \in Profile /\ engine.paused \in BOOLEAN /\ engine.checked \in BOOLEAN
  /\ \A k \in Task : task[k].pc \in {"idle", "control", "controlled", "config", "configured",
                                     "publish", "expire", "lifecycle"}
  /\ published \in [present : BOOLEAN, running : BOOLEAN, expires : BOOLEAN]
  /\ firm \in BOOLEAN /\ undone \in BOOLEAN /\ slow \in BOOLEAN /\ failed \in 0..MaxFaults

Init ==
  /\ profile = First /\ paused = FALSE
  /\ engine = Started(First)
  /\ task = [k \in Task |-> Resting]
  /\ published = [present |-> FALSE, running |-> FALSE, expires |-> FALSE]
  /\ firm = FALSE /\ undone = FALSE /\ slow = FALSE /\ failed = 0

Fails == failed < MaxFaults /\ failed' = failed + 1
Alive == engine.stage \in {"running", "stopping", "said"}
Runs == engine.stage = "running" /\ engine.config.enabled /\ ~ engine.paused
At(k, pc) == task[k].pc = pc
Goes(k, pc) == task' = [task EXCEPT ![k].pc = pc]
Reading == {k \in Task : task[k].pc \in {"config", "configured"}}

-----------------------------------------------------------------------------
\* The operator

SavesProfile ==
  /\ profile.version < MaxVersion
  /\ \E enabled \in BOOLEAN :
       profile' = [version |-> profile.version + 1, enabled |-> enabled]
  /\ UNCHANGED <<paused, engineVars, firm, failed>>

Pauses == paused' = TRUE /\ UNCHANGED <<profile, engineVars, firm, failed>>
Resumes == paused' = FALSE /\ firm' = FALSE /\ UNCHANGED <<profile, engineVars, failed>>

-----------------------------------------------------------------------------
\* The tasks of the engine

\* tick, refreshAndPublishStatus
Begins(k) ==
  /\ At(k, "idle") /\ engine.stage = "running"
  /\ Goes(k, "control")
  /\ IF k = "tick" THEN firm' = paused /\ undone' = FALSE ELSE UNCHANGED <<firm, undone>>
  /\ UNCHANGED <<profile, paused, engine, published, slow, failed>>

ControlIsRead(k) ==
  /\ At(k, "control")
  /\ task' = [task EXCEPT ![k].pc = "controlled", ![k].paused = paused]
  /\ UNCHANGED <<profile, paused, engine, published, undone, slow, firm, failed>>

\* Defect: the interval does not begin with the check.
ControlIsTakenAlone(k) ==
  /\ At(k, "controlled")
  /\ engine' = [engine EXCEPT !.paused = task[k].paused]
  /\ task' = [task EXCEPT ![k].pc = IF engine.checked THEN "publish" ELSE "config",
                          ![k].paused = FALSE]
  /\ undone' = (undone \/ (k = "beat" /\ paused /\ ~ task[k].paused))
  /\ UNCHANGED <<profile, paused, published, slow, firm, failed>>

\* refreshControlState, and refreshConfigIfNeeded up to its read
ControlIsTaken(k) ==
  /\ At(k, "controlled")
  /\ engine' = [engine EXCEPT !.paused = task[k].paused, !.checked = TRUE]
  /\ task' = [task EXCEPT ![k].pc = IF engine.checked THEN "publish" ELSE "config",
                          ![k].paused = FALSE]
  /\ undone' = (undone \/ (k = "beat" /\ paused /\ ~ task[k].paused))
  /\ UNCHANGED <<profile, paused, published, slow, firm, failed>>

FiveSecondsPass ==
  /\ engine' = [engine EXCEPT !.checked = FALSE]
  /\ slow' = (Reading # {})
  /\ UNCHANGED <<profile, paused, task, published, undone, firm, failed>>

ConfigIsRead(k) ==
  /\ At(k, "config")
  /\ task' = [task EXCEPT ![k].pc = "configured", ![k].config = profile]
  /\ UNCHANGED <<profile, paused, engine, published, undone, slow, firm, failed>>

\* Any version but the present one is taken, be it older.
ConfigIsTaken(k) ==
  /\ At(k, "configured")
  /\ engine' = [engine EXCEPT !.config = task[k].config]
  /\ task' = [task EXCEPT ![k].pc = "publish", ![k].config = First]
  /\ slow' = (slow /\ Reading # {k})
  /\ UNCHANGED <<profile, paused, published, undone, firm, failed>>

\* A rejected read or write ends the tick or the heartbeat, and is logged.
TaskFails(k) ==
  /\ task[k].pc \in {"control", "config", "publish", "expire"} /\ Fails
  /\ task' = [task EXCEPT ![k] = Resting]
  /\ slow' = (slow /\ Reading \ {k} # {})
  /\ UNCHANGED <<profile, paused, engine, published, undone, firm>>

\* setRunnerStatus: HSET leaves the expiry of the key as it is, EXPIRE is a second call.
\* The connect() that is awaited first is answered at once, or the command waits in the
\* queue of the one client, so that statuses arrive in the order in which they were
\* made; a connection that is being made again at that moment is left out.
Publishes(k) ==
  /\ At(k, "publish") /\ Goes(k, "expire")
  /\ published' = [published EXCEPT !.present = TRUE, !.running = Runs]
  /\ UNCHANGED <<profile, paused, engine, undone, slow, firm, failed>>

\* The tick goes on to its lifecycle, with the flag and the profile of this moment.
SetsExpiry(k) ==
  /\ At(k, "expire")
  /\ published' = [published EXCEPT !.expires = published.present]
  /\ task' = [task EXCEPT ![k] = IF k = "tick" /\ ~ @.ran /\ Runs
                                 THEN [Resting EXCEPT !.pc = "lifecycle", !.ran = TRUE]
                                 ELSE Resting]
  /\ UNCHANGED <<profile, paused, engine, undone, slow, firm, failed>>

LifecycleEnds ==
  /\ At("tick", "lifecycle") /\ Goes("tick", "publish")
  /\ UNCHANGED <<profile, paused, engine, published, undone, slow, firm, failed>>

\* GET of runner/status: what the console is told
Told == [workerOnline |-> published.present,
         running |-> published.present /\ published.running /\ profile.enabled /\ ~ paused]

\* Redis drops the key 30 seconds after the last EXPIRE.
StatusLapses ==
  /\ published.expires
  /\ published' = [present |-> FALSE, running |-> FALSE, expires |-> FALSE]
  /\ UNCHANGED <<profile, paused, engine, task, undone, slow, firm, failed>>

-----------------------------------------------------------------------------
\* The end of the process and the next one

Stops ==
  /\ engine.stage = "running"
  /\ engine' = [engine EXCEPT !.stage = "stopping"]
  /\ UNCHANGED <<profile, paused, task, published, undone, slow, firm, failed>>

\* stop() publishes once the lifecycle that it found has ended.
SaysStopped ==
  /\ engine.stage = "stopping" /\ ~ At("tick", "lifecycle")
  /\ published' = [present |-> TRUE, running |-> FALSE, expires |-> TRUE]
  /\ engine' = [engine EXCEPT !.stage = "said"]
  /\ UNCHANGED <<profile, paused, task, undone, slow, firm, failed>>

Ends(stage) ==
  /\ engine' = [engine EXCEPT !.stage = stage]
  /\ task' = [k \in Task |-> Resting] /\ slow' = FALSE
  /\ UNCHANGED <<profile, paused, published, undone, firm>>

Exits == engine.stage = "said" /\ Ends("exited") /\ UNCHANGED failed
Crashes == Alive /\ Fails /\ Ends("crashed")

\* main loads the profile before it starts the engine.
Restarts ==
  /\ engine.stage \in {"exited", "crashed"}
  /\ engine' = Started(profile)
  /\ UNCHANGED <<profile, paused, task, published, undone, slow, firm, failed>>

-----------------------------------------------------------------------------
TaskStep(k) ==
  \/ Begins(k) \/ ControlIsRead(k) \/ ControlIsTaken(k) \/ ConfigIsRead(k) \/ ConfigIsTaken(k)
  \/ TaskFails(k) \/ Publishes(k) \/ SetsExpiry(k)

Next ==
  \/ SavesProfile \/ Pauses \/ Resumes
  \/ \E k \in Task : TaskStep(k)
  \/ FiveSecondsPass \/ LifecycleEnds \/ StatusLapses
  \/ Stops \/ SaysStopped \/ Exits \/ Crashes \/ Restarts

Spec == Init /\ [][Next]_controlVars

\* A tick that begins after the operator has paused the runner begins no lifecycle,
\* unless a heartbeat that read the flag before sets it back (refreshControlState).
PauseIsHeeded ==
  ~ At("tick", "lifecycle") /\ task'["tick"].pc = "lifecycle" => ~ firm \/ undone

\* The engine goes back to no older profile, unless a read of it took longer than the
\* interval of five seconds that keeps two reads apart (refreshConfigIfNeeded).
ConfigAdvances == engine'.config.version >= engine.config.version \/ slow

\* Once the engine has stopped the console is not told that it runs, whatever heartbeats
\* were under way and whatever the operator does (publishStatus, GET of runner/status).
StoppedIsShown == engine'.stage = "exited" => ~ Told'.running

FollowsOperator == [][PauseIsHeeded /\ ConfigAdvances /\ StoppedIsShown]_controlVars
=============================================================================
