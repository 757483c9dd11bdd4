------------------------------- MODULE JobsProofs -------------------------------
\* What holds of the background jobs for any processes, windows, runs and bounds.
EXTENDS MCJobs, TLAPS

-----------------------------------------------------------------------------
\* Replenishment

Execution == Scheduler \cup Manual
ExecutionState ==
  [pc : {"idle", "begun", "locking", "down", "calling", "waiting", "answered", "unlocking"},
   run : 0..LastWindow \cup Manual, attempt : 0..MaxAttempts]

\* An execution that has got an answer has had its run replenished, and so has one that
\* gives its lock up without an attempt left over; a triggered execution is its own run.
AnswersAreReal ==
  /\ \A e \in Execution :
       /\ execution[e].pc = "answered" => execution[e].run \in replenished
       /\ execution[e].pc = "unlocking" /\ execution[e].attempt = 0 => execution[e].run \in replenished
  /\ \A m \in Manual : execution[m].pc # "down" /\ (execution[m].pc # "idle" => execution[m].run = m)

FreeLockIsNobodys == ~ lock.held => lock.by = {}

ReplenishmentInv ==
  /\ Replenishing!TypeOK /\ Replenishing!CompletionIsReal /\ Replenishing!OwnLockKept
  /\ AnswersAreReal /\ FreeLockIsNobodys

\* The state of an execution stays typed.
LEMMA ExecutionTyped ==
  ASSUME Replenishing!TypeOK, Replenishing!Next
  PROVE  execution' \in [Execution -> ExecutionState]
  <1>a execution \in [Execution -> ExecutionState] /\ window \in 0..LastWindow
    BY DEF Replenishing!TypeOK, Execution, ExecutionState, Replenishing!Execution, Replenishing!Run, Replenishing!Window, Replenishing!Holding
  <1>1 ASSUME NEW e \in Execution, Replenishing!Begins(e) PROVE execution' \in [Execution -> ExecutionState]
    BY <1>1, <1>a, JobsAssumption DEF Replenishing!Begins, ExecutionState, Replenishing!Step, Replenishing!Proceeds, Replenishing!NextAttempt, Replenishing!Returns
  <1>2 ASSUME NEW e \in Execution, Replenishing!FindsCompleted(e) PROVE execution' \in [Execution -> ExecutionState]
    <2>1 PICK pc \in {"idle", "locking"} : execution' = [execution EXCEPT ![e].pc = pc]
      BY <1>2 DEF Replenishing!FindsCompleted, Replenishing!Step, Replenishing!Returns
    <2> QED
      BY <1>a, <2>1 DEF ExecutionState
  <1>3 ASSUME NEW e \in Execution, Replenishing!Locks(e) PROVE execution' \in [Execution -> ExecutionState]
    BY <1>3, <1>a, JobsAssumption DEF Replenishing!Locks, ExecutionState, Replenishing!Step, Replenishing!Proceeds, Replenishing!NextAttempt, Replenishing!Returns
  <1>4 ASSUME NEW e \in Execution, Replenishing!Skips(e) PROVE execution' \in [Execution -> ExecutionState]
    BY <1>4, <1>a, JobsAssumption DEF Replenishing!Skips, ExecutionState, Replenishing!Step, Replenishing!Proceeds, Replenishing!NextAttempt, Replenishing!Returns
  <1>5 ASSUME NEW e \in Execution, Replenishing!Calls(e) PROVE execution' \in [Execution -> ExecutionState]
    BY <1>5, <1>a, JobsAssumption DEF Replenishing!Calls, ExecutionState, Replenishing!Step, Replenishing!Proceeds, Replenishing!NextAttempt, Replenishing!Returns
  <1>6 ASSUME NEW e \in Execution, Replenishing!Completes(e) PROVE execution' \in [Execution -> ExecutionState]
    <2>1 \/ execution' = [execution EXCEPT ![e].pc = "unlocking", ![e].attempt = 0]
         \/ execution' = [execution EXCEPT ![e].pc = "unlocking"]
         \/ /\ execution[e].attempt < MaxAttempts
            /\ execution' = [execution EXCEPT ![e].pc = "waiting", ![e].attempt = @ + 1]
      BY <1>6 DEF Replenishing!Completes, Replenishing!NextAttempt, Replenishing!Proceeds
    <2> QED
      BY <1>a, <2>1, JobsAssumption DEF ExecutionState
  <1>7 ASSUME NEW e \in Execution, Replenishing!Waits(e) PROVE execution' \in [Execution -> ExecutionState]
    BY <1>7, <1>a, JobsAssumption DEF Replenishing!Waits, ExecutionState, Replenishing!Step, Replenishing!Proceeds, Replenishing!NextAttempt, Replenishing!Returns
  <1>8 ASSUME NEW e \in Execution, Replenishing!Unlocks(e) PROVE execution' \in [Execution -> ExecutionState]
    BY <1>8, <1>a, JobsAssumption DEF Replenishing!Unlocks, ExecutionState, Replenishing!Step, Replenishing!Proceeds, Replenishing!NextAttempt, Replenishing!Returns
  <1>9 ASSUME NEW s \in Scheduler, Replenishing!Stops(s) PROVE execution' \in [Execution -> ExecutionState]
    BY <1>9, <1>a, JobsAssumption DEF Replenishing!Stops, ExecutionState, Replenishing!Step, Replenishing!Proceeds, Replenishing!NextAttempt, Replenishing!Returns
  <1>10 ASSUME NEW s \in Scheduler, Replenishing!Starts(s) PROVE execution' \in [Execution -> ExecutionState]
    BY <1>10, <1>a, JobsAssumption DEF Replenishing!Starts, ExecutionState, Replenishing!Step, Replenishing!Proceeds, Replenishing!NextAttempt, Replenishing!Returns
  <1>11 ASSUME NEW m \in Manual, Replenishing!Triggers(m) PROVE execution' \in [Execution -> ExecutionState]
    BY <1>11, <1>a, JobsAssumption DEF Replenishing!Triggers, ExecutionState, Replenishing!Step, Replenishing!Proceeds, Replenishing!NextAttempt, Replenishing!Returns, Execution
  <1>12 ASSUME NEW r \in Replenishing!Run, Replenishing!LateRequestArrives(r) PROVE execution' \in [Execution -> ExecutionState]
    BY <1>12, <1>a, JobsAssumption DEF Replenishing!LateRequestArrives, ExecutionState, Replenishing!Step, Replenishing!Proceeds, Replenishing!NextAttempt, Replenishing!Returns
  <1>13 ASSUME Replenishing!LockLapses PROVE execution' \in [Execution -> ExecutionState]
    BY <1>13, <1>a, JobsAssumption DEF Replenishing!LockLapses, ExecutionState, Replenishing!Step, Replenishing!Proceeds, Replenishing!NextAttempt, Replenishing!Returns
  <1>14 ASSUME Replenishing!WindowPasses PROVE execution' \in [Execution -> ExecutionState]
    BY <1>14, <1>a, JobsAssumption DEF Replenishing!WindowPasses, ExecutionState, Replenishing!Step, Replenishing!Proceeds, Replenishing!NextAttempt, Replenishing!Returns
  <1> QED
    BY <1>1, <1>2, <1>3, <1>4, <1>5, <1>6, <1>7, <1>8, <1>9, <1>10, <1>11, <1>12, <1>13, <1>14 DEF Replenishing!Next, Replenishing!ExecutionStep, Execution, Replenishing!Execution

\* Windows and due times stay typed.
LEMMA ClockTyped ==
  ASSUME Replenishing!TypeOK, Replenishing!Next
  PROVE  (window \in 0..LastWindow /\ due \in [Scheduler -> 0..LastWindow + 1])'
  <1> DEFINE P == window \in 0..LastWindow /\ due \in [Scheduler -> 0..LastWindow + 1]
  <1>a P
    BY DEF Replenishing!TypeOK, Execution, Replenishing!Execution, Replenishing!Run, Replenishing!Window
  <1>b \A e \in Execution : execution[e].run \in 0..LastWindow \cup Manual
    BY DEF Replenishing!TypeOK, Execution, Replenishing!Execution, Replenishing!Run, Replenishing!Window
  <1>1 ASSUME NEW e \in Execution, Replenishing!Begins(e) PROVE P'
    BY <1>1, <1>a, <1>b, JobsAssumption DEF Replenishing!Begins, Replenishing!clockVars, Replenishing!Returns
  <1>2 ASSUME NEW e \in Execution, Replenishing!FindsCompleted(e) PROVE P'
    <2>1 UNCHANGED window /\ (UNCHANGED due \/ due' = IF e \in Scheduler THEN [due EXCEPT ![e] = window + 1] ELSE due)
      BY <1>2 DEF Replenishing!FindsCompleted, Replenishing!clockVars, Replenishing!Returns
    <2> QED
      BY <1>a, <2>1, JobsAssumption
  <1>3 ASSUME NEW e \in Execution, Replenishing!Locks(e) PROVE P'
    BY <1>3, <1>a, <1>b, JobsAssumption DEF Replenishing!Locks, Replenishing!clockVars, Replenishing!Returns
  <1>4 ASSUME NEW e \in Execution, Replenishing!Skips(e) PROVE P'
    BY <1>4, <1>a, <1>b, JobsAssumption DEF Replenishing!Skips, Replenishing!clockVars, Replenishing!Returns
  <1>5 ASSUME NEW e \in Execution, Replenishing!Calls(e) PROVE P'
    BY <1>5, <1>a, <1>b, JobsAssumption DEF Replenishing!Calls, Replenishing!clockVars, Replenishing!Returns
  <1>6 ASSUME NEW e \in Execution, Replenishing!Completes(e) PROVE P'
    BY <1>6, <1>a, <1>b, JobsAssumption DEF Replenishing!Completes, Replenishing!clockVars, Replenishing!Returns
  <1>7 ASSUME NEW e \in Execution, Replenishing!Waits(e) PROVE P'
    BY <1>7, <1>a, <1>b, JobsAssumption DEF Replenishing!Waits, Replenishing!clockVars, Replenishing!Returns
  <1>8 ASSUME NEW e \in Execution, Replenishing!Unlocks(e) PROVE P'
    BY <1>8, <1>a, <1>b, JobsAssumption DEF Replenishing!Unlocks, Replenishing!clockVars, Replenishing!Returns
  <1>9 ASSUME NEW s \in Scheduler, Replenishing!Stops(s) PROVE P'
    BY <1>9, <1>a, <1>b, JobsAssumption DEF Replenishing!Stops, Replenishing!clockVars, Replenishing!Returns
  <1>10 ASSUME NEW s \in Scheduler, Replenishing!Starts(s) PROVE P'
    BY <1>10, <1>a, <1>b, JobsAssumption DEF Replenishing!Starts, Replenishing!clockVars, Replenishing!Returns
  <1>11 ASSUME NEW m \in Manual, Replenishing!Triggers(m) PROVE P'
    BY <1>11, <1>a, <1>b, JobsAssumption DEF Replenishing!Triggers, Replenishing!clockVars, Replenishing!Returns
  <1>12 ASSUME NEW r \in Replenishing!Run, Replenishing!LateRequestArrives(r) PROVE P'
    BY <1>12, <1>a, <1>b, JobsAssumption DEF Replenishing!LateRequestArrives, Replenishing!clockVars, Replenishing!Returns
  <1>13 ASSUME Replenishing!LockLapses PROVE P'
    BY <1>13, <1>a, <1>b, JobsAssumption DEF Replenishing!LockLapses, Replenishing!clockVars, Replenishing!Returns
  <1>14 ASSUME Replenishing!WindowPasses PROVE P'
    BY <1>14, <1>a, <1>b, JobsAssumption DEF Replenishing!WindowPasses, Replenishing!clockVars, Replenishing!Returns
  <1> QED
    BY <1>1, <1>2, <1>3, <1>4, <1>5, <1>6, <1>7, <1>8, <1>9, <1>10, <1>11, <1>12, <1>13, <1>14 DEF Replenishing!Next, Replenishing!ExecutionStep, Execution, Replenishing!Execution

\* The lock and the completed windows stay typed.
LEMMA LockTyped ==
  ASSUME Replenishing!TypeOK, Replenishing!Next
  PROVE  (/\ lock \in [held : BOOLEAN, by : SUBSET Execution, run : 0..LastWindow \cup Manual]
         /\ lapsed \subseteq Execution /\ completed \subseteq 0..LastWindow)'
  <1> DEFINE P == /\ lock \in [held : BOOLEAN, by : SUBSET Execution, run : 0..LastWindow \cup Manual]
                 /\ lapsed \subseteq Execution /\ completed \subseteq 0..LastWindow
  <1>a P
    BY DEF Replenishing!TypeOK, Execution, Replenishing!Execution, Replenishing!Run, Replenishing!Window
  <1>b \A e \in Execution : execution[e].run \in 0..LastWindow \cup Manual
    BY DEF Replenishing!TypeOK, Execution, Replenishing!Execution, Replenishing!Run, Replenishing!Window
  <1>1 ASSUME NEW e \in Execution, Replenishing!Begins(e) PROVE P'
    BY <1>1, <1>a, <1>b, JobsAssumption DEF Replenishing!Begins, Replenishing!redisVars
  <1>2 ASSUME NEW e \in Execution, Replenishing!FindsCompleted(e) PROVE P'
    <2>1 UNCHANGED <<lock, lapsed, completed>>
      BY <1>2 DEF Replenishing!FindsCompleted, Replenishing!redisVars
    <2> QED
      BY <1>a, <2>1
  <1>3 ASSUME NEW e \in Execution, Replenishing!Locks(e) PROVE P'
    <2>1 /\ lock' = lock \/ lock' = [held |-> TRUE, by |-> {e}, run |-> execution[e].run]
         /\ UNCHANGED <<lapsed, completed>>
      BY <1>3 DEF Replenishing!Locks
    <2>2 [held |-> TRUE, by |-> {e}, run |-> execution[e].run]
           \in [held : BOOLEAN, by : SUBSET Execution, run : 0..LastWindow \cup Manual]
      <3>1 \A h \in BOOLEAN, b \in SUBSET Execution, r \in 0..LastWindow \cup Manual :
             [held |-> h, by |-> b, run |-> r] \in [held : BOOLEAN, by : SUBSET Execution, run : 0..LastWindow \cup Manual]
        OBVIOUS
      <3>2 {e} \in SUBSET Execution /\ execution[e].run \in 0..LastWindow \cup Manual
        BY <1>b
      <3> QED
        BY <3>1, <3>2
    <2> QED
      BY <1>a, <2>1, <2>2
  <1>4 ASSUME NEW e \in Execution, Replenishing!Skips(e) PROVE P'
    BY <1>4, <1>a, <1>b, JobsAssumption DEF Replenishing!Skips, Replenishing!redisVars
  <1>5 ASSUME NEW e \in Execution, Replenishing!Calls(e) PROVE P'
    BY <1>5, <1>a, <1>b, JobsAssumption DEF Replenishing!Calls, Replenishing!redisVars
  <1>6 ASSUME NEW e \in Execution, Replenishing!Completes(e) PROVE P'
    BY <1>6, <1>a, <1>b, JobsAssumption DEF Replenishing!Completes, Replenishing!redisVars, Replenishing!Window
  <1>7 ASSUME NEW e \in Execution, Replenishing!Waits(e) PROVE P'
    BY <1>7, <1>a, <1>b, JobsAssumption DEF Replenishing!Waits, Replenishing!redisVars
  <1>8 ASSUME NEW e \in Execution, Replenishing!Unlocks(e) PROVE P'
    <2>1 /\ lock' = lock \/ lock' = Replenishing!Free
         /\ lapsed' = lapsed \ {e} /\ UNCHANGED completed
      BY <1>8 DEF Replenishing!Unlocks
    <2>2 Replenishing!Free \in [held : BOOLEAN, by : SUBSET Execution, run : 0..LastWindow \cup Manual]
      BY JobsAssumption DEF Replenishing!Free
    <2> QED
      BY <1>a, <2>1, <2>2
  <1>9 ASSUME NEW s \in Scheduler, Replenishing!Stops(s) PROVE P'
    BY <1>9, <1>a, <1>b, JobsAssumption DEF Replenishing!Stops, Replenishing!redisVars, Execution
  <1>10 ASSUME NEW s \in Scheduler, Replenishing!Starts(s) PROVE P'
    BY <1>10, <1>a, <1>b, JobsAssumption DEF Replenishing!Starts, Replenishing!redisVars
  <1>11 ASSUME NEW m \in Manual, Replenishing!Triggers(m) PROVE P'
    BY <1>11, <1>a, <1>b, JobsAssumption DEF Replenishing!Triggers, Replenishing!redisVars
  <1>12 ASSUME NEW r \in Replenishing!Run, Replenishing!LateRequestArrives(r) PROVE P'
    BY <1>12, <1>a, <1>b, JobsAssumption DEF Replenishing!LateRequestArrives, Replenishing!redisVars
  <1>13 ASSUME Replenishing!LockLapses PROVE P'
    BY <1>13, <1>a, <1>b, JobsAssumption DEF Replenishing!LockLapses, Replenishing!redisVars, Replenishing!Free
  <1>14 ASSUME Replenishing!WindowPasses PROVE P'
    BY <1>14, <1>a, <1>b, JobsAssumption DEF Replenishing!WindowPasses, Replenishing!redisVars
  <1> QED
    BY <1>1, <1>2, <1>3, <1>4, <1>5, <1>6, <1>7, <1>8, <1>9, <1>10, <1>11, <1>12, <1>13, <1>14 DEF Replenishing!Next, Replenishing!ExecutionStep, Execution, Replenishing!Execution

\* Records, replenished windows and requests under way stay typed.
LEMMA RecordTyped ==
  ASSUME Replenishing!TypeOK, Replenishing!Next
  PROVE  (/\ record \in [0..LastWindow \cup Manual -> {"NONE", "COMPLETED", "FAILED"}]
         /\ replenished \subseteq 0..LastWindow \cup Manual
         /\ inFlight \subseteq 0..LastWindow \cup Manual)'
  <1> DEFINE P == /\ record \in [0..LastWindow \cup Manual -> {"NONE", "COMPLETED", "FAILED"}]
                 /\ replenished \subseteq 0..LastWindow \cup Manual
                 /\ inFlight \subseteq 0..LastWindow \cup Manual
  <1>a P
    BY DEF Replenishing!TypeOK, Execution, Replenishing!Execution, Replenishing!Run, Replenishing!Window
  <1>b \A e \in Execution : execution[e].run \in 0..LastWindow \cup Manual
    BY DEF Replenishing!TypeOK, Execution, Replenishing!Execution, Replenishing!Run, Replenishing!Window
  <1>1 ASSUME NEW e \in Execution, Replenishing!Begins(e) PROVE P'
    BY <1>1, <1>a, <1>b, JobsAssumption DEF Replenishing!Begins, Replenishing!serviceVars, Replenishing!NextAttempt, Replenishing!Recorded
  <1>2 ASSUME NEW e \in Execution, Replenishing!FindsCompleted(e) PROVE P'
    BY <1>2, <1>a, <1>b, JobsAssumption DEF Replenishing!FindsCompleted, Replenishing!serviceVars, Replenishing!NextAttempt, Replenishing!Recorded
  <1>3 ASSUME NEW e \in Execution, Replenishing!Locks(e) PROVE P'
    BY <1>3, <1>a, <1>b, JobsAssumption DEF Replenishing!Locks, Replenishing!serviceVars, Replenishing!NextAttempt, Replenishing!Recorded
  <1>4 ASSUME NEW e \in Execution, Replenishing!Skips(e) PROVE P'
    BY <1>4, <1>a, <1>b, JobsAssumption DEF Replenishing!Skips, Replenishing!serviceVars, Replenishing!NextAttempt, Replenishing!Recorded
  <1>5 ASSUME NEW e \in Execution, Replenishing!Calls(e) PROVE P'
    BY <1>5, <1>a, <1>b, JobsAssumption DEF Replenishing!Calls, Replenishing!serviceVars, Replenishing!NextAttempt, Replenishing!Recorded
  <1>6 ASSUME NEW e \in Execution, Replenishing!Completes(e) PROVE P'
    BY <1>6, <1>a, <1>b, JobsAssumption DEF Replenishing!Completes, Replenishing!serviceVars, Replenishing!NextAttempt, Replenishing!Recorded
  <1>7 ASSUME NEW e \in Execution, Replenishing!Waits(e) PROVE P'
    BY <1>7, <1>a, <1>b, JobsAssumption DEF Replenishing!Waits, Replenishing!serviceVars, Replenishing!NextAttempt, Replenishing!Recorded
  <1>8 ASSUME NEW e \in Execution, Replenishing!Unlocks(e) PROVE P'
    BY <1>8, <1>a, <1>b, JobsAssumption DEF Replenishing!Unlocks, Replenishing!serviceVars, Replenishing!NextAttempt, Replenishing!Recorded
  <1>9 ASSUME NEW s \in Scheduler, Replenishing!Stops(s) PROVE P'
    BY <1>9, <1>a, <1>b, JobsAssumption DEF Replenishing!Stops, Replenishing!serviceVars, Replenishing!NextAttempt, Replenishing!Recorded
  <1>10 ASSUME NEW s \in Scheduler, Replenishing!Starts(s) PROVE P'
    BY <1>10, <1>a, <1>b, JobsAssumption DEF Replenishing!Starts, Replenishing!serviceVars, Replenishing!NextAttempt, Replenishing!Recorded
  <1>11 ASSUME NEW m \in Manual, Replenishing!Triggers(m) PROVE P'
    BY <1>11, <1>a, <1>b, JobsAssumption DEF Replenishing!Triggers, Replenishing!serviceVars, Replenishing!NextAttempt, Replenishing!Recorded
  <1>12 ASSUME NEW r \in Replenishing!Run, Replenishing!LateRequestArrives(r) PROVE P'
    BY <1>12, <1>a, <1>b, JobsAssumption DEF Replenishing!LateRequestArrives, Replenishing!serviceVars, Replenishing!NextAttempt, Replenishing!Recorded, Replenishing!Run, Replenishing!Window
  <1>13 ASSUME Replenishing!LockLapses PROVE P'
    BY <1>13, <1>a, <1>b, JobsAssumption DEF Replenishing!LockLapses, Replenishing!serviceVars, Replenishing!NextAttempt, Replenishing!Recorded
  <1>14 ASSUME Replenishing!WindowPasses PROVE P'
    BY <1>14, <1>a, <1>b, JobsAssumption DEF Replenishing!WindowPasses, Replenishing!serviceVars, Replenishing!NextAttempt, Replenishing!Recorded
  <1> QED
    BY <1>1, <1>2, <1>3, <1>4, <1>5, <1>6, <1>7, <1>8, <1>9, <1>10, <1>11, <1>12, <1>13, <1>14 DEF Replenishing!Next, Replenishing!ExecutionStep, Execution, Replenishing!Execution

\* What the history has of missed changes stays typed.
LEMMA MissedTyped ==
  ASSUME Replenishing!TypeOK, Replenishing!Next
  PROVE  (copied \in [Execution -> BOOLEAN] /\ missed \in BOOLEAN)'
  <1> DEFINE P == copied \in [Execution -> BOOLEAN] /\ missed \in BOOLEAN
  <1>a P
    BY DEF Replenishing!TypeOK, Execution, Replenishing!Execution, Replenishing!Run, Replenishing!Window
  <1>b \A e \in Execution : execution[e].run \in 0..LastWindow \cup Manual
    BY DEF Replenishing!TypeOK, Execution, Replenishing!Execution, Replenishing!Run, Replenishing!Window
  <1>1 ASSUME NEW e \in Execution, Replenishing!Begins(e) PROVE P'
    BY <1>1, <1>a, <1>b, JobsAssumption DEF Replenishing!Begins, Replenishing!statusVars, Replenishing!NextAttempt, Replenishing!Publishes, Replenishing!Returns
  <1>2 ASSUME NEW e \in Execution, Replenishing!FindsCompleted(e) PROVE P'
    BY <1>2, <1>a, <1>b, JobsAssumption DEF Replenishing!FindsCompleted, Replenishing!statusVars, Replenishing!NextAttempt, Replenishing!Publishes, Replenishing!Returns
  <1>3 ASSUME NEW e \in Execution, Replenishing!Locks(e) PROVE P'
    BY <1>3, <1>a, <1>b, JobsAssumption DEF Replenishing!Locks, Replenishing!statusVars, Replenishing!NextAttempt, Replenishing!Publishes, Replenishing!Returns
  <1>4 ASSUME NEW e \in Execution, Replenishing!Skips(e) PROVE P'
    BY <1>4, <1>a, <1>b, JobsAssumption DEF Replenishing!Skips, Replenishing!statusVars, Replenishing!NextAttempt, Replenishing!Publishes, Replenishing!Returns
  <1>5 ASSUME NEW e \in Execution, Replenishing!Calls(e) PROVE P'
    BY <1>5, <1>a, <1>b, JobsAssumption DEF Replenishing!Calls, Replenishing!statusVars, Replenishing!NextAttempt, Replenishing!Publishes, Replenishing!Returns
  <1>6 ASSUME NEW e \in Execution, Replenishing!Completes(e) PROVE P'
    BY <1>6, <1>a, <1>b, JobsAssumption DEF Replenishing!Completes, Replenishing!statusVars, Replenishing!NextAttempt, Replenishing!Publishes, Replenishing!Returns
  <1>7 ASSUME NEW e \in Execution, Replenishing!Waits(e) PROVE P'
    BY <1>7, <1>a, <1>b, JobsAssumption DEF Replenishing!Waits, Replenishing!statusVars, Replenishing!NextAttempt, Replenishing!Publishes, Replenishing!Returns
  <1>8 ASSUME NEW e \in Execution, Replenishing!Unlocks(e) PROVE P'
    BY <1>8, <1>a, <1>b, JobsAssumption DEF Replenishing!Unlocks, Replenishing!statusVars, Replenishing!NextAttempt, Replenishing!Publishes, Replenishing!Returns
  <1>9 ASSUME NEW s \in Scheduler, Replenishing!Stops(s) PROVE P'
    BY <1>9, <1>a, <1>b, JobsAssumption DEF Replenishing!Stops, Replenishing!statusVars, Replenishing!NextAttempt, Replenishing!Publishes, Replenishing!Returns
  <1>10 ASSUME NEW s \in Scheduler, Replenishing!Starts(s) PROVE P'
    BY <1>10, <1>a, <1>b, JobsAssumption DEF Replenishing!Starts, Replenishing!statusVars, Replenishing!NextAttempt, Replenishing!Publishes, Replenishing!Returns
  <1>11 ASSUME NEW m \in Manual, Replenishing!Triggers(m) PROVE P'
    <2>1 shown.running \in BOOLEAN /\ m \in Execution
      BY DEF Replenishing!TypeOK, Execution
    <2>2 copied' = [copied EXCEPT ![m] = shown.running] /\ missed' = missed
      BY <1>11 DEF Replenishing!Triggers
    <2> HIDE <1>11
    <2> QED
      BY <1>a, <2>1, <2>2
  <1>12 ASSUME NEW r \in Replenishing!Run, Replenishing!LateRequestArrives(r) PROVE P'
    BY <1>12, <1>a, <1>b, JobsAssumption DEF Replenishing!LateRequestArrives, Replenishing!statusVars, Replenishing!NextAttempt, Replenishing!Publishes, Replenishing!Returns
  <1>13 ASSUME Replenishing!LockLapses PROVE P'
    BY <1>13, <1>a, <1>b, JobsAssumption DEF Replenishing!LockLapses, Replenishing!statusVars, Replenishing!NextAttempt, Replenishing!Publishes, Replenishing!Returns
  <1>14 ASSUME Replenishing!WindowPasses PROVE P'
    BY <1>14, <1>a, <1>b, JobsAssumption DEF Replenishing!WindowPasses, Replenishing!statusVars, Replenishing!NextAttempt, Replenishing!Publishes, Replenishing!Returns
  <1> QED
    BY <1>1, <1>2, <1>3, <1>4, <1>5, <1>6, <1>7, <1>8, <1>9, <1>10, <1>11, <1>12, <1>13, <1>14 DEF Replenishing!Next, Replenishing!ExecutionStep, Execution, Replenishing!Execution

\* What callers are told stays typed.
LEMMA ToldTyped ==
  ASSUME Replenishing!TypeOK, Replenishing!Next
  PROVE  (told \in [Manual -> {"nothing", "completed", "failed"}])'
  <1> DEFINE P == told \in [Manual -> {"nothing", "completed", "failed"}]
  <1>a P
    BY DEF Replenishing!TypeOK, Execution, Replenishing!Execution, Replenishing!Run, Replenishing!Window
  <1>b \A e \in Execution : execution[e].run \in 0..LastWindow \cup Manual
    BY DEF Replenishing!TypeOK, Execution, Replenishing!Execution, Replenishing!Run, Replenishing!Window
  <1>1 ASSUME NEW e \in Execution, Replenishing!Begins(e) PROVE P'
    BY <1>1, <1>a, <1>b, JobsAssumption DEF Replenishing!Begins, Replenishing!statusVars, Replenishing!Returns
  <1>2 ASSUME NEW e \in Execution, Replenishing!FindsCompleted(e) PROVE P'
    BY <1>2, <1>a, <1>b, JobsAssumption DEF Replenishing!FindsCompleted, Replenishing!statusVars, Replenishing!Returns
  <1>3 ASSUME NEW e \in Execution, Replenishing!Locks(e) PROVE P'
    BY <1>3, <1>a, <1>b, JobsAssumption DEF Replenishing!Locks, Replenishing!statusVars, Replenishing!Returns
  <1>4 ASSUME NEW e \in Execution, Replenishing!Skips(e) PROVE P'
    BY <1>4, <1>a, <1>b, JobsAssumption DEF Replenishing!Skips, Replenishing!statusVars, Replenishing!Returns
  <1>5 ASSUME NEW e \in Execution, Replenishing!Calls(e) PROVE P'
    BY <1>5, <1>a, <1>b, JobsAssumption DEF Replenishing!Calls, Replenishing!statusVars, Replenishing!Returns
  <1>6 ASSUME NEW e \in Execution, Replenishing!Completes(e) PROVE P'
    BY <1>6, <1>a, <1>b, JobsAssumption DEF Replenishing!Completes, Replenishing!statusVars, Replenishing!Returns
  <1>7 ASSUME NEW e \in Execution, Replenishing!Waits(e) PROVE P'
    BY <1>7, <1>a, <1>b, JobsAssumption DEF Replenishing!Waits, Replenishing!statusVars, Replenishing!Returns
  <1>8 ASSUME NEW e \in Execution, Replenishing!Unlocks(e) PROVE P'
    BY <1>8, <1>a, <1>b, JobsAssumption DEF Replenishing!Unlocks, Replenishing!statusVars, Replenishing!Returns, Replenishing!Result
  <1>9 ASSUME NEW s \in Scheduler, Replenishing!Stops(s) PROVE P'
    BY <1>9, <1>a, <1>b, JobsAssumption DEF Replenishing!Stops, Replenishing!statusVars, Replenishing!Returns
  <1>10 ASSUME NEW s \in Scheduler, Replenishing!Starts(s) PROVE P'
    BY <1>10, <1>a, <1>b, JobsAssumption DEF Replenishing!Starts, Replenishing!statusVars, Replenishing!Returns
  <1>11 ASSUME NEW m \in Manual, Replenishing!Triggers(m) PROVE P'
    BY <1>11, <1>a, <1>b, JobsAssumption DEF Replenishing!Triggers, Replenishing!statusVars, Replenishing!Returns
  <1>12 ASSUME NEW r \in Replenishing!Run, Replenishing!LateRequestArrives(r) PROVE P'
    BY <1>12, <1>a, <1>b, JobsAssumption DEF Replenishing!LateRequestArrives, Replenishing!statusVars, Replenishing!Returns
  <1>13 ASSUME Replenishing!LockLapses PROVE P'
    BY <1>13, <1>a, <1>b, JobsAssumption DEF Replenishing!LockLapses, Replenishing!statusVars, Replenishing!Returns
  <1>14 ASSUME Replenishing!WindowPasses PROVE P'
    BY <1>14, <1>a, <1>b, JobsAssumption DEF Replenishing!WindowPasses, Replenishing!statusVars, Replenishing!Returns
  <1> QED
    BY <1>1, <1>2, <1>3, <1>4, <1>5, <1>6, <1>7, <1>8, <1>9, <1>10, <1>11, <1>12, <1>13, <1>14 DEF Replenishing!Next, Replenishing!ExecutionStep, Execution, Replenishing!Execution

\* The counts of stops and failures stay within their bounds.
LEMMA FaultsTyped ==
  ASSUME Replenishing!TypeOK, Replenishing!Next
  PROVE  (stops \in 0..MaxStops /\ failures \in 0..MaxFailures)'
  <1> DEFINE P == stops \in 0..MaxStops /\ failures \in 0..MaxFailures
  <1>a P
    BY DEF Replenishing!TypeOK, Execution, Replenishing!Execution, Replenishing!Run, Replenishing!Window
  <1>b \A e \in Execution : execution[e].run \in 0..LastWindow \cup Manual
    BY DEF Replenishing!TypeOK, Execution, Replenishing!Execution, Replenishing!Run, Replenishing!Window
  <1>1 ASSUME NEW e \in Execution, Replenishing!Begins(e) PROVE P'
    BY <1>1, <1>a, <1>b, JobsAssumption DEF Replenishing!Begins, Replenishing!faultVars, Replenishing!Fails, Replenishing!NextAttempt, Replenishing!Publishes, Replenishing!Returns
  <1>2 ASSUME NEW e \in Execution, Replenishing!FindsCompleted(e) PROVE P'
    BY <1>2, <1>a, <1>b, JobsAssumption DEF Replenishing!FindsCompleted, Replenishing!faultVars, Replenishing!Fails, Replenishing!NextAttempt, Replenishing!Publishes, Replenishing!Returns
  <1>3 ASSUME NEW e \in Execution, Replenishing!Locks(e) PROVE P'
    BY <1>3, <1>a, <1>b, JobsAssumption DEF Replenishing!Locks, Replenishing!faultVars, Replenishing!Fails, Replenishing!NextAttempt, Replenishing!Publishes, Replenishing!Returns
  <1>4 ASSUME NEW e \in Execution, Replenishing!Skips(e) PROVE P'
    BY <1>4, <1>a, <1>b, JobsAssumption DEF Replenishing!Skips, Replenishing!faultVars, Replenishing!Fails, Replenishing!NextAttempt, Replenishing!Publishes, Replenishing!Returns
  <1>5 ASSUME NEW e \in Execution, Replenishing!Calls(e) PROVE P'
    BY <1>5, <1>a, <1>b, JobsAssumption DEF Replenishing!Calls, Replenishing!faultVars, Replenishing!Fails, Replenishing!NextAttempt, Replenishing!Publishes, Replenishing!Returns
  <1>6 ASSUME NEW e \in Execution, Replenishing!Completes(e) PROVE P'
    BY <1>6, <1>a, <1>b, JobsAssumption DEF Replenishing!Completes, Replenishing!faultVars, Replenishing!Fails, Replenishing!NextAttempt, Replenishing!Publishes, Replenishing!Returns
  <1>7 ASSUME NEW e \in Execution, Replenishing!Waits(e) PROVE P'
    BY <1>7, <1>a, <1>b, JobsAssumption DEF Replenishing!Waits, Replenishing!faultVars, Replenishing!Fails, Replenishing!NextAttempt, Replenishing!Publishes, Replenishing!Returns
  <1>8 ASSUME NEW e \in Execution, Replenishing!Unlocks(e) PROVE P'
    BY <1>8, <1>a, <1>b, JobsAssumption DEF Replenishing!Unlocks, Replenishing!faultVars, Replenishing!Fails, Replenishing!NextAttempt, Replenishing!Publishes, Replenishing!Returns
  <1>9 ASSUME NEW s \in Scheduler, Replenishing!Stops(s) PROVE P'
    BY <1>9, <1>a, <1>b, JobsAssumption DEF Replenishing!Stops, Replenishing!faultVars, Replenishing!Fails, Replenishing!NextAttempt, Replenishing!Publishes, Replenishing!Returns
  <1>10 ASSUME NEW s \in Scheduler, Replenishing!Starts(s) PROVE P'
    BY <1>10, <1>a, <1>b, JobsAssumption DEF Replenishing!Starts, Replenishing!faultVars, Replenishing!Fails, Replenishing!NextAttempt, Replenishing!Publishes, Replenishing!Returns
  <1>11 ASSUME NEW m \in Manual, Replenishing!Triggers(m) PROVE P'
    BY <1>11, <1>a, <1>b, JobsAssumption DEF Replenishing!Triggers, Replenishing!faultVars, Replenishing!Fails, Replenishing!NextAttempt, Replenishing!Publishes, Replenishing!Returns
  <1>12 ASSUME NEW r \in Replenishing!Run, Replenishing!LateRequestArrives(r) PROVE P'
    BY <1>12, <1>a, <1>b, JobsAssumption DEF Replenishing!LateRequestArrives, Replenishing!faultVars, Replenishing!Fails, Replenishing!NextAttempt, Replenishing!Publishes, Replenishing!Returns
  <1>13 ASSUME Replenishing!LockLapses PROVE P'
    BY <1>13, <1>a, <1>b, JobsAssumption DEF Replenishing!LockLapses, Replenishing!faultVars, Replenishing!Fails, Replenishing!NextAttempt, Replenishing!Publishes, Replenishing!Returns
  <1>14 ASSUME Replenishing!WindowPasses PROVE P'
    BY <1>14, <1>a, <1>b, JobsAssumption DEF Replenishing!WindowPasses, Replenishing!faultVars, Replenishing!Fails, Replenishing!NextAttempt, Replenishing!Publishes, Replenishing!Returns
  <1> QED
    BY <1>1, <1>2, <1>3, <1>4, <1>5, <1>6, <1>7, <1>8, <1>9, <1>10, <1>11, <1>12, <1>13, <1>14 DEF Replenishing!Next, Replenishing!ExecutionStep, Execution, Replenishing!Execution

\* Publishing writes a status of its type.
LEMMA PublishedTyped ==
  ASSUME Replenishing!TypeOK, NEW e \in Execution, NEW b \in BOOLEAN, Replenishing!Publishes(e, b)
  PROVE  shown' \in [executing : BOOLEAN, running : BOOLEAN]
  <1>1 copied[e] \in BOOLEAN /\ shown \in [executing : BOOLEAN, running : BOOLEAN]
    BY DEF Replenishing!TypeOK, Execution, Replenishing!Execution
  <1>2 \A r \in BOOLEAN : [executing |-> b, running |-> r] \in [executing : BOOLEAN, running : BOOLEAN]
    OBVIOUS
  <1> QED
    BY <1>1, <1>2, Zenon DEF Replenishing!Publishes

\* The published status stays typed.
LEMMA ShownTyped ==
  ASSUME Replenishing!TypeOK, Replenishing!Next
  PROVE  shown' \in [executing : BOOLEAN, running : BOOLEAN]
  <1> DEFINE T == [executing : BOOLEAN, running : BOOLEAN]
  <1>a shown \in T /\ copied \in [Execution -> BOOLEAN]
    BY DEF Replenishing!TypeOK, Execution, Replenishing!Execution
  <1>b \A b \in BOOLEAN, r \in BOOLEAN : [executing |-> b, running |-> r] \in T
    OBVIOUS
  <1>1 ASSUME NEW e \in Execution, Replenishing!ExecutionStep(e) PROVE shown' \in T
    <2>1 \/ UNCHANGED shown \/ Replenishing!Publishes(e, TRUE) \/ Replenishing!Publishes(e, FALSE)
         \/ shown' = [executing |-> FALSE, running |-> copied[e]]
      BY <1>1 DEF Replenishing!ExecutionStep, Replenishing!Begins, Replenishing!FindsCompleted, Replenishing!Locks, Replenishing!Skips, Replenishing!Calls, Replenishing!Completes,
         Replenishing!Waits, Replenishing!Unlocks, Replenishing!NextAttempt, Replenishing!statusVars
    <2>2 copied[e] \in BOOLEAN
      BY <1>a
    <2>3 shown' = [executing |-> FALSE, running |-> copied[e]] => shown' \in T
      BY <1>b, <2>2, Zenon
    <2> QED
      BY <1>a, <2>1, <2>3, PublishedTyped
  <1>2 ASSUME NEW s \in Scheduler, Replenishing!Stops(s) PROVE shown' \in T
    <2>1 UNCHANGED shown \/ shown' = [executing |-> Replenishing!Busy(s), running |-> FALSE]
      BY <1>2 DEF Replenishing!Stops
    <2>2 Replenishing!Busy(s) \in BOOLEAN
      BY SMT DEF Replenishing!Busy
    <2>3 shown' = [executing |-> Replenishing!Busy(s), running |-> FALSE] => shown' \in T
      BY <1>b, <2>2, Zenon
    <2> QED
      BY <1>a, <2>1, <2>3
  <1>3 ASSUME NEW s \in Scheduler, Replenishing!Starts(s) PROVE shown' \in T
    <2>1 UNCHANGED shown \/ shown' = [executing |-> FALSE, running |-> TRUE]
      BY <1>3 DEF Replenishing!Starts
    <2> QED
      BY <1>a, <1>b, <2>1
  <1>4 ASSUME UNCHANGED shown PROVE shown' \in T
    BY <1>4, <1>a
  <1>5 \/ UNCHANGED shown \/ \E e \in Execution : Replenishing!ExecutionStep(e)
       \/ \E s \in Scheduler : Replenishing!Stops(s) \/ Replenishing!Starts(s)
    BY DEF Replenishing!Next, Replenishing!Triggers, Replenishing!LateRequestArrives, Replenishing!LockLapses, Replenishing!WindowPasses, Replenishing!statusVars,
       Execution, Replenishing!Execution
  <1> QED
    BY <1>1, <1>2, <1>3, <1>4, <1>5

\* The types of the replenishment are kept by every step.
LEMMA ReplenishmentTypes ==
  ASSUME Replenishing!TypeOK, Replenishing!Next
  PROVE  Replenishing!TypeOK'
  BY ExecutionTyped, ClockTyped, LockTyped, RecordTyped, MissedTyped, ToldTyped, FaultsTyped, ShownTyped
     DEF Replenishing!TypeOK, Execution, ExecutionState, Replenishing!Execution, Replenishing!Run, Replenishing!Window, Replenishing!Holding

\* What an execution does to itself.
LEMMA ExecutionMoves ==
  ASSUME Replenishing!TypeOK, NEW e \in Execution, Replenishing!ExecutionStep(e)
  PROVE  /\ \A f \in Execution \ {e} : execution'[f] = execution[f]
         /\ execution[e].pc # "down" /\ execution'[e].pc # "down" /\ replenished \subseteq replenished'
         /\ execution'[e].run = execution[e].run
              \/ (execution[e].pc = "idle" /\ execution'[e].pc = "begun" /\ (e \in Manual => execution'[e].run = e))
         /\ execution[e].pc = "idle" => execution'[e].pc = "begun"
         /\ execution'[e].pc \in Replenishing!Holding => execution[e].pc \in Replenishing!Holding \/ (Replenishing!Locks(e) /\ ~ lock.held)
         /\ execution'[e].pc = "answered" => execution[e].run \in replenished'
         /\ execution'[e].pc = "unlocking" /\ execution'[e].attempt = 0 => execution[e].pc = "answered"
  <1> DEFINE P == /\ \A f \in Execution \ {e} : execution'[f] = execution[f]
                  /\ execution[e].pc # "down" /\ execution'[e].pc # "down" /\ replenished \subseteq replenished'
                  /\ execution'[e].run = execution[e].run
                       \/ (execution[e].pc = "idle" /\ execution'[e].pc = "begun" /\ (e \in Manual => execution'[e].run = e))
                  /\ execution[e].pc = "idle" => execution'[e].pc = "begun"
                  /\ execution'[e].pc \in Replenishing!Holding => execution[e].pc \in Replenishing!Holding \/ (Replenishing!Locks(e) /\ ~ lock.held)
                  /\ execution'[e].pc = "answered" => execution[e].run \in replenished'
                  /\ execution'[e].pc = "unlocking" /\ execution'[e].attempt = 0 => execution[e].pc = "answered"
  <1>a execution \in [Execution -> ExecutionState]
    BY DEF Replenishing!TypeOK, Execution, ExecutionState, Replenishing!Execution, Replenishing!Run, Replenishing!Window, Replenishing!Holding
  <1>1 ASSUME Replenishing!Begins(e) PROVE P
    BY <1>1, <1>a, JobsAssumption DEF Replenishing!Begins, ExecutionState, Replenishing!Holding, Replenishing!Step, Replenishing!Proceeds, Replenishing!Returns, Replenishing!NextAttempt, Replenishing!serviceVars
  <1>2 ASSUME Replenishing!FindsCompleted(e) PROVE P
    <2>1 /\ execution[e].pc = "begun" /\ UNCHANGED replenished
         /\ \E pc \in {"idle", "locking"} : execution' = [execution EXCEPT ![e].pc = pc]
      BY <1>2 DEF Replenishing!FindsCompleted, Replenishing!Step, Replenishing!Returns, Replenishing!serviceVars
    <2> QED
      BY <1>a, <2>1 DEF ExecutionState, Replenishing!Holding
  <1>3 ASSUME Replenishing!Locks(e) PROVE P
    BY <1>3, <1>a, JobsAssumption DEF Replenishing!Locks, ExecutionState, Replenishing!Holding, Replenishing!Step, Replenishing!Proceeds, Replenishing!Returns, Replenishing!NextAttempt, Replenishing!serviceVars
  <1>4 ASSUME Replenishing!Skips(e) PROVE P
    BY <1>4, <1>a, JobsAssumption DEF Replenishing!Skips, ExecutionState, Replenishing!Holding, Replenishing!Step, Replenishing!Proceeds, Replenishing!Returns, Replenishing!NextAttempt, Replenishing!serviceVars
  <1>5 ASSUME Replenishing!Calls(e) PROVE P
    BY <1>5, <1>a, JobsAssumption DEF Replenishing!Calls, ExecutionState, Replenishing!Holding, Replenishing!Step, Replenishing!Proceeds, Replenishing!Returns, Replenishing!NextAttempt, Replenishing!serviceVars
  <1>6 ASSUME Replenishing!Completes(e) PROVE P
    <2>1 /\ execution[e].pc = "answered" /\ UNCHANGED replenished
         /\ \/ execution' = [execution EXCEPT ![e].pc = "unlocking", ![e].attempt = 0]
            \/ execution' = [execution EXCEPT ![e].pc = "unlocking"]
            \/ execution' = [execution EXCEPT ![e].pc = "waiting", ![e].attempt = @ + 1]
      BY <1>6 DEF Replenishing!Completes, Replenishing!NextAttempt, Replenishing!Proceeds
    <2> QED
      BY <1>a, <2>1 DEF ExecutionState, Replenishing!Holding
  <1>7 ASSUME Replenishing!Waits(e) PROVE P
    BY <1>7, <1>a, JobsAssumption DEF Replenishing!Waits, ExecutionState, Replenishing!Holding, Replenishing!Step, Replenishing!Proceeds, Replenishing!Returns, Replenishing!NextAttempt, Replenishing!serviceVars
  <1>8 ASSUME Replenishing!Unlocks(e) PROVE P
    BY <1>8, <1>a, JobsAssumption DEF Replenishing!Unlocks, ExecutionState, Replenishing!Holding, Replenishing!Step, Replenishing!Proceeds, Replenishing!Returns, Replenishing!NextAttempt, Replenishing!serviceVars
  <1> HIDE DEF P
  <1>9 P
    BY <1>1, <1>2, <1>3, <1>4, <1>5, <1>6, <1>7, <1>8 DEF Replenishing!ExecutionStep
  <1> QED
    BY <1>9 DEF P

\* What the rest does to executions.
LEMMA OtherMoves ==
  ASSUME Replenishing!TypeOK, Replenishing!Next
  PROVE  \/ \E e \in Execution : Replenishing!ExecutionStep(e)
         \/ /\ UNCHANGED <<completed, record, told>> /\ replenished \subseteq replenished'
            /\ \A e \in Execution :
                 \/ execution'[e] = execution[e]
                 \/ e \in Scheduler /\ execution'[e].pc \in {"idle", "down"}
                 \/ /\ e \in Manual /\ execution[e].pc = "idle"
                    /\ execution'[e] = [execution[e] EXCEPT !.attempt = 1]
  <1>a execution \in [Execution -> ExecutionState]
    BY DEF Replenishing!TypeOK, Execution, ExecutionState, Replenishing!Execution, Replenishing!Run, Replenishing!Window, Replenishing!Holding
  <1> DEFINE P == /\ UNCHANGED <<completed, record, told>> /\ replenished \subseteq replenished'
                  /\ \A e \in Execution :
                       \/ execution'[e] = execution[e]
                       \/ e \in Scheduler /\ execution'[e].pc \in {"idle", "down"}
                       \/ /\ e \in Manual /\ execution[e].pc = "idle"
                          /\ execution'[e] = [execution[e] EXCEPT !.attempt = 1]
  <1>1 ASSUME NEW s \in Scheduler, Replenishing!Stops(s) PROVE P
    BY <1>1, <1>a DEF Replenishing!Stops, Replenishing!serviceVars, Replenishing!redisVars, Execution, ExecutionState
  <1>2 ASSUME NEW s \in Scheduler, Replenishing!Starts(s) PROVE P
    BY <1>2, <1>a DEF Replenishing!Starts, Replenishing!Step, Replenishing!serviceVars, Replenishing!redisVars, Execution, ExecutionState
  <1>3 ASSUME NEW m \in Manual, Replenishing!Triggers(m) PROVE P
    BY <1>3, <1>a DEF Replenishing!Triggers, Replenishing!serviceVars, Replenishing!redisVars, Execution, ExecutionState
  <1>4 ASSUME NEW r \in Replenishing!Run, Replenishing!LateRequestArrives(r) PROVE P
    BY <1>4 DEF Replenishing!LateRequestArrives, Replenishing!redisVars, Replenishing!statusVars
  <1>5 ASSUME Replenishing!LockLapses \/ Replenishing!WindowPasses PROVE P
    BY <1>5 DEF Replenishing!LockLapses, Replenishing!WindowPasses, Replenishing!redisVars, Replenishing!serviceVars, Replenishing!statusVars
  <1> HIDE DEF P
  <1>6 P \/ \E e \in Execution : Replenishing!ExecutionStep(e)
    BY <1>1, <1>2, <1>3, <1>4, <1>5 DEF Replenishing!Next, Execution, Replenishing!Execution
  <1> QED
    BY <1>6 DEF P

\* A triggered execution begins with its own run.
LEMMA ExecutionBegins ==
  ASSUME Replenishing!TypeOK, NEW e \in Manual, Replenishing!ExecutionStep(e), execution[e].pc = "idle"
  PROVE  execution'[e].run = e
  <1>1 execution \in [Execution -> ExecutionState] /\ e \in Execution
    BY DEF Replenishing!TypeOK, Execution, ExecutionState, Replenishing!Execution, Replenishing!Run, Replenishing!Window, Replenishing!Holding
  <1>2 Replenishing!Begins(e)
    BY DEF Replenishing!ExecutionStep, Replenishing!Begins, Replenishing!FindsCompleted, Replenishing!Locks, Replenishing!Skips, Replenishing!Calls, Replenishing!Completes, Replenishing!Waits, Replenishing!Unlocks, Replenishing!Step
  <1> QED
    BY <1>1, <1>2 DEF Replenishing!Begins

\* AnswersAreReal is kept by every step.
LEMMA AnswersStep ==
  ASSUME Replenishing!TypeOK, AnswersAreReal, Replenishing!Next
  PROVE  AnswersAreReal'
  <1>1 ASSUME NEW e \in Execution, Replenishing!ExecutionStep(e) PROVE AnswersAreReal'
    <2>1 \A m \in Manual : execution'[m].pc # "down" /\ (execution'[m].pc # "idle" => execution'[m].run = m)
      <3>1 \A m \in Manual \ {e} : execution'[m] = execution[m]
        BY <1>1, ExecutionMoves DEF Execution
      <3>2 ASSUME e \in Manual PROVE execution'[e].pc # "down" /\ (execution'[e].pc # "idle" => execution'[e].run = e)
        <4>1 /\ execution'[e].pc # "down"
             /\ execution'[e].run = execution[e].run \/ execution'[e].run = e
             /\ execution[e].pc = "idle" => execution'[e].pc = "begun" /\ execution'[e].run = e
          BY <1>1, <3>2, ExecutionMoves, ExecutionBegins
        <4>2 execution[e].pc # "idle" => execution[e].run = e
          BY <3>2 DEF AnswersAreReal
        <4> QED
          BY <4>1, <4>2
      <3> QED
        BY <3>1, <3>2 DEF AnswersAreReal
    <2>2 \A f \in Execution :
           /\ execution'[f].pc = "answered" => execution'[f].run \in replenished'
           /\ execution'[f].pc = "unlocking" /\ execution'[f].attempt = 0 => execution'[f].run \in replenished'
      BY <1>1, ExecutionMoves DEF AnswersAreReal
    <2> QED
      BY <2>1, <2>2 DEF AnswersAreReal
  <1>2 ASSUME ~ \E e \in Execution : Replenishing!ExecutionStep(e) PROVE AnswersAreReal'
    <2>1 execution \in [Execution -> ExecutionState] /\ Scheduler \cap Manual = {}
      BY JobsAssumption DEF Replenishing!TypeOK, Execution, ExecutionState, Replenishing!Execution, Replenishing!Run, Replenishing!Window, Replenishing!Holding
    <2>2 \A e \in Execution :
           /\ e \in Manual => execution'[e].pc = execution[e].pc /\ execution'[e].run = execution[e].run
           /\ execution'[e].pc \in {"answered", "unlocking"} => execution'[e] = execution[e]
      <3> SUFFICES ASSUME NEW e \in Execution
                   PROVE  /\ e \in Manual => execution'[e].pc = execution[e].pc /\ execution'[e].run = execution[e].run
                          /\ execution'[e].pc \in {"answered", "unlocking"} => execution'[e] = execution[e]
        OBVIOUS
      <3>1 \/ execution'[e] = execution[e]
           \/ e \in Scheduler /\ execution'[e].pc \in {"idle", "down"}
           \/ /\ e \in Manual /\ execution[e].pc = "idle"
              /\ execution'[e] = [execution[e] EXCEPT !.attempt = 1]
        BY <1>2, OtherMoves
      <3>2 execution[e] \in ExecutionState
        BY <2>1
      <3> QED
        BY <2>1, <3>1, <3>2 DEF ExecutionState
    <2>3 replenished \subseteq replenished'
      BY <1>2, OtherMoves
    <2> QED
      BY <2>2, <2>3 DEF AnswersAreReal, Execution
  <1> QED
    BY <1>1, <1>2

\* A completion is written after the answer that stock was added.
LEMMA CompletionStep ==
  ASSUME Replenishing!TypeOK, AnswersAreReal, Replenishing!CompletionIsReal, Replenishing!Next
  PROVE  Replenishing!CompletionIsReal'
  <1>a /\ completed \subseteq 0..LastWindow
       /\ record \in [0..LastWindow \cup Manual -> {"NONE", "COMPLETED", "FAILED"}]
       /\ told \in [Manual -> {"nothing", "completed", "failed"}]
       /\ \A e \in Execution : execution[e].run \in 0..LastWindow \cup Manual
    BY DEF Replenishing!TypeOK, Execution, Replenishing!Execution, Replenishing!Run, Replenishing!Window
  <1>1 ASSUME NEW e \in Execution, Replenishing!ExecutionStep(e) PROVE Replenishing!CompletionIsReal'
    <2>a replenished \subseteq replenished'
      BY <1>1, ExecutionMoves
    <2>1 completed' \subseteq completed \cup {execution[e].run} /\ (completed' # completed => Replenishing!Completes(e))
      BY <1>1 DEF Replenishing!ExecutionStep, Replenishing!Begins, Replenishing!FindsCompleted, Replenishing!Locks, Replenishing!Skips, Replenishing!Calls, Replenishing!Completes,
         Replenishing!Waits, Replenishing!Unlocks, Replenishing!redisVars
    <2>2 record' \in {record, [record EXCEPT ![execution[e].run] = "FAILED"],
                      [record EXCEPT ![execution[e].run] = "COMPLETED"]}
         /\ (record' = [record EXCEPT ![execution[e].run] = "COMPLETED"] =>
               record' \in {record, [record EXCEPT ![execution[e].run] = "FAILED"]} \/ Replenishing!Completes(e))
      BY <1>1 DEF Replenishing!ExecutionStep, Replenishing!Begins, Replenishing!FindsCompleted, Replenishing!Locks, Replenishing!Skips, Replenishing!Calls, Replenishing!Completes,
         Replenishing!Waits, Replenishing!Unlocks, Replenishing!serviceVars, Replenishing!NextAttempt, Replenishing!Recorded
    <2>3 Replenishing!Completes(e) => execution[e].run \in replenished'
      BY <2>a DEF Replenishing!Completes, AnswersAreReal
    <2>4 \/ told' = told
         \/ /\ e \in Manual
            /\ \E answer \in {"failed", "completed"} :
                 /\ told' = [told EXCEPT ![e] = answer]
                 /\ answer = "completed" =>
                      \/ execution[e].pc = "begun" /\ execution[e].run \in completed
                      \/ execution[e].pc = "unlocking" /\ execution[e].attempt = 0
      <3>1 ASSUME Replenishing!FindsCompleted(e)
           PROVE  told' = told \/ (/\ e \in Manual /\ told' = [told EXCEPT ![e] = "completed"]
                                   /\ execution[e].pc = "begun" /\ execution[e].run \in completed)
        BY <3>1 DEF Replenishing!FindsCompleted, Replenishing!Returns, Replenishing!statusVars
      <3>2 ASSUME Replenishing!Unlocks(e)
           PROVE  told' = told \/ (/\ e \in Manual /\ execution[e].pc = "unlocking"
                                   /\ \/ told' = [told EXCEPT ![e] = "failed"]
                                      \/ told' = [told EXCEPT ![e] = "completed"] /\ execution[e].attempt = 0)
        BY <3>2 DEF Replenishing!Unlocks, Replenishing!Returns, Replenishing!Result
      <3>3 ASSUME Replenishing!Locks(e) \/ Replenishing!Skips(e)
           PROVE  told' = told \/ (e \in Manual /\ told' = [told EXCEPT ![e] = "failed"])
        BY <3>3 DEF Replenishing!Locks, Replenishing!Skips, Replenishing!Returns, Replenishing!statusVars
      <3>4 Replenishing!Begins(e) \/ Replenishing!Calls(e) \/ Replenishing!Completes(e) \/ Replenishing!Waits(e) => told' = told
        BY DEF Replenishing!Begins, Replenishing!Calls, Replenishing!Completes, Replenishing!Waits, Replenishing!statusVars
      <3> QED
        BY <1>1, <3>1, <3>2, <3>3, <3>4 DEF Replenishing!ExecutionStep
    <2>5 completed' \subseteq replenished'
      BY <2>a, <2>1, <2>3 DEF Replenishing!CompletionIsReal
    <2>6 \A r \in 0..LastWindow \cup Manual : record'[r] = "COMPLETED" => r \in replenished'
      BY <1>a, <2>a, <2>2, <2>3 DEF Replenishing!CompletionIsReal, Replenishing!Run, Replenishing!Window
    <2>7 \A m \in Manual : told'[m] = "completed" => m \in replenished'
      <3>1 e \in Manual /\ execution[e].pc # "idle" => execution[e].run = e
        BY DEF AnswersAreReal
      <3>2 e \in Manual => e \notin completed
        BY <1>a, JobsAssumption
      <3> QED
        <4>1 \A m \in Manual : told[m] = "completed" => m \in replenished'
          BY <2>a DEF Replenishing!CompletionIsReal
        <4>2 CASE UNCHANGED told
          BY <4>1, <4>2
        <4>3 CASE told' # told
          <5>1 PICK answer \in {"failed", "completed"} :
                 /\ e \in Manual /\ told' = [told EXCEPT ![e] = answer]
                 /\ answer = "completed" =>
                      \/ execution[e].pc = "begun" /\ execution[e].run \in completed
                      \/ execution[e].pc = "unlocking" /\ execution[e].attempt = 0
            BY <2>4, <4>3
          <5>2 execution[e].pc = "begun" => execution[e].run \notin completed
            BY <3>1, <3>2, <5>1
          <5>3 answer = "completed" => e \in replenished'
            BY <2>a, <3>1, <5>1, <5>2 DEF AnswersAreReal
          <5>4 \A m \in Manual : told'[m] = IF m = e THEN answer ELSE told[m]
            BY <1>a, <5>1
          <5> QED
            BY <4>1, <5>3, <5>4
        <4> QED
          BY <4>2, <4>3
    <2> QED
      BY <2>5, <2>6, <2>7 DEF Replenishing!CompletionIsReal, Replenishing!Run, Replenishing!Window
  <1>2 ASSUME ~ \E e \in Execution : Replenishing!ExecutionStep(e) PROVE Replenishing!CompletionIsReal'
    BY <1>2, OtherMoves DEF Replenishing!CompletionIsReal
  <1> QED
    BY <1>1, <1>2

\* A step that leaves the lock alone lets nobody else be at work.
LEMMA LockUntouched ==
  ASSUME Replenishing!TypeOK, Replenishing!OwnLockKept, FreeLockIsNobodys, UNCHANGED <<lock, lapsed>>,
         NEW e \in Execution, Replenishing!ExecutionStep(e), ~ (Replenishing!Locks(e) /\ ~ lock.held)
  PROVE  (Replenishing!OwnLockKept /\ FreeLockIsNobodys)'
  <1>1 ASSUME NEW f \in Execution, execution'[f].pc \in Replenishing!Holding
       PROVE  execution[f].pc \in Replenishing!Holding /\ execution'[f].run = execution[f].run
    <2>1 CASE f # e
      BY <1>1, <2>1, ExecutionMoves
    <2>2 CASE f = e
      <3>1 execution[e].pc \in Replenishing!Holding
        BY <1>1, <2>2, ExecutionMoves
      <3>2 execution[e].pc # "idle"
        BY <3>1 DEF Replenishing!Holding
      <3> QED
        BY <2>2, <3>1, <3>2, ExecutionMoves
    <2> QED
      BY <2>1, <2>2
  <1> QED
    BY <1>1 DEF Replenishing!OwnLockKept, Replenishing!Owns, FreeLockIsNobodys, Replenishing!Execution, Execution

\* An execution deletes the lock only if it still is its own.
LEMMA LockStep ==
  ASSUME Replenishing!TypeOK, Replenishing!OwnLockKept, FreeLockIsNobodys, Replenishing!Next
  PROVE  (Replenishing!OwnLockKept /\ FreeLockIsNobodys)'
  <1> DEFINE P == Replenishing!OwnLockKept /\ FreeLockIsNobodys
  <1>a /\ execution \in [Execution -> ExecutionState] /\ lapsed \subseteq Execution
       /\ lock \in [held : BOOLEAN, by : SUBSET Execution, run : 0..LastWindow \cup Manual]
    BY DEF Replenishing!TypeOK, Execution, ExecutionState, Replenishing!Execution, Replenishing!Run, Replenishing!Window, Replenishing!Holding
  <1>b \A e \in Execution : execution[e].pc \in Replenishing!Holding /\ e \notin lapsed => lock.by = {e} /\ lock.run = execution[e].run
    BY DEF Replenishing!OwnLockKept, Replenishing!Owns, Execution, Replenishing!Execution
  <1>c ~ lock.held => lock.by = {}
    BY DEF FreeLockIsNobodys
  <1>1 ASSUME NEW e \in Execution, Replenishing!Locks(e), ~ lock.held PROVE P'
    <2>1 \A f \in Execution : execution[f].pc \in Replenishing!Holding => f \in lapsed
      BY <1>1, <1>b, <1>c
    <2>2 \/ /\ execution' = [execution EXCEPT ![e].pc = "calling"] /\ UNCHANGED lapsed
            /\ lock' = [held |-> TRUE, by |-> {e}, run |-> execution[e].run]
         \/ execution' = [execution EXCEPT ![e].pc = "idle"] /\ UNCHANGED <<lock, lapsed>>
      BY <1>1 DEF Replenishing!Locks, Replenishing!Returns, Replenishing!Step
    <2>3 CASE execution' = [execution EXCEPT ![e].pc = "idle"] /\ UNCHANGED <<lock, lapsed>>
      <3>1 \A f \in Execution : execution'[f].pc \in Replenishing!Holding => f \in lapsed
        BY <1>a, <2>1, <2>3 DEF Replenishing!Holding, ExecutionState
      <3> QED
        BY <1>c, <2>3, <3>1 DEF Replenishing!OwnLockKept, FreeLockIsNobodys, Execution, Replenishing!Execution
    <2>4 CASE /\ execution' = [execution EXCEPT ![e].pc = "calling"] /\ UNCHANGED lapsed
              /\ lock' = [held |-> TRUE, by |-> {e}, run |-> execution[e].run]
      <3>1 execution'[e].run = execution[e].run /\ \A f \in Execution \ {e} : execution'[f] = execution[f]
        BY <1>a, <2>4 DEF ExecutionState
      <3>2 lock'.by = {e} /\ lock'.run = execution[e].run /\ lock'.held
        BY <2>4
      <3> QED
        BY <2>1, <2>4, <3>1, <3>2 DEF Replenishing!OwnLockKept, Replenishing!Owns, FreeLockIsNobodys, Execution, Replenishing!Execution
    <2> QED
      BY <2>2, <2>3, <2>4
  <1>2 ASSUME NEW e \in Execution, Replenishing!Unlocks(e) PROVE P'
    <2>1 /\ execution' = [execution EXCEPT ![e].pc = "idle"] /\ lapsed' = lapsed \ {e}
         /\ lock' = lock \/ (lock.by = {e} /\ lock' = Replenishing!Free)
      BY <1>2 DEF Replenishing!Unlocks, Replenishing!Returns, Replenishing!Owns
    <2>2 \A f \in Execution : execution'[f].pc \in Replenishing!Holding => f # e /\ execution'[f] = execution[f]
      BY <1>a, <2>1 DEF Replenishing!Holding, ExecutionState
    <2>3 CASE lock' = lock
      BY <1>b, <1>c, <2>1, <2>2, <2>3 DEF Replenishing!OwnLockKept, Replenishing!Owns, FreeLockIsNobodys, Execution, Replenishing!Execution
    <2>4 CASE lock.by = {e} /\ lock' = Replenishing!Free
      <3>1 \A f \in Execution : execution[f].pc \in Replenishing!Holding /\ f # e => f \in lapsed
        BY <1>b, <2>4
      <3>2 lock'.by = {}
        BY <2>4 DEF Replenishing!Free
      <3> QED
        BY <2>1, <2>2, <3>1, <3>2 DEF Replenishing!OwnLockKept, Replenishing!Owns, FreeLockIsNobodys, Execution, Replenishing!Execution
    <2> QED
      BY <2>1, <2>3, <2>4
  <1>3 ASSUME NEW e \in Execution, Replenishing!ExecutionStep(e), ~ Replenishing!Unlocks(e), ~ (Replenishing!Locks(e) /\ ~ lock.held) PROVE P'
    <2>1 UNCHANGED <<lock, lapsed>>
      BY <1>3 DEF Replenishing!ExecutionStep, Replenishing!Begins, Replenishing!FindsCompleted, Replenishing!Skips, Replenishing!Calls, Replenishing!Completes, Replenishing!Waits, Replenishing!Locks,
         Replenishing!redisVars
    <2> QED
      BY <1>3, <2>1, LockUntouched
  <1>4 ASSUME NEW s \in Scheduler, Replenishing!Stops(s) PROVE P'
    <2>1 /\ execution' = [execution EXCEPT ![s].pc = "down"] /\ lapsed' = lapsed \ {s}
         /\ lock' = [lock EXCEPT !.by = @ \ {s}]
      BY <1>4 DEF Replenishing!Stops
    <2>2 \A f \in Execution : execution'[f].pc \in Replenishing!Holding => f # s /\ execution'[f] = execution[f]
      BY <1>a, <2>1 DEF Replenishing!Holding, ExecutionState
    <2>3 lock'.by = lock.by \ {s} /\ lock'.run = lock.run /\ lock'.held = lock.held
      BY <1>a, <2>1
    <2> QED
      BY <1>b, <1>c, <2>1, <2>2, <2>3 DEF Replenishing!OwnLockKept, Replenishing!Owns, FreeLockIsNobodys, Execution, Replenishing!Execution
  <1>5 ASSUME Replenishing!LockLapses PROVE P'
    <2>1 UNCHANGED execution /\ lock' = Replenishing!Free
         /\ lapsed' = lapsed \cup {e \in lock.by : Replenishing!Owns(e) /\ execution[e].pc \in Replenishing!Holding}
      BY <1>5 DEF Replenishing!LockLapses
    <2>2 \A f \in Execution : execution[f].pc \in Replenishing!Holding => f \in lapsed'
      BY <1>b, <2>1 DEF Replenishing!Owns
    <2>3 lock'.by = {}
      BY <2>1 DEF Replenishing!Free
    <2> QED
      BY <2>1, <2>2, <2>3 DEF Replenishing!OwnLockKept, FreeLockIsNobodys, Execution, Replenishing!Execution
  <1>6 ASSUME ~ \E e \in Execution : Replenishing!ExecutionStep(e), UNCHANGED <<lock, lapsed>> PROVE P'
    <2>1 ASSUME NEW e \in Execution, execution'[e].pc \in Replenishing!Holding
         PROVE  execution'[e] = execution[e]
      <3>1 \/ execution'[e] = execution[e]
           \/ e \in Scheduler /\ execution'[e].pc \in {"idle", "down"}
           \/ /\ execution[e].pc = "idle"
              /\ execution'[e] = [execution[e] EXCEPT !.attempt = 1]
        BY <1>6, OtherMoves
      <3>2 execution[e] \in ExecutionState
        BY <1>a
      <3> QED
        BY <2>1, <3>1, <3>2 DEF Replenishing!Holding, ExecutionState
    <2> QED
      BY <1>6, <1>b, <1>c, <2>1 DEF Replenishing!OwnLockKept, Replenishing!Owns, FreeLockIsNobodys, Execution, Replenishing!Execution
  <1>7 \/ \E e \in Execution : Replenishing!ExecutionStep(e)
       \/ Replenishing!LockLapses
       \/ \E s \in Scheduler : Replenishing!Stops(s)
       \/ UNCHANGED <<lock, lapsed>>
    BY DEF Replenishing!Next, Replenishing!Starts, Replenishing!Triggers, Replenishing!LateRequestArrives, Replenishing!WindowPasses, Replenishing!redisVars, Execution, Replenishing!Execution
  <1> QED
    BY <1>1, <1>2, <1>3, <1>4, <1>5, <1>6, <1>7 DEF Replenishing!ExecutionStep

\* The invariant of the replenishment is inductive.
LEMMA ReplenishmentStep ==
  ASSUME ReplenishmentInv, Replenishing!Next
  PROVE  ReplenishmentInv'
  BY ReplenishmentTypes, AnswersStep, CompletionStep, LockStep DEF ReplenishmentInv

\* It holds at the start.
LEMMA ReplenishmentStart ==
  ASSUME Replenishing!Init
  PROVE  ReplenishmentInv
  <1>1 Replenishing!TypeOK
    <2>1 0 \in 0..LastWindow /\ 0 \in 0..LastWindow + 1 /\ 0 \in 0..MaxAttempts /\ 0 \in 0..MaxStops /\ 0 \in 0..MaxFailures
      BY JobsAssumption
    <2>2 execution \in [Execution -> ExecutionState]
      <3>1 \A e \in Execution :
             [pc |-> IF e \in Manual THEN "idle" ELSE "down", run |-> 0, attempt |-> 0] \in ExecutionState
        BY <2>1 DEF ExecutionState
      <3>2 execution = [e \in Execution |->
             [pc |-> IF e \in Manual THEN "idle" ELSE "down", run |-> 0, attempt |-> 0]]
        BY DEF Replenishing!Init, Execution, Replenishing!Execution
      <3> QED
        BY <3>1, <3>2
    <2>3 window \in 0..LastWindow /\ due \in [Scheduler -> 0..LastWindow + 1]
      BY <2>1 DEF Replenishing!Init
    <2>4 lock \in [held : BOOLEAN, by : SUBSET Execution, run : 0..LastWindow \cup Manual]
      BY <2>1 DEF Replenishing!Init, Replenishing!Free
    <2>5 shown \in [executing : BOOLEAN, running : BOOLEAN] /\ missed \in BOOLEAN
      BY DEF Replenishing!Init
    <2>6 copied \in [Execution -> BOOLEAN]
      <3>1 \A e \in Execution : (e \in Scheduler) \in BOOLEAN
        OBVIOUS
      <3>2 copied = [e \in Execution |-> e \in Scheduler]
        BY DEF Replenishing!Init, Execution, Replenishing!Execution
      <3> QED
        BY <3>1, <3>2, Zenon
    <2>7 /\ lapsed = {} /\ completed = {} /\ replenished = {} /\ inFlight = {} /\ stops = 0 /\ failures = 0
         /\ record = [r \in 0..LastWindow \cup Manual |-> "NONE"] /\ told = [m \in Manual |-> "nothing"]
      BY DEF Replenishing!Init, Replenishing!Run, Replenishing!Window
    <2> QED
      BY <2>1, <2>2, <2>3, <2>4, <2>5, <2>6, <2>7
         DEF Replenishing!TypeOK, Execution, ExecutionState, Replenishing!Window, Replenishing!Run, Replenishing!Execution, Replenishing!Holding
  <1>2 Replenishing!CompletionIsReal
    BY DEF Replenishing!Init, Replenishing!CompletionIsReal
  <1>3 Replenishing!OwnLockKept /\ AnswersAreReal
    <2>1 \A e \in Execution : execution[e].pc = IF e \in Manual THEN "idle" ELSE "down"
      BY DEF Replenishing!Init, Execution, Replenishing!Execution
    <2> QED
      BY <2>1 DEF Replenishing!OwnLockKept, AnswersAreReal, Replenishing!Holding, Execution, Replenishing!Execution
  <1>4 FreeLockIsNobodys
    BY DEF Replenishing!Init, Replenishing!Free, FreeLockIsNobodys
  <1> QED
    BY <1>1, <1>2, <1>3, <1>4 DEF ReplenishmentInv

ReplenishmentHolds == focus = "replenishment" => ReplenishmentInv

\* It holds whenever the replenishment is the part that takes steps.
LEMMA ReplenishmentInvariant == MCSpec => []ReplenishmentHolds
  <1>1 ASSUME MCInit PROVE ReplenishmentHolds
    BY <1>1, ReplenishmentStart DEF MCInit, ReplenishmentHolds
  <1>2 ASSUME ReplenishmentHolds, MCNext PROVE ReplenishmentHolds'
    <2>1 CASE Replenishes
      BY <1>2, <2>1, ReplenishmentStep DEF Replenishes, ReplenishmentHolds
    <2>2 CASE ~ Replenishes
      BY <1>2, <2>2 DEF MCNext, WarmsUp, Runs, Works, ReplenishmentHolds
    <2> QED
      BY <2>1, <2>2
  <1>3 ASSUME ReplenishmentHolds, UNCHANGED <<focus, replenishmentVars, warmupVars, runnerVars, processVars>>
       PROVE  ReplenishmentHolds'
    BY <1>3 DEF ReplenishmentHolds, ReplenishmentInv, AnswersAreReal, FreeLockIsNobodys, replenishmentVars,
       Replenishing!TypeOK, Replenishing!CompletionIsReal, Replenishing!OwnLockKept, Replenishing!Owns
  <1> QED
    BY <1>1, <1>2, <1>3, PTL DEF MCSpec

\* For any workers, triggered executions and windows, and any number of attempts, crashes
\* and Redis failures, a completion mark, a record and what the operator is told stand for
\* stock that was added, and no execution deletes the lock of another (execute and
\* releaseLock of inventory-replenishment.ts).
THEOREM ReplenishmentSafe == MCSpec => []ReplenishmentIsSafe
  <1>1 ReplenishmentHolds => ReplenishmentIsSafe
    BY DEF ReplenishmentHolds, ReplenishmentInv, ReplenishmentIsSafe
  <1> QED
    BY <1>1, ReplenishmentInvariant, PTL
-----------------------------------------------------------------------------
\* Worker process

Slots == 1..2
SenderState == [pc : {"none", "setup", "loop", "closing"}, session : BOOLEAN, aborted : BOOLEAN]
SenderTable == [FaultRuns -> [Slots -> SenderState]]

\* What every sender was, is still true of it, and it is no more than that.
SenderInv(r, i) ==
  /\ sender[r][i].pc # "none" => r \in registered
  /\ \A k \in Slots : sender[r][i].pc # "none" /\ sender[r][k].pc # "none" => i = k
  /\ sender[r][i].session => sender[r][i].pc # "none"

\* Whom the shutdown waits for, are all who can still send.
SurgesInv(r, i) ==
  sender[r][i].pc = "loop" /\ Working!ExecutorOf(r) = "surge" =>
    /\ process.at = "surges" => <<r, i>> \in process.awaits
    /\ process.at \notin {"rest", "exited"}

ProcessInv ==
  /\ Working!TypeOK
  /\ \A r \in FaultRuns, i \in Slots : SenderInv(r, i) /\ SurgesInv(r, i)

\* The ways in which the table of the senders changes.
LEMMA SenderChanges ==
  ASSUME Working!Next
  PROVE  \/ UNCHANGED sender
         \/ sender' = Working!NoSenders
         \/ Working!ReportsStopped
         \/ \E e \in Working!Executor, i \in Slots : Working!ScanApplies(e, i)
         \/ \E r \in FaultRuns, i \in Slots :
              Working!SetsUp(r, i) \/ Working!SurgeFails(r, i) \/ Working!ReportFails(r, i) \/ Working!LeavesLoop(r, i) \/ Working!Ends(r, i)
  BY DEF Working!Next, Working!RunOpens, Working!RunExpires, Working!RunEnds, Working!Boots, Working!Crashes, Working!Restarts, Working!Forgets,
     Working!Terminates, Working!SurgesStopped, Working!Exits, Working!ScanReads, Working!Slot, Slots

\* The steps of one sender.
LEMMA OneSenderMoves ==
  ASSUME sender \in SenderTable, NEW r \in FaultRuns, NEW i \in Slots,
         Working!SetsUp(r, i) \/ Working!SurgeFails(r, i) \/ Working!ReportFails(r, i) \/ Working!LeavesLoop(r, i) \/ Working!Ends(r, i)
  PROVE  \/ sender' = Working!NoSenders /\ Working!Restarts
         \/ /\ UNCHANGED <<scan, process>> /\ sender[r][i].pc # "none"
            /\ \E s \in SenderState :
                 /\ sender' = [sender EXCEPT ![r][i] = s]
                 /\ s.session => Working!WithSession(r) \/ sender[r][i].session
                 /\ \/ s.pc # "none" /\ UNCHANGED registered
                    \/ s = Working!NoSender /\ registered' = registered \ {r}
                 /\ s.pc = "loop" => /\ sender[r][i].pc = "setup"
                                     /\ Working!ExecutorOf(r) = "report" \/ process.at \notin {"surges", "rest"}
  <1> DEFINE P == \/ sender' = Working!NoSenders /\ Working!Restarts
                  \/ /\ UNCHANGED <<scan, process>> /\ sender[r][i].pc # "none"
                     /\ \E s \in SenderState :
                          /\ sender' = [sender EXCEPT ![r][i] = s]
                          /\ s.session => Working!WithSession(r) \/ sender[r][i].session
                          /\ \/ s.pc # "none" /\ UNCHANGED registered
                             \/ s = Working!NoSender /\ registered' = registered \ {r}
                          /\ s.pc = "loop" => /\ sender[r][i].pc = "setup"
                                              /\ Working!ExecutorOf(r) = "report" \/ process.at \notin {"surges", "rest"}
  <1>a sender[r][i] \in SenderState
    BY DEF SenderTable
  <1>b Working!WithSession(r) \in BOOLEAN
    BY DEF Working!WithSession
  <1>1 ASSUME Working!SetsUp(r, i) PROVE P
    <2> DEFINE s == [sender[r][i] EXCEPT
               !.pc = IF Working!ExecutorOf(r) = "report" \/ ~ Working!SurgesStopping THEN "loop" ELSE "closing",
               !.session = Working!WithSession(r)]
    <2>1 sender' = [sender EXCEPT ![r][i] = s] /\ UNCHANGED <<scan, process, registered>> /\ sender[r][i].pc = "setup"
      BY <1>1 DEF Working!SetsUp, Working!Becomes, Working!IsIn
    <2>2 /\ s \in SenderState /\ s.session = Working!WithSession(r)
         /\ s.pc = IF Working!ExecutorOf(r) = "report" \/ ~ Working!SurgesStopping THEN "loop" ELSE "closing"
      BY <1>a, <1>b DEF SenderState
    <2>3 s.pc = "loop" => Working!ExecutorOf(r) = "report" \/ process.at \notin {"surges", "rest"}
      BY <2>2 DEF Working!SurgesStopping
    <2>4 s.pc # "none"
      BY <2>2
    <2> HIDE DEF s
    <2> QED
      BY <2>1, <2>2, <2>3, <2>4
  <1>2 ASSUME Working!SurgeFails(r, i) PROVE P
    <2>1 PICK opened \in {FALSE, Working!WithSession(r)} :
           sender' = [sender EXCEPT ![r][i] = [sender[r][i] EXCEPT !.pc = "closing", !.session = opened]]
      BY <1>2 DEF Working!SurgeFails, Working!Becomes
    <2>2 /\ UNCHANGED <<scan, process, registered>> /\ sender[r][i].pc = "setup"
      BY <1>2 DEF Working!SurgeFails, Working!IsIn
    <2> DEFINE s == [sender[r][i] EXCEPT !.pc = "closing", !.session = opened]
    <2>3 s \in SenderState /\ s.session = opened /\ s.pc = "closing"
      BY <1>a, <1>b DEF SenderState
    <2> QED
      BY <2>1, <2>2, <2>3
  <1>3 ASSUME Working!ReportFails(r, i) PROVE P
    <2>1 CASE Working!Restarts
      BY <2>1 DEF Working!Restarts, Working!Forgets
    <2>2 CASE ~ Working!Restarts
      <3> DEFINE s == [sender[r][i] EXCEPT !.pc = "closing"]
      <3>1 sender' = [sender EXCEPT ![r][i] = s] /\ UNCHANGED <<scan, process, registered>>
           /\ sender[r][i].pc # "none"
        BY <1>3, <2>2 DEF Working!ReportFails, Working!Becomes, Working!IsIn
      <3>2 s \in SenderState /\ s.session = sender[r][i].session /\ s.pc = "closing"
        BY <1>a DEF SenderState
      <3> QED
        BY <3>1, <3>2
    <2> QED
      BY <2>1, <2>2
  <1>4 ASSUME Working!LeavesLoop(r, i) PROVE P
    <2> DEFINE s == [sender[r][i] EXCEPT !.pc = "closing"]
    <2>1 sender' = [sender EXCEPT ![r][i] = s] /\ UNCHANGED <<scan, process, registered>> /\ sender[r][i].pc = "loop"
      BY <1>4 DEF Working!LeavesLoop, Working!Becomes, Working!IsIn
    <2>2 s \in SenderState /\ s.session = sender[r][i].session /\ s.pc = "closing"
      BY <1>a DEF SenderState
    <2> QED
      BY <2>1, <2>2
  <1>5 ASSUME Working!Ends(r, i) PROVE P
    <2>1 /\ sender' = [sender EXCEPT ![r][i] = Working!NoSender] /\ UNCHANGED <<scan, process>>
         /\ registered' = registered \ {r} /\ sender[r][i].pc = "closing"
      BY <1>5 DEF Working!Ends, Working!Becomes, Working!IsIn
    <2>2 Working!NoSender \in SenderState /\ ~ Working!NoSender.session /\ Working!NoSender.pc = "none"
      BY DEF Working!NoSender, SenderState
    <2> QED
      BY <2>1, <2>2
  <1> HIDE DEF P
  <1>6 P
    BY <1>1, <1>2, <1>3, <1>4, <1>5
  <1> QED
    BY <1>6 DEF P

\* What stop() of the surges does to all senders at once.
LEMMA ReportsStoppedMoves ==
  ASSUME sender \in SenderTable, Working!ReportsStopped
  PROVE  /\ sender' \in SenderTable /\ UNCHANGED registered
         /\ \A r \in FaultRuns, k \in Slots :
              sender'[r][k].pc = sender[r][k].pc /\ sender'[r][k].session = sender[r][k].session
  <1> DEFINE hit(r, k) == sender[r][k].aborted \/ (r \in registered /\ Working!ExecutorOf(r) = "surge")
  <1>1 /\ UNCHANGED registered
       /\ sender' = [r \in FaultRuns |-> [k \in Slots |-> [sender[r][k] EXCEPT !.aborted = hit(r, k)]]]
    BY DEF Working!ReportsStopped, Slots, Working!Slot
  <1>2 \A r \in FaultRuns, k \in Slots : sender[r][k] \in SenderState
    BY DEF SenderTable
  <1>3 \A r \in FaultRuns, k \in Slots : hit(r, k) \in BOOLEAN
    BY <1>2 DEF SenderState
  <1> HIDE DEF hit
  <1>4 ASSUME NEW r \in FaultRuns, NEW k \in Slots
       PROVE  /\ [sender[r][k] EXCEPT !.aborted = hit(r, k)] \in SenderState
              /\ [sender[r][k] EXCEPT !.aborted = hit(r, k)].pc = sender[r][k].pc
              /\ [sender[r][k] EXCEPT !.aborted = hit(r, k)].session = sender[r][k].session
    <2>1 sender[r][k] \in SenderState /\ hit(r, k) \in BOOLEAN
      BY <1>2, <1>3
    <2> QED
      BY <2>1 DEF SenderState
  <1>5 \A r \in FaultRuns, k \in Slots : sender'[r][k] = [sender[r][k] EXCEPT !.aborted = hit(r, k)]
    BY <1>1
  <1>6 sender' \in SenderTable
    BY <1>1, <1>4 DEF SenderTable
  <1> QED
    BY <1>1, <1>4, <1>5, <1>6

\* What a list that is applied does to all senders at once.
LEMMA ScanAppliesMoves ==
  ASSUME sender \in SenderTable, NEW e \in Working!Executor, NEW i \in Slots, Working!ScanApplies(e, i)
  PROVE  /\ sender' \in SenderTable /\ UNCHANGED process
         /\ registered' = registered \cup scan[<<e, i>>].runs
         /\ \A r \in FaultRuns, k \in Slots :
              \/ /\ sender'[r][k].pc = sender[r][k].pc /\ sender'[r][k].session = sender[r][k].session
                 /\ r \in registered' \ registered => k # Working!Unused(r)
              \/ /\ r \in registered' \ registered /\ k = Working!Unused(r)
                 /\ sender'[r][k].pc = "setup" /\ ~ sender'[r][k].session
  <1> DEFINE starts == scan[<<e, i>>].runs \ registered
             hit(r, k) == \/ sender[r][k].aborted
                          \/ e = "surge" /\ r \in registered \ scan[<<e, i>>].runs /\ Working!ExecutorOf(r) = e
             begun == [Working!NoSender EXCEPT !.pc = "setup"]
  <1>1 /\ UNCHANGED process /\ registered' = registered \cup starts
       /\ sender' = [r \in FaultRuns |-> [k \in Slots |->
            IF r \in starts /\ k = Working!Unused(r) THEN begun ELSE [sender[r][k] EXCEPT !.aborted = hit(r, k)]]]
    BY DEF Working!ScanApplies, Slots, Working!Slot
  <1>2 \A r \in FaultRuns, k \in Slots : sender[r][k] \in SenderState
    BY DEF SenderTable
  <1>3 \A r \in FaultRuns, k \in Slots : hit(r, k) \in BOOLEAN
    BY <1>2 DEF SenderState
  <1>4 begun \in SenderState /\ begun.pc = "setup" /\ ~ begun.session
    BY DEF Working!NoSender, SenderState
  <1>5 registered' = registered \cup scan[<<e, i>>].runs /\ starts = registered' \ registered
    <2>1 \A A, B : A \cup (B \ A) = A \cup B /\ B \ A = (A \cup B) \ A
      OBVIOUS
    <2>2 registered' = registered \cup starts
      BY <1>1
    <2> QED
      BY <2>1, <2>2
  <1> HIDE DEF hit, begun, starts
  <1>6 ASSUME NEW r \in FaultRuns, NEW k \in Slots
       PROVE  /\ [sender[r][k] EXCEPT !.aborted = hit(r, k)] \in SenderState
              /\ [sender[r][k] EXCEPT !.aborted = hit(r, k)].pc = sender[r][k].pc
              /\ [sender[r][k] EXCEPT !.aborted = hit(r, k)].session = sender[r][k].session
    <2>1 sender[r][k] \in SenderState /\ hit(r, k) \in BOOLEAN
      BY <1>2, <1>3
    <2> QED
      BY <2>1 DEF SenderState
  <1>7 \A r \in FaultRuns, k \in Slots : sender'[r][k] =
         IF r \in starts /\ k = Working!Unused(r) THEN begun ELSE [sender[r][k] EXCEPT !.aborted = hit(r, k)]
    BY <1>1
  <1>8 \A r \in FaultRuns, k \in Slots : sender'[r][k] \in SenderState
    BY <1>4, <1>6, <1>7
  <1>9 sender' \in SenderTable
    <2>1 ASSUME NEW r \in FaultRuns
         PROVE  sender'[r] \in [Slots -> SenderState]
      <3>1 sender'[r] = [k \in Slots |->
             IF r \in starts /\ k = Working!Unused(r) THEN begun ELSE [sender[r][k] EXCEPT !.aborted = hit(r, k)]]
        BY <1>1
      <3> QED
        BY <3>1, <1>4, <1>6
    <2>2 sender' = [r \in FaultRuns |-> sender'[r]]
      BY <1>1
    <2> QED
      BY <2>1, <2>2 DEF SenderTable
  <1> QED
    BY <1>1, <1>4, <1>5, <1>6, <1>7, <1>9

\* The type of the table of the senders, and that only customers have sessions.
LEMMA SendersTyped ==
  ASSUME Working!TypeOK, Working!Next
  PROVE  (sender \in SenderTable /\ \A r \in FaultRuns, i \in Slots : sender[r][i].session => Working!WithSession(r))'
  <1> DEFINE P == sender \in SenderTable /\ \A r \in FaultRuns, i \in Slots : sender[r][i].session => Working!WithSession(r)
  <1>a P
    BY DEF Working!TypeOK, SenderTable, SenderState, Slots, Working!Slot
  <1>b \A r, s : Working!WithSession(r)' <=> Working!WithSession(r)
    BY DEF Working!WithSession
  <1>1 ASSUME UNCHANGED sender PROVE P'
    BY <1>1, <1>a DEF Working!WithSession
  <1>2 ASSUME sender' = Working!NoSenders PROVE P'
    <2>1 Working!NoSender \in SenderState /\ ~ Working!NoSender.session
      BY DEF Working!NoSender, SenderState
    <2>2 sender' = [r \in FaultRuns |-> [k \in Slots |-> Working!NoSender]]
      BY <1>2 DEF Working!NoSenders, Slots, Working!Slot
    <2> QED
      BY <2>1, <2>2 DEF SenderTable
  <1>3 ASSUME Working!ReportsStopped PROVE P'
    BY <1>3, <1>a, ReportsStoppedMoves DEF Working!WithSession
  <1>4 ASSUME NEW e \in Working!Executor, NEW i \in Slots, Working!ScanApplies(e, i) PROVE P'
    BY <1>4, <1>a, ScanAppliesMoves DEF Working!WithSession
  <1>5 ASSUME NEW r \in FaultRuns, NEW i \in Slots,
              Working!SetsUp(r, i) \/ Working!SurgeFails(r, i) \/ Working!ReportFails(r, i) \/ Working!LeavesLoop(r, i) \/ Working!Ends(r, i)
       PROVE  P'
    <2>1 CASE sender' = Working!NoSenders
      BY <1>2, <2>1
    <2>2 CASE sender' # Working!NoSenders
      <3>1 PICK s \in SenderState :
             sender' = [sender EXCEPT ![r][i] = s] /\ (s.session => Working!WithSession(r) \/ sender[r][i].session)
        BY <1>a, <1>5, <2>2, OneSenderMoves
      <3>2 \A q \in FaultRuns, k \in Slots : sender'[q][k] = IF q = r /\ k = i THEN s ELSE sender[q][k]
        BY <1>a, <3>1 DEF SenderTable
      <3>3 sender' \in SenderTable
        BY <1>a, <3>1 DEF SenderTable
      <3> QED
        BY <1>a, <3>1, <3>2, <3>3 DEF Working!WithSession
    <2> QED
      BY <2>1, <2>2
  <1> HIDE DEF P
  <1>6 P'
    BY <1>1, <1>2, <1>3, <1>4, <1>5, SenderChanges
  <1> QED
    BY <1>6 DEF P

\* Fault runs and registrations stay typed.
LEMMA RunsTyped ==
  ASSUME Working!TypeOK, Working!Next
  PROVE  (open \cup ended \cup overdue \subseteq FaultRuns /\ open \cap ended = {} /\ registered \subseteq FaultRuns)'
  <1> DEFINE P == (open \cup ended \cup overdue \subseteq FaultRuns /\ open \cap ended = {} /\ registered \subseteq FaultRuns)'
  <1> SUFFICES P
    OBVIOUS
  <1>a /\ open \cup ended \cup overdue \subseteq FaultRuns /\ open \cap ended = {} /\ registered \subseteq FaultRuns
       /\ \A k \in Working!Executor \X Slots : scan[k].runs \subseteq FaultRuns
    BY DEF Working!TypeOK, Working!Slot, Slots
  <1>1 ASSUME NEW r \in FaultRuns, Working!RunOpens(r) PROVE P
    BY <1>1, <1>a DEF Working!RunOpens, Working!runVars, Working!Restarts, Working!Forgets, Working!Becomes
  <1>2 ASSUME NEW r \in FaultRuns, Working!RunExpires(r) PROVE P
    BY <1>2, <1>a DEF Working!RunExpires, Working!runVars, Working!Restarts, Working!Forgets, Working!Becomes
  <1>3 ASSUME NEW r \in FaultRuns, Working!RunEnds(r) PROVE P
    BY <1>3, <1>a DEF Working!RunEnds, Working!runVars, Working!Restarts, Working!Forgets, Working!Becomes
  <1>4 ASSUME Working!Boots PROVE P
    BY <1>4, <1>a DEF Working!Boots, Working!runVars, Working!Restarts, Working!Forgets, Working!Becomes
  <1>5 ASSUME Working!Crashes PROVE P
    BY <1>5, <1>a DEF Working!Crashes, Working!runVars, Working!Restarts, Working!Forgets, Working!Becomes
  <1>6 ASSUME Working!Terminates PROVE P
    BY <1>6, <1>a DEF Working!Terminates, Working!runVars, Working!Restarts, Working!Forgets, Working!Becomes
  <1>7 ASSUME Working!ReportsStopped PROVE P
    BY <1>7, <1>a DEF Working!ReportsStopped, Working!runVars, Working!Restarts, Working!Forgets, Working!Becomes
  <1>8 ASSUME Working!SurgesStopped PROVE P
    BY <1>8, <1>a DEF Working!SurgesStopped, Working!runVars, Working!Restarts, Working!Forgets, Working!Becomes
  <1>9 ASSUME Working!Exits PROVE P
    BY <1>9, <1>a DEF Working!Exits, Working!runVars, Working!Restarts, Working!Forgets, Working!Becomes
  <1>10 ASSUME NEW e \in Working!Executor, NEW i \in Slots, Working!ScanReads(e, i) PROVE P
    BY <1>10, <1>a DEF Working!ScanReads, Working!runVars, Working!Restarts, Working!Forgets, Working!Becomes
  <1>11 ASSUME NEW e \in Working!Executor, NEW i \in Slots, Working!ScanApplies(e, i) PROVE P
    <2>1 scan[<<e, i>>].runs \subseteq FaultRuns
      BY <1>a
    <2>2 UNCHANGED <<open, ended, overdue>> /\ registered' = registered \cup (scan[<<e, i>>].runs \ registered)
      BY <1>11 DEF Working!ScanApplies, Working!runVars
    <2> QED
      BY <1>a, <2>1, <2>2
  <1>12 ASSUME NEW r \in FaultRuns, NEW i \in Slots, Working!SetsUp(r, i) PROVE P
    BY <1>12, <1>a DEF Working!SetsUp, Working!runVars, Working!Restarts, Working!Forgets, Working!Becomes
  <1>13 ASSUME NEW r \in FaultRuns, NEW i \in Slots, Working!SurgeFails(r, i) PROVE P
    BY <1>13, <1>a DEF Working!SurgeFails, Working!runVars, Working!Restarts, Working!Forgets, Working!Becomes
  <1>14 ASSUME NEW r \in FaultRuns, NEW i \in Slots, Working!ReportFails(r, i) PROVE P
    BY <1>14, <1>a DEF Working!ReportFails, Working!runVars, Working!Restarts, Working!Forgets, Working!Becomes
  <1>15 ASSUME NEW r \in FaultRuns, NEW i \in Slots, Working!LeavesLoop(r, i) PROVE P
    BY <1>15, <1>a DEF Working!LeavesLoop, Working!runVars, Working!Restarts, Working!Forgets, Working!Becomes
  <1>16 ASSUME NEW r \in FaultRuns, NEW i \in Slots, Working!Ends(r, i) PROVE P
    BY <1>16, <1>a DEF Working!Ends, Working!runVars, Working!Restarts, Working!Forgets, Working!Becomes
  <1> HIDE DEF P
  <1> QED
    BY <1>1, <1>2, <1>3, <1>4, <1>5, <1>6, <1>7, <1>8, <1>9, <1>10, <1>11, <1>12, <1>13, <1>14, <1>15, <1>16 DEF Working!Next, Working!Slot, Slots


\* Scans stay typed.
LEMMA ScansTyped ==
  ASSUME Working!TypeOK, Working!Next
  PROVE  scan' \in [Working!Executor \X Slots -> [pending : BOOLEAN, runs : SUBSET FaultRuns]]
  <1> DEFINE T == [pending : BOOLEAN, runs : SUBSET FaultRuns]
  <1> DEFINE P == scan' \in [Working!Executor \X Slots -> T]
  <1> SUFFICES P
    OBVIOUS
  <1>a scan \in [Working!Executor \X Slots -> T] /\ open \subseteq FaultRuns
    BY DEF Working!TypeOK, Working!Slot, Slots
  <1>b Working!NoScan \in T
    BY DEF Working!NoScan
  <1>c Working!NoScans \in [Working!Executor \X Slots -> T]
    BY <1>b DEF Working!NoScans, Working!Slot, Slots
  <1> HIDE DEF T
  <1>1 ASSUME NEW r \in FaultRuns, Working!RunOpens(r) PROVE P
    BY <1>1, <1>a, <1>c DEF Working!RunOpens, Working!runVars, Working!Restarts, Working!Forgets, Working!Becomes
  <1>2 ASSUME NEW r \in FaultRuns, Working!RunExpires(r) PROVE P
    BY <1>2, <1>a, <1>c DEF Working!RunExpires, Working!runVars, Working!Restarts, Working!Forgets, Working!Becomes
  <1>3 ASSUME NEW r \in FaultRuns, Working!RunEnds(r) PROVE P
    BY <1>3, <1>a, <1>c DEF Working!RunEnds, Working!runVars, Working!Restarts, Working!Forgets, Working!Becomes
  <1>4 ASSUME Working!Boots PROVE P
    BY <1>4, <1>a, <1>c DEF Working!Boots, Working!runVars, Working!Restarts, Working!Forgets, Working!Becomes
  <1>5 ASSUME Working!Crashes PROVE P
    BY <1>5, <1>a, <1>c DEF Working!Crashes, Working!runVars, Working!Restarts, Working!Forgets, Working!Becomes
  <1>6 ASSUME Working!Terminates PROVE P
    BY <1>6, <1>a, <1>c DEF Working!Terminates, Working!runVars, Working!Restarts, Working!Forgets, Working!Becomes
  <1>7 ASSUME Working!ReportsStopped PROVE P
    BY <1>7, <1>a, <1>c DEF Working!ReportsStopped, Working!runVars, Working!Restarts, Working!Forgets, Working!Becomes
  <1>8 ASSUME Working!SurgesStopped PROVE P
    BY <1>8, <1>a, <1>c DEF Working!SurgesStopped, Working!runVars, Working!Restarts, Working!Forgets, Working!Becomes
  <1>9 ASSUME Working!Exits PROVE P
    BY <1>9, <1>a, <1>c DEF Working!Exits, Working!runVars, Working!Restarts, Working!Forgets, Working!Becomes
  <1>10 ASSUME NEW e \in Working!Executor, NEW i \in Slots, Working!ScanReads(e, i) PROVE P
    <2>1 scan' = [scan EXCEPT ![<<e, i>>] = [pending |-> TRUE, runs |-> {r \in open : Working!ExecutorOf(r) = e}]]
      BY <1>10 DEF Working!ScanReads
    <2>2 [pending |-> TRUE, runs |-> {r \in open : Working!ExecutorOf(r) = e}] \in T
      BY <1>a DEF T
    <2> QED
      BY <1>a, <2>1, <2>2
  <1>11 ASSUME NEW e \in Working!Executor, NEW i \in Slots, Working!ScanApplies(e, i) PROVE P
    <2>1 scan' = [scan EXCEPT ![<<e, i>>] = Working!NoScan]
      BY <1>11 DEF Working!ScanApplies
    <2> QED
      BY <1>a, <1>b, <2>1
  <1>12 ASSUME NEW r \in FaultRuns, NEW i \in Slots, Working!SetsUp(r, i) PROVE P
    BY <1>12, <1>a, <1>c DEF Working!SetsUp, Working!runVars, Working!Restarts, Working!Forgets, Working!Becomes
  <1>13 ASSUME NEW r \in FaultRuns, NEW i \in Slots, Working!SurgeFails(r, i) PROVE P
    BY <1>13, <1>a, <1>c DEF Working!SurgeFails, Working!runVars, Working!Restarts, Working!Forgets, Working!Becomes
  <1>14 ASSUME NEW r \in FaultRuns, NEW i \in Slots, Working!ReportFails(r, i) PROVE P
    BY <1>14, <1>a, <1>c DEF Working!ReportFails, Working!runVars, Working!Restarts, Working!Forgets, Working!Becomes
  <1>15 ASSUME NEW r \in FaultRuns, NEW i \in Slots, Working!LeavesLoop(r, i) PROVE P
    BY <1>15, <1>a, <1>c DEF Working!LeavesLoop, Working!runVars, Working!Restarts, Working!Forgets, Working!Becomes
  <1>16 ASSUME NEW r \in FaultRuns, NEW i \in Slots, Working!Ends(r, i) PROVE P
    BY <1>16, <1>a, <1>c DEF Working!Ends, Working!runVars, Working!Restarts, Working!Forgets, Working!Becomes
  <1> HIDE DEF P
  <1> QED
    BY <1>1, <1>2, <1>3, <1>4, <1>5, <1>6, <1>7, <1>8, <1>9, <1>10, <1>11, <1>12, <1>13, <1>14, <1>15, <1>16 DEF Working!Next, Working!Slot, Slots


\* The stage of the process stays typed.
LEMMA StageTyped ==
  ASSUME Working!TypeOK, Working!Next
  PROVE  process' \in [at : {"booting", "up", "reports", "surges", "rest", "exited"},
                       awaits : SUBSET (FaultRuns \X Slots)]
  <1> DEFINE T == [at : {"booting", "up", "reports", "surges", "rest", "exited"},
                   awaits : SUBSET (FaultRuns \X Slots)]
  <1> DEFINE P == process' \in T
  <1> SUFFICES P
    OBVIOUS
  <1>a process \in T
    BY DEF Working!TypeOK, Working!Senders, Working!Slot, Slots
  <1>b \A stage \in {"booting", "reports", "surges", "rest"}, A \in SUBSET (FaultRuns \X Slots) :
         [at |-> stage, awaits |-> A] \in T
    OBVIOUS
  <1>c {} \in SUBSET (FaultRuns \X Slots)
    OBVIOUS
  <1>d (Working!Senders \ Working!In("none")) \cap Working!Of("report") \in SUBSET (FaultRuns \X Slots)
    BY DEF Working!Senders, Working!Slot, Slots
  <1>e Working!In("loop") \cap Working!Of("surge") \in SUBSET (FaultRuns \X Slots)
    BY DEF Working!Senders, Working!In, Working!Slot, Slots
  <1>f [process EXCEPT !.at = "up"] \in T /\ [process EXCEPT !.at = "exited"] \in T
    BY <1>a
  <1> HIDE DEF T
  <1>1 ASSUME NEW r \in FaultRuns, Working!RunOpens(r) PROVE P
    BY <1>1, <1>a DEF Working!RunOpens, Working!Becomes
  <1>2 ASSUME NEW r \in FaultRuns, Working!RunExpires(r) PROVE P
    BY <1>2, <1>a DEF Working!RunExpires, Working!Becomes
  <1>3 ASSUME NEW r \in FaultRuns, Working!RunEnds(r) PROVE P
    BY <1>3, <1>a DEF Working!RunEnds, Working!Becomes
  <1>4 ASSUME Working!Boots PROVE P
    BY <1>4, <1>f DEF Working!Boots
  <1>5 ASSUME Working!Crashes PROVE P
    BY <1>5, <1>b, <1>c DEF Working!Crashes, Working!Restarts
  <1>6 ASSUME Working!Terminates PROVE P
    BY <1>6, <1>b, <1>d DEF Working!Terminates
  <1>7 ASSUME Working!ReportsStopped PROVE P
    BY <1>7, <1>b, <1>e DEF Working!ReportsStopped
  <1>8 ASSUME Working!SurgesStopped PROVE P
    BY <1>8, <1>b, <1>c DEF Working!SurgesStopped
  <1>9 ASSUME Working!Exits PROVE P
    BY <1>9, <1>f DEF Working!Exits
  <1>10 ASSUME NEW e \in Working!Executor, NEW i \in Slots, Working!ScanReads(e, i) PROVE P
    BY <1>10, <1>a DEF Working!ScanReads, Working!Becomes
  <1>11 ASSUME NEW e \in Working!Executor, NEW i \in Slots, Working!ScanApplies(e, i) PROVE P
    BY <1>11, <1>a DEF Working!ScanApplies, Working!Becomes
  <1>12 ASSUME NEW r \in FaultRuns, NEW i \in Slots, Working!SetsUp(r, i) PROVE P
    BY <1>12, <1>a DEF Working!SetsUp, Working!Becomes
  <1>13 ASSUME NEW r \in FaultRuns, NEW i \in Slots, Working!SurgeFails(r, i) PROVE P
    BY <1>13, <1>a DEF Working!SurgeFails, Working!Becomes
  <1>14 ASSUME NEW r \in FaultRuns, NEW i \in Slots, Working!ReportFails(r, i) PROVE P
    BY <1>14, <1>a, <1>b, <1>c DEF Working!ReportFails, Working!Restarts
  <1>15 ASSUME NEW r \in FaultRuns, NEW i \in Slots, Working!LeavesLoop(r, i) PROVE P
    BY <1>15, <1>a DEF Working!LeavesLoop, Working!Becomes
  <1>16 ASSUME NEW r \in FaultRuns, NEW i \in Slots, Working!Ends(r, i) PROVE P
    BY <1>16, <1>a DEF Working!Ends, Working!Becomes
  <1> HIDE DEF P
  <1> QED
    BY <1>1, <1>2, <1>3, <1>4, <1>5, <1>6, <1>7, <1>8, <1>9, <1>10, <1>11, <1>12, <1>13, <1>14, <1>15, <1>16 DEF Working!Next, Working!Slot, Slots


\* The types of the worker process are kept by every step.
LEMMA ProcessTypes ==
  ASSUME Working!TypeOK, Working!Next
  PROVE  Working!TypeOK'
  <1>1 Working!Executor' = Working!Executor
    BY DEF Working!Executor
  <1> QED
    BY SendersTyped, RunsTyped, ScansTyped, StageTyped
       DEF Working!TypeOK, SenderTable, SenderState, Working!Senders, Working!Slot, Slots

\* Whatever step is taken, a run has one sender that it is in the map for.
LEMMA OneSenderStep ==
  ASSUME ProcessInv, Working!Next, NEW r \in FaultRuns, NEW i \in Slots
  PROVE  SenderInv(r, i)'
  <1>a /\ sender \in SenderTable
       /\ \A k \in Slots : SenderInv(r, k)
    BY DEF ProcessInv, Working!TypeOK, SenderTable, SenderState, Slots, Working!Slot
  <1>1 CASE UNCHANGED sender /\ (r \in registered => r \in registered')
    BY <1>1, <1>a DEF SenderInv
  <1>2 CASE sender' = Working!NoSenders
    <2>1 \A k \in Slots : sender'[r][k] = Working!NoSender
      BY <1>2 DEF Working!NoSenders, Slots, Working!Slot
    <2> QED
      BY <2>1 DEF SenderInv, Working!NoSender
  <1>3 CASE Working!ReportsStopped
    BY <1>3, <1>a, ReportsStoppedMoves DEF SenderInv
  <1>4 ASSUME NEW e \in Working!Executor, NEW j \in Slots, Working!ScanApplies(e, j) PROVE SenderInv(r, i)'
    <2>1 \A k \in Slots :
           \/ /\ sender'[r][k].pc = sender[r][k].pc /\ sender'[r][k].session = sender[r][k].session
              /\ r \in registered' \ registered => k # Working!Unused(r)
           \/ /\ r \in registered' \ registered /\ k = Working!Unused(r)
              /\ sender'[r][k].pc = "setup" /\ ~ sender'[r][k].session
      BY <1>4, <1>a, ScanAppliesMoves
    <2>2 registered \subseteq registered'
      BY <1>4, <1>a, ScanAppliesMoves
    <2>3 CASE r \in registered' \ registered
      <3>1 \A k \in Slots : sender[r][k].pc = "none" /\ ~ sender[r][k].session
        BY <1>a, <2>3 DEF SenderInv
      <3> QED
        BY <2>1, <2>3, <3>1 DEF SenderInv
    <2>4 CASE r \notin registered' \ registered
      BY <1>a, <2>1, <2>2, <2>4 DEF SenderInv
    <2> QED
      BY <2>3, <2>4
  <1>5 ASSUME NEW q \in FaultRuns, NEW j \in Slots,
              Working!SetsUp(q, j) \/ Working!SurgeFails(q, j) \/ Working!ReportFails(q, j) \/ Working!LeavesLoop(q, j) \/ Working!Ends(q, j)
       PROVE  SenderInv(r, i)'
    <2>1 CASE sender' = Working!NoSenders
      BY <1>2, <2>1
    <2>2 CASE sender' # Working!NoSenders
      <3>1 PICK s \in SenderState :
             /\ sender' = [sender EXCEPT ![q][j] = s] /\ sender[q][j].pc # "none"
             /\ \/ s.pc # "none" /\ UNCHANGED registered
                \/ s = Working!NoSender /\ registered' = registered \ {q}
        BY <1>a, <1>5, <2>2, OneSenderMoves
      <3>2 \A k \in Slots : sender'[r][k] = IF q = r /\ j = k THEN s ELSE sender[r][k]
        BY <1>a, <3>1 DEF SenderTable
      <3>3 CASE q # r
        <4>1 r \in registered => r \in registered'
          BY <3>1, <3>3
        <4>2 \A k \in Slots : sender'[r][k] = sender[r][k]
          BY <3>2, <3>3
        <4> QED
          BY <1>a, <4>1, <4>2 DEF SenderInv
      <3>4 CASE q = r
        <4>1 \A k \in Slots : k # j => sender[r][k].pc = "none" /\ sender'[r][k] = sender[r][k]
          BY <1>a, <3>1, <3>2, <3>4 DEF SenderInv
        <4>2 sender'[r][j] = s
          BY <3>2, <3>4
        <4>3 r \in registered
          BY <1>a, <3>1, <3>4 DEF SenderInv
        <4>4 \/ s.pc # "none" /\ r \in registered'
             \/ s.pc = "none" /\ ~ s.session
          BY <3>1, <4>3 DEF Working!NoSender
        <4> QED
          BY <1>a, <4>1, <4>2, <4>4 DEF SenderInv
      <3> QED
        BY <3>3, <3>4
    <2> QED
      BY <2>1, <2>2
  <1>6 \/ UNCHANGED <<sender, registered>>
       \/ sender' = Working!NoSenders
       \/ Working!ReportsStopped
       \/ \E e \in Working!Executor, j \in Slots : Working!ScanApplies(e, j)
       \/ \E q \in FaultRuns, j \in Slots :
            Working!SetsUp(q, j) \/ Working!SurgeFails(q, j) \/ Working!ReportFails(q, j) \/ Working!LeavesLoop(q, j) \/ Working!Ends(q, j)
    BY DEF Working!Next, Working!RunOpens, Working!RunExpires, Working!RunEnds, Working!Boots, Working!Crashes, Working!Restarts, Working!Forgets,
       Working!Terminates, Working!SurgesStopped, Working!Exits, Working!ScanReads, Working!Slot, Slots
  <1> QED
    BY <1>1, <1>2, <1>3, <1>4, <1>5, <1>6

\* Whatever step is taken, the shutdown waits for all the surges that can still send.
LEMMA SurgesStep ==
  ASSUME ProcessInv, Working!Next, NEW r \in FaultRuns, NEW i \in Slots
  PROVE  SurgesInv(r, i)'
  <1>a /\ sender \in SenderTable /\ SurgesInv(r, i) /\ \A k \in Slots : SenderInv(r, k)
       /\ process \in [at : {"booting", "up", "reports", "surges", "rest", "exited"}, awaits : SUBSET Working!Senders]
    BY DEF ProcessInv, Working!TypeOK, SenderTable, SenderState, Slots, Working!Slot
  <1>b Working!ExecutorOf(r)' = Working!ExecutorOf(r)
    BY DEF Working!ExecutorOf
  <1>1 CASE UNCHANGED process /\ (sender'[r][i].pc = "loop" => sender[r][i].pc = "loop")
    BY <1>1, <1>a, <1>b DEF SurgesInv
  <1>2 CASE sender' = Working!NoSenders
    <2>1 sender'[r][i].pc = "none"
      BY <1>2 DEF Working!NoSenders, Working!NoSender, Slots, Working!Slot
    <2> QED
      BY <2>1 DEF SurgesInv
  <1>3 CASE Working!ReportsStopped
    <2>1 /\ process' = [at |-> "surges", awaits |-> Working!In("loop") \cap Working!Of("surge")]
         /\ sender'[r][i].pc = sender[r][i].pc
      BY <1>a, <1>3, ReportsStoppedMoves DEF Working!ReportsStopped
    <2>2 sender[r][i].pc = "loop" /\ Working!ExecutorOf(r) = "surge" => <<r, i>> \in Working!In("loop") \cap Working!Of("surge")
      BY DEF Working!In, Working!Of, Working!Senders, Working!Slot, Slots
    <2>3 process'.at = "surges" /\ process'.awaits = Working!In("loop") \cap Working!Of("surge")
      BY <2>1
    <2> QED
      BY <1>b, <2>1, <2>2, <2>3 DEF SurgesInv
  <1>4 ASSUME NEW e \in Working!Executor, NEW j \in Slots, Working!ScanApplies(e, j) PROVE SurgesInv(r, i)'
    <2>1 UNCHANGED process /\ (sender'[r][i].pc = sender[r][i].pc \/ sender'[r][i].pc = "setup")
      BY <1>4, <1>a, ScanAppliesMoves
    <2> QED
      BY <1>1, <2>1
  <1>5 ASSUME NEW q \in FaultRuns, NEW j \in Slots,
              Working!SetsUp(q, j) \/ Working!SurgeFails(q, j) \/ Working!ReportFails(q, j) \/ Working!LeavesLoop(q, j) \/ Working!Ends(q, j)
       PROVE  SurgesInv(r, i)'
    <2>1 CASE sender' = Working!NoSenders
      BY <1>2, <2>1
    <2>2 CASE sender' # Working!NoSenders
      <3>1 PICK s \in SenderState :
             /\ sender' = [sender EXCEPT ![q][j] = s] /\ UNCHANGED process
             /\ s.pc = "loop" => Working!ExecutorOf(q) = "report" \/ process.at \notin {"surges", "rest"}
        BY <1>a, <1>5, <2>2, OneSenderMoves
      <3>2 sender'[r][i] = IF q = r /\ j = i THEN s ELSE sender[r][i]
        BY <1>a, <3>1 DEF SenderTable
      <3>3 process.at # "exited"
        BY <1>5 DEF Working!SetsUp, Working!SurgeFails, Working!ReportFails, Working!LeavesLoop, Working!Ends, Working!IsIn, Working!Alive
      <3> QED
        BY <1>a, <1>b, <3>1, <3>2, <3>3 DEF SurgesInv
    <2> QED
      BY <2>1, <2>2
  <1>6 CASE Working!SurgesStopped
    <2>1 process' = [at |-> "rest", awaits |-> {}] /\ UNCHANGED sender
      BY <1>6 DEF Working!SurgesStopped
    <2>2 ~ (sender[r][i].pc = "loop" /\ Working!ExecutorOf(r) = "surge")
      <3>1 <<r, i>> \in Working!Senders
        BY DEF Working!Senders, Working!Slot, Slots
      <3>2 sender[r][i].pc = "loop" => <<r, i>> \in Working!In("loop")
        BY <3>1 DEF Working!In
      <3> QED
        BY <1>6, <1>a, <3>2 DEF Working!SurgesStopped, SurgesInv
    <2> QED
      BY <1>b, <2>1, <2>2 DEF SurgesInv
  <1>7 CASE (Working!Boots \/ Working!Terminates) /\ UNCHANGED sender
    <2>1 process'.at \in {"up", "reports"}
      <3>1 CASE Working!Boots
        BY <3>1, <1>a DEF Working!Boots
      <3>2 CASE Working!Terminates
        BY <3>2 DEF Working!Terminates
      <3> QED
        BY <1>7, <3>1, <3>2
    <2> QED
      BY <2>1 DEF SurgesInv
  <1>8 UNCHANGED sender => UNCHANGED process \/ Working!Boots \/ Working!Terminates \/ Working!SurgesStopped \/ Working!ReportsStopped \/ sender' = Working!NoSenders
         \/ \E q \in FaultRuns, j \in Slots :
              Working!SetsUp(q, j) \/ Working!SurgeFails(q, j) \/ Working!ReportFails(q, j) \/ Working!LeavesLoop(q, j) \/ Working!Ends(q, j)
    BY DEF Working!Next, Working!RunOpens, Working!RunExpires, Working!RunEnds, Working!Crashes, Working!Restarts, Working!Forgets,
       Working!Exits, Working!ScanReads, Working!ScanApplies, Working!Slot, Slots
  <1> QED
    BY <1>1, <1>2, <1>3, <1>4, <1>5, <1>6, <1>7, <1>8, SenderChanges

\* The invariant of the worker process holds at the start.
LEMMA ProcessStart ==
  ASSUME Working!Init
  PROVE  ProcessInv
  <1>1 /\ open = {} /\ ended = {} /\ overdue = {} /\ registered = {}
       /\ process = [at |-> "booting", awaits |-> {}]
       /\ scan = [k \in Working!Executor \X Working!Slot |-> Working!NoScan]
       /\ sender = [r \in FaultRuns |-> [i \in Working!Slot |-> Working!NoSender]]
    BY DEF Working!Init, Working!NoScans, Working!NoSenders
  <1>2 /\ Working!NoScan \in [pending : BOOLEAN, runs : SUBSET FaultRuns]
       /\ Working!NoSender \in [pc : {"none", "setup", "loop", "closing"}, session : BOOLEAN, aborted : BOOLEAN]
       /\ ~ Working!NoSender.session /\ Working!NoSender.pc = "none"
    BY DEF Working!NoScan, Working!NoSender
  <1>3 Working!TypeOK
    BY <1>1, <1>2 DEF Working!TypeOK
  <1>4 \A r \in FaultRuns, i \in Slots : sender[r][i] = Working!NoSender
    BY <1>1 DEF Working!Slot, Slots
  <1> QED
    BY <1>2, <1>3, <1>4 DEF ProcessInv, SenderInv, SurgesInv

ProcessHolds == focus = "process" => ProcessInv

\* It holds whenever the worker process is the part that takes steps.
LEMMA ProcessInvariant == MCSpec => []ProcessHolds
  <1>1 ASSUME MCInit PROVE ProcessHolds
    BY <1>1, ProcessStart DEF MCInit, ProcessHolds
  <1>2 ASSUME ProcessHolds, MCNext PROVE ProcessHolds'
    <2>1 CASE Works
      <3>1 Working!Next /\ focus = "process" /\ focus' = "process"
        BY <2>1 DEF Works
      <3>2 ProcessInv
        BY <1>2, <3>1 DEF ProcessHolds
      <3>3 Working!TypeOK'
        BY <3>1, <3>2, ProcessTypes DEF ProcessInv
      <3>4 \A r \in FaultRuns, i \in Slots : SenderInv(r, i)' /\ SurgesInv(r, i)'
        BY <3>1, <3>2, OneSenderStep, SurgesStep
      <3> QED
        BY <3>3, <3>4 DEF ProcessHolds, ProcessInv
    <2>2 CASE ~ Works
      BY <1>2, <2>2 DEF MCNext, WarmsUp, Runs, Replenishes, ProcessHolds
    <2> QED
      BY <2>1, <2>2
  <1>3 ASSUME ProcessHolds, UNCHANGED <<focus, replenishmentVars, warmupVars, runnerVars, processVars>>
       PROVE  ProcessHolds'
    BY <1>3 DEF ProcessHolds, ProcessInv, SenderInv, SurgesInv, processVars, Working!TypeOK, Working!WithSession, Working!Executor,
       Working!Senders, Working!ExecutorOf
  <1> QED
    BY <1>1, <1>2, <1>3, PTL DEF MCSpec

\* For any fault runs and scenarios, a run has one sender at a time and a session only
\* with it, however scans overlap, and once the shutdown has stopped the surges none of
\* them sends (scan and stop of traffic-surge-executor.ts, shutdown of index.ts).
THEOREM SendersEndAlways == MCSpec => []SendersEnd
  <1>1 ASSUME ProcessInv PROVE Working!SendersEnd
    <2>1 \A r \in FaultRuns, i \in Slots : SenderInv(r, i) /\ SurgesInv(r, i)
      BY <1>1 DEF ProcessInv
    <2>2 \A r \in FaultRuns, i, k \in Working!Slot : sender[r][i].pc # "none" /\ sender[r][k].pc # "none" => i = k
      BY <2>1 DEF SenderInv, Slots, Working!Slot
    <2>3 \A r \in FaultRuns, i \in Working!Slot : sender[r][i].session => r \in registered
      BY <2>1 DEF SenderInv, Slots, Working!Slot
    <2>4 process.at \in {"rest", "exited"} => Working!In("loop") \cap Working!Of("surge") = {}
      BY <2>1 DEF SurgesInv, Working!In, Working!Of, Working!Senders, Working!Slot, Slots
    <2> QED
      BY <2>2, <2>3, <2>4 DEF Working!SendersEnd
  <1>2 ProcessHolds => SendersEnd
    BY <1>1 DEF ProcessHolds, SendersEnd
  <1> QED
    BY <1>2, ProcessInvariant, PTL
-----------------------------------------------------------------------------
\* Traffic runner

LifecycleState ==
  [id : 0..MaxLifecycles, at : Running!CustomerStep \cup {"NONE", "APPEND", "CLOSING"},
   aborted : BOOLEAN, known : BOOLEAN, retained : BOOLEAN]
OrderTable == [Running!Lifecycle -> {"NONE", "PENDING_PAYMENT", "SETTLED"}]
ResultState ==
  [status : {"NONE", "SUCCESS", "NOOP", "FAILED", "INTERRUPTED"}, known : BOOLEAN, retained : BOOLEAN]
ResultTable == [Running!Lifecycle -> ResultState]
EngineState ==
  [running : BOOLEAN, at : {"timer", "reading", "loading", "loaded", "lifecycle", "ended"},
   loaded : Running!Run \cup {"none"}, storageDone : BOOLEAN, started : 0..MaxLifecycles]

\* What the lifecycle that is executed will report, is true already.
ReportsTruth ==
  lifecycle.id # 0 /\ lifecycle.known /\ ~ lifecycle.retained => order[lifecycle.id] = "SETTLED"

\* Only the lifecycle begun last may still be without a result, and none is once it
\* closes its session.
OthersHaveEnded ==
  /\ lifecycle.id # 0 => lifecycle.id = engine.started
  /\ \A l \in 1..engine.started :
       l # lifecycle.id \/ lifecycle.at = "CLOSING" => result[l].status # "NONE"

\* What stop() has found has ended once it has drained, and the traffic run is completed
\* only then.
DrainedBefore ==
  /\ shutdown.begun <= engine.started
  /\ shutdown.at \in {"completing", "exited"} => lifecycle.id = 0 \/ lifecycle.id > shutdown.begun
  /\ trafficRun.status = "COMPLETED" => shutdown.at = "exited"

RunnerInv ==
  Running!TypeOK /\ Running!SettledWhenSaid /\ ReportsTruth /\ OthersHaveEnded /\ DrainedBefore

\* What a request may do to an order: a settled order stays so.
LEMMA ServedOrders ==
  ASSUME order \in OrderTable, NEW l \in Running!Lifecycle, NEW step \in Running!CustomerStep
  PROVE  /\ Running!Served(l, step) \in OrderTable
         /\ \A m \in Running!Lifecycle : order[m] = "SETTLED" => Running!Served(l, step)[m] = "SETTLED"
         /\ step \in {"PAYMENT_CONFIRM", "CANCEL_PENDING_ORDER"} /\ order[l] = "PENDING_PAYMENT" =>
              Running!Served(l, step)[l] = "SETTLED"
  <1>1 CASE step = "CHECKOUT" /\ order[l] = "NONE"
    <2>1 Running!Served(l, step) = [order EXCEPT ![l] = "PENDING_PAYMENT"]
      BY <1>1 DEF Running!Served
    <2> QED
      BY <1>1, <2>1 DEF OrderTable
  <1>2 CASE step \in {"PAYMENT_CONFIRM", "CANCEL_PENDING_ORDER"} /\ order[l] = "PENDING_PAYMENT"
    <2>1 Running!Served(l, step) = [order EXCEPT ![l] = "SETTLED"]
      BY <1>2 DEF Running!Served
    <2> QED
      BY <1>2, <2>1 DEF OrderTable
  <1>3 CASE /\ ~ (step = "CHECKOUT" /\ order[l] = "NONE")
            /\ ~ (step \in {"PAYMENT_CONFIRM", "CANCEL_PENDING_ORDER"} /\ order[l] = "PENDING_PAYMENT")
    <2>1 Running!Served(l, step) = order
      BY <1>3 DEF Running!Served
    <2> QED
      BY <1>3, <2>1
  <1> QED
    BY <1>1, <1>2, <1>3

\* Orders are the shop's, and what is settled stays settled.
LEMMA OrderMoves ==
  ASSUME Running!TypeOK, Running!Next
  PROVE  /\ order' \in OrderTable
         /\ \A m \in Running!Lifecycle : order[m] = "SETTLED" => order'[m] = "SETTLED"
  <1> DEFINE P == /\ order' \in OrderTable
                  /\ \A m \in Running!Lifecycle : order[m] = "SETTLED" => order'[m] = "SETTLED"
  <1>a order \in OrderTable /\ lifecycle \in LifecycleState
    BY DEF Running!TypeOK, OrderTable, LifecycleState
  <1>b \A l \in Running!Lifecycle, step \in Running!CustomerStep : order' = Running!Served(l, step) => P
    BY <1>a, ServedOrders
  <1>c UNCHANGED order => P
    BY <1>a
  <1>d lifecycle.id # 0 => lifecycle.id \in Running!Lifecycle
    BY <1>a, JobsAssumption DEF LifecycleState, Running!Lifecycle
  <1>1 ASSUME NEW step \in Running!CustomerStep, Running!Answered(step) \/ Running!StepFails(step) PROVE P
    <2>1 lifecycle.id \in Running!Lifecycle
      BY <1>1, <1>d DEF Running!Answered, Running!StepFails, Running!LifecycleAt, Running!Busy, Running!Nobody
    <2>2 order' = Running!Served(lifecycle.id, step) \/ UNCHANGED order
      BY <1>1 DEF Running!Answered, Running!StepFails, Running!RequestFails, Running!shopVars, Running!Me
    <2> QED
      BY <1>b, <1>c, <2>1, <2>2
  <1>2 ASSUME NEW l \in Running!Lifecycle, Running!OrderExpires(l) PROVE P
    BY <1>2, <1>a DEF Running!OrderExpires, OrderTable
  <1>3 ASSUME NEW l \in Running!Lifecycle, NEW step \in Running!CustomerStep, Running!LateRequestArrives(l, step) PROVE P
    BY <1>3, <1>b DEF Running!LateRequestArrives
  <1> HIDE DEF P
  <1>4 P
    BY <1>1, <1>2, <1>3, <1>c DEF Running!Next, Running!EngineStep, Running!LifecycleStep, Running!PersistsRun, Running!Ticks, Running!Checks, Running!LoadsFaultRun,
       Running!Begins, Running!Summarises, Running!Stops, Running!Drains, Running!Exits, Running!LoginFails, Running!FinishesLifecycle,
       Running!Appends, Running!StopsAppending, Running!ClosesSession, Running!FaultRunStarts, Running!FaultRunEnds, Running!shopVars
  <1> QED
    BY <1>4 DEF P

\* The steps of the script lead to steps of the script.
LEMMA FollowingSteps ==
  ASSUME NEW step \in Running!CustomerStep, step # "QUERY_FINAL_ORDER"
  PROVE  Running!Following(step) \subseteq Running!CustomerStep
  <1>1 \/ Running!Following(step) = {"BROWSE_CATALOG"} \/ Running!Following(step) = {"PRODUCT_DETAIL_READ"}
       \/ Running!Following(step) = {"CART_READ_INITIAL"} \/ Running!Following(step) = {"ADD_CART_ITEM", "CART_READ_READY"}
       \/ Running!Following(step) = {"ADDRESS_READ"}
       \/ Running!Following(step) = {"ADDRESS_CREATE", "COUPON_SELECT", "CHECKOUT"}
       \/ Running!Following(step) = {"COUPON_SELECT", "CHECKOUT"} \/ Running!Following(step) = {"CHECKOUT"}
       \/ Running!Following(step) = {"QUERY_CREATED_ORDER"} \/ Running!Following(step) = {"PAYMENT_INTENT", "QUERY_BEFORE_CANCEL"}
       \/ Running!Following(step) = {"PAYMENT_CONFIRM"} \/ Running!Following(step) = {"CANCEL_PENDING_ORDER"}
       \/ Running!Following(step) = {"QUERY_FINAL_ORDER"}
    BY DEF Running!Following, Running!CustomerStep
  <1> QED
    BY <1>1 DEF Running!CustomerStep

\* What one step of a lifecycle may do to it: it goes on, or has a result that is its own.
Advances ==
  /\ lifecycle' \in LifecycleState /\ lifecycle'.id = lifecycle.id
  /\ lifecycle'.known /\ ~ lifecycle'.retained => order'[lifecycle.id] = "SETTLED"
  /\ \/ UNCHANGED result /\ (lifecycle'.at = "CLOSING" => lifecycle.at = "CLOSING")
     \/ \E x \in ResultState :
          /\ result' = [result EXCEPT ![lifecycle.id] = x] /\ x.status # "NONE"
          /\ x.known = lifecycle'.known /\ x.retained = lifecycle'.retained

\* A lifecycle that gives up reports what has become of its order.
LEMMA GivingUp ==
  ASSUME Running!TypeOK, Running!Next, ReportsTruth, Running!Busy,
         NEW status \in {"SUCCESS", "NOOP", "FAILED", "INTERRUPTED"}, Running!GivesUp(status)
  PROVE  Advances
  <1>a lifecycle \in LifecycleState /\ lifecycle.id # 0
    BY DEF Running!TypeOK, LifecycleState, Running!Busy, Running!Nobody
  <1>b lifecycle.id \in Running!Lifecycle
    BY <1>a, JobsAssumption DEF LifecycleState, Running!Lifecycle
  <1> DEFINE x == [status |-> status, known |-> lifecycle.known, retained |-> lifecycle.retained]
  <1>1 /\ result' = [result EXCEPT ![lifecycle.id] = x]
       /\ lifecycle' = [lifecycle EXCEPT !.at = "CLOSING", !.retained = lifecycle.retained]
    BY DEF Running!GivesUp, Running!Ends, Running!Me
  <1>2 /\ lifecycle' \in LifecycleState /\ lifecycle'.id = lifecycle.id
       /\ lifecycle'.known = lifecycle.known /\ lifecycle'.retained = lifecycle.retained
    BY <1>a, <1>1 DEF LifecycleState
  <1>3 x \in ResultState /\ x.status # "NONE" /\ x.known = lifecycle.known /\ x.retained = lifecycle.retained
    BY <1>a DEF LifecycleState, ResultState
  <1>4 order[lifecycle.id] = "SETTLED" => order'[lifecycle.id] = "SETTLED"
    BY <1>b, OrderMoves
  <1> HIDE DEF x
  <1> QED
    BY <1>a, <1>1, <1>2, <1>3, <1>4 DEF Advances, ReportsTruth

\* An answer moves a lifecycle on.
LEMMA AnswerAdvances ==
  ASSUME Running!TypeOK, Running!Next, ReportsTruth, NEW step \in Running!CustomerStep, Running!Answered(step)
  PROVE  Advances
  <1>a /\ lifecycle \in LifecycleState /\ lifecycle.id # 0
       /\ order \in OrderTable
    BY DEF Running!TypeOK, LifecycleState, OrderTable, Running!Answered, Running!LifecycleAt, Running!Busy, Running!Nobody
  <1>b lifecycle.id \in Running!Lifecycle
    BY <1>a, JobsAssumption DEF LifecycleState, Running!Lifecycle
  <1>1 PICK next \in Running!Following(step) :
         LET going == [lifecycle EXCEPT !.at = next, !.known = @ \/ step = "CHECKOUT", !.retained = Running!Retained(step)]
             status == IF Running!Checked(step, next) THEN "INTERRUPTED" ELSE "FAILED" IN
         IF lifecycle.aborted
         THEN /\ lifecycle' = [going EXCEPT !.at = "CLOSING"]
              /\ result' = [result EXCEPT ![lifecycle.id] =
                   [status |-> status, known |-> going.known, retained |-> going.retained]]
         ELSE lifecycle' = going /\ UNCHANGED result
    BY DEF Running!Answered, Running!Me
  <1>2 next \in Running!CustomerStep
    BY <1>1, FollowingSteps DEF Running!Answered
  <1> DEFINE going == [lifecycle EXCEPT !.at = next, !.known = @ \/ step = "CHECKOUT", !.retained = Running!Retained(step)]
             x == [status |-> IF Running!Checked(step, next) THEN "INTERRUPTED" ELSE "FAILED",
                   known |-> going.known, retained |-> going.retained]
  <1>3 Running!Retained(step) \in BOOLEAN
    BY <1>a DEF Running!Retained, LifecycleState
  <1>4 /\ going \in LifecycleState /\ going.id = lifecycle.id /\ going.at = next
       /\ going.known = (lifecycle.known \/ step = "CHECKOUT") /\ going.retained = Running!Retained(step)
    BY <1>a, <1>2, <1>3 DEF LifecycleState
  <1>5 ASSUME going.known, ~ going.retained PROVE order'[lifecycle.id] = "SETTLED"
    <2>1 lifecycle.known /\ step # "CHECKOUT"
      BY <1>4, <1>5 DEF Running!Retained
    <2>2 CASE ~ lifecycle.retained
      BY <1>a, <1>b, <2>1, <2>2, OrderMoves DEF ReportsTruth
    <2>3 CASE Running!Effect(step) = "settles"
      <3>1 step \in {"PAYMENT_CONFIRM", "CANCEL_PENDING_ORDER"}
        BY <2>1, <2>3 DEF Running!Effect
      <3>2 order' = Running!Served(lifecycle.id, step) /\ order[lifecycle.id] = "PENDING_PAYMENT"
        BY <3>1 DEF Running!Answered, Running!Accepted, Running!Me
      <3> QED
        BY <1>a, <1>b, <3>1, <3>2, ServedOrders
    <2> QED
      BY <1>4, <1>5, <2>1, <2>2, <2>3 DEF Running!Retained
  <1>6 lifecycle' = (IF lifecycle.aborted THEN [going EXCEPT !.at = "CLOSING"] ELSE going)
    BY <1>1
  <1>7 IF lifecycle.aborted THEN result' = [result EXCEPT ![lifecycle.id] = x] ELSE UNCHANGED result
    BY <1>1
  <1>8 x \in ResultState /\ x.status # "NONE" /\ x.known = going.known /\ x.retained = going.retained
    BY <1>4 DEF ResultState, LifecycleState
  <1> HIDE DEF going, x
  <1>9 /\ lifecycle' \in LifecycleState /\ lifecycle'.id = lifecycle.id
       /\ lifecycle'.known = going.known /\ lifecycle'.retained = going.retained
    BY <1>4, <1>6 DEF LifecycleState
  <1>10 ~ lifecycle.aborted => lifecycle'.at # "CLOSING"
    BY <1>2, <1>4, <1>6 DEF Running!CustomerStep
  <1> QED
    BY <1>5, <1>7, <1>8, <1>9, <1>10 DEF Advances

\* Every step of a lifecycle moves it on or closes its session.
LEMMA LifecycleMoves ==
  ASSUME Running!TypeOK, Running!Next, ReportsTruth, Running!LifecycleStep
  PROVE  Running!ClosesSession \/ Advances
  <1>a lifecycle \in LifecycleState
    BY DEF Running!TypeOK, LifecycleState
  <1>1 ASSUME NEW step \in Running!CustomerStep, Running!StepFails(step) PROVE Advances
    BY <1>1, GivingUp DEF Running!StepFails, Running!LifecycleAt
  <1>2 ASSUME Running!LoginFails \/ Running!FinishesLifecycle PROVE Advances
    BY <1>2, GivingUp DEF Running!LoginFails, Running!FinishesLifecycle, Running!LifecycleAt
  <1>3 ASSUME UNCHANGED <<lifecycle, result>>, Running!Busy PROVE Advances
    <2>1 lifecycle.id \in Running!Lifecycle
      BY <1>3, <1>a, JobsAssumption DEF LifecycleState, Running!Lifecycle, Running!Busy, Running!Nobody
    <2>2 lifecycle.known /\ ~ lifecycle.retained => order'[lifecycle.id] = "SETTLED"
      BY <1>3, <2>1, OrderMoves DEF ReportsTruth, Running!Busy, Running!Nobody
    <2> QED
      BY <1>3, <1>a, <2>2 DEF Advances
  <1>4 ASSUME Running!Appends PROVE Advances
    <2>1 Running!Busy /\ (Running!GivesUp("SUCCESS") \/ UNCHANGED <<lifecycle, result>>)
      BY <1>4 DEF Running!Appends, Running!LifecycleAt
    <2> QED
      BY <1>3, <2>1, GivingUp
  <1>5 ASSUME Running!StopsAppending PROVE Advances
    <2>1 Running!Busy /\ (Running!GivesUp("SUCCESS") \/ Running!GivesUp("FAILED") \/ Running!GivesUp("INTERRUPTED"))
      BY <1>5 DEF Running!StopsAppending, Running!LifecycleAt
    <2> QED
      BY <2>1, GivingUp
  <1> QED
    BY <1>1, <1>2, <1>4, <1>5, AnswerAdvances DEF Running!LifecycleStep

\* The engine stays typed.
LEMMA EngineTyped ==
  ASSUME Running!TypeOK, Running!Next
  PROVE  engine' \in EngineState
  <1> DEFINE P == engine' \in EngineState
  <1> SUFFICES P
    OBVIOUS
  <1>a /\ engine \in EngineState /\ faultRun.active \in Running!Run \cup {"none"}
    BY DEF Running!TypeOK, EngineState
  <1>1 ASSUME Running!PersistsRun PROVE P
    BY <1>1, <1>a DEF Running!PersistsRun, Running!engineVars, EngineState
  <1>2 ASSUME Running!Ticks PROVE P
    BY <1>2, <1>a DEF Running!Ticks, Running!engineVars, EngineState
  <1>3 ASSUME Running!Checks PROVE P
    <2>1 engine' = [engine EXCEPT !.at = "loading"] \/ engine' = [engine EXCEPT !.at = "timer"]
      BY <1>3 DEF Running!Checks
    <2> QED
      BY <1>a, <2>1 DEF EngineState
  <1>4 ASSUME Running!LoadsFaultRun PROVE P
    BY <1>4, <1>a DEF Running!LoadsFaultRun, Running!engineVars, EngineState
  <1>5 ASSUME Running!Begins PROVE P
    <2>1 engine.started + 1 \in Running!Lifecycle => engine.started + 1 \in 0..MaxLifecycles
      BY JobsAssumption DEF Running!Lifecycle
    <2>2 \/ engine' = [engine EXCEPT !.at = "timer"]
         \/ /\ engine.started + 1 \in Running!Lifecycle
            /\ \E done \in BOOLEAN :
                 engine' = [engine EXCEPT !.at = "lifecycle", !.started = engine.started + 1, !.storageDone = done]
      <3>1 engine.storageDone \in BOOLEAN
        BY <1>a DEF EngineState
      <3>2 (engine.loaded = "storage" /\ engine.storageDone) \in BOOLEAN
        BY <3>1
      <3> QED
        BY <1>5, <3>2 DEF Running!Begins
    <2> QED
      BY <1>a, <2>1, <2>2 DEF EngineState
  <1>6 ASSUME Running!Summarises PROVE P
    BY <1>6, <1>a DEF Running!Summarises, Running!engineVars, EngineState
  <1>7 ASSUME Running!Stops PROVE P
    BY <1>7, <1>a DEF Running!Stops, Running!engineVars, EngineState
  <1>8 ASSUME Running!Drains PROVE P
    BY <1>8, <1>a DEF Running!Drains, Running!engineVars, EngineState
  <1>9 ASSUME Running!Exits PROVE P
    BY <1>9, <1>a DEF Running!Exits, Running!engineVars, EngineState
  <1>10 ASSUME NEW step \in Running!CustomerStep, Running!Answered(step) PROVE P
    BY <1>10, <1>a DEF Running!Answered, Running!engineVars, EngineState
  <1>11 ASSUME NEW step \in Running!CustomerStep, Running!StepFails(step) PROVE P
    BY <1>11, <1>a DEF Running!StepFails, Running!engineVars, EngineState
  <1>12 ASSUME Running!LoginFails PROVE P
    BY <1>12, <1>a DEF Running!LoginFails, Running!engineVars, EngineState
  <1>13 ASSUME Running!FinishesLifecycle PROVE P
    BY <1>13, <1>a DEF Running!FinishesLifecycle, Running!engineVars, EngineState
  <1>14 ASSUME Running!Appends PROVE P
    BY <1>14, <1>a DEF Running!Appends, Running!engineVars, EngineState
  <1>15 ASSUME Running!StopsAppending PROVE P
    BY <1>15, <1>a DEF Running!StopsAppending, Running!engineVars, EngineState
  <1>16 ASSUME Running!ClosesSession PROVE P
    BY <1>16, <1>a DEF Running!ClosesSession, Running!engineVars, EngineState
  <1>17 ASSUME NEW r \in Running!Run, Running!FaultRunStarts(r) PROVE P
    BY <1>17, <1>a DEF Running!FaultRunStarts, Running!engineVars, EngineState
  <1>18 ASSUME NEW r \in Running!Run, Running!FaultRunEnds(r) PROVE P
    BY <1>18, <1>a DEF Running!FaultRunEnds, Running!engineVars, EngineState
  <1>19 ASSUME NEW l \in Running!Lifecycle, Running!OrderExpires(l) PROVE P
    BY <1>19, <1>a DEF Running!OrderExpires, Running!engineVars, EngineState
  <1>20 ASSUME NEW l \in Running!Lifecycle, NEW step \in Running!CustomerStep, Running!LateRequestArrives(l, step) PROVE P
    BY <1>20, <1>a DEF Running!LateRequestArrives, Running!engineVars, EngineState
  <1> HIDE DEF P
  <1> QED
    BY <1>1, <1>2, <1>3, <1>4, <1>5, <1>6, <1>7, <1>8, <1>9, <1>10, <1>11, <1>12, <1>13, <1>14, <1>15, <1>16, <1>17, <1>18, <1>19, <1>20 DEF Running!Next, Running!EngineStep, Running!LifecycleStep


\* The shutdown and the traffic run stay typed.
LEMMA ShutdownTyped ==
  ASSUME Running!TypeOK, Running!Next
  PROVE  (/\ shutdown \in [at : {"no", "draining", "completing", "exited"}, begun : 0..MaxLifecycles]
          /\ trafficRun \in [status : {"NONE", "RUNNING", "COMPLETED"}, persisted : BOOLEAN])'
  <1> DEFINE P == (/\ shutdown \in [at : {"no", "draining", "completing", "exited"}, begun : 0..MaxLifecycles]
                   /\ trafficRun \in [status : {"NONE", "RUNNING", "COMPLETED"}, persisted : BOOLEAN])'
  <1> SUFFICES P
    OBVIOUS
  <1>a /\ shutdown \in [at : {"no", "draining", "completing", "exited"}, begun : 0..MaxLifecycles]
       /\ trafficRun \in [status : {"NONE", "RUNNING", "COMPLETED"}, persisted : BOOLEAN]
       /\ engine.started \in 0..MaxLifecycles
    BY DEF Running!TypeOK
  <1>1 ASSUME Running!PersistsRun PROVE P
    <2>1 /\ UNCHANGED shutdown
         /\ \/ trafficRun' = [persisted |-> TRUE, status |-> "RUNNING"]
            \/ trafficRun' = [trafficRun EXCEPT !.persisted = TRUE]
      BY <1>1 DEF Running!PersistsRun
    <2>2 [persisted |-> TRUE, status |-> "RUNNING"]
           \in [status : {"NONE", "RUNNING", "COMPLETED"}, persisted : BOOLEAN]
      OBVIOUS
    <2>3 [trafficRun EXCEPT !.persisted = TRUE]
           \in [status : {"NONE", "RUNNING", "COMPLETED"}, persisted : BOOLEAN]
      BY <1>a
    <2> QED
      BY <1>a, <2>1, <2>2, <2>3
  <1>2 ASSUME Running!Ticks PROVE P
    BY <1>2, <1>a DEF Running!Ticks, Running!engineVars
  <1>3 ASSUME Running!Checks PROVE P
    BY <1>3, <1>a DEF Running!Checks, Running!engineVars
  <1>4 ASSUME Running!LoadsFaultRun PROVE P
    BY <1>4, <1>a DEF Running!LoadsFaultRun, Running!engineVars
  <1>5 ASSUME Running!Begins PROVE P
    BY <1>5, <1>a DEF Running!Begins, Running!engineVars
  <1>6 ASSUME Running!Summarises PROVE P
    BY <1>6, <1>a DEF Running!Summarises, Running!engineVars
  <1>7 ASSUME Running!Stops PROVE P
    BY <1>7, <1>a DEF Running!Stops, Running!engineVars
  <1>8 ASSUME Running!Drains PROVE P
    BY <1>8, <1>a DEF Running!Drains, Running!engineVars
  <1>9 ASSUME Running!Exits PROVE P
    BY <1>9, <1>a DEF Running!Exits, Running!engineVars
  <1>10 ASSUME NEW step \in Running!CustomerStep, Running!Answered(step) PROVE P
    BY <1>10, <1>a DEF Running!Answered, Running!engineVars
  <1>11 ASSUME NEW step \in Running!CustomerStep, Running!StepFails(step) PROVE P
    BY <1>11, <1>a DEF Running!StepFails, Running!engineVars
  <1>12 ASSUME Running!LoginFails PROVE P
    BY <1>12, <1>a DEF Running!LoginFails, Running!engineVars
  <1>13 ASSUME Running!FinishesLifecycle PROVE P
    BY <1>13, <1>a DEF Running!FinishesLifecycle, Running!engineVars
  <1>14 ASSUME Running!Appends PROVE P
    BY <1>14, <1>a DEF Running!Appends, Running!engineVars
  <1>15 ASSUME Running!StopsAppending PROVE P
    BY <1>15, <1>a DEF Running!StopsAppending, Running!engineVars
  <1>16 ASSUME Running!ClosesSession PROVE P
    BY <1>16, <1>a DEF Running!ClosesSession, Running!engineVars
  <1>17 ASSUME NEW r \in Running!Run, Running!FaultRunStarts(r) PROVE P
    BY <1>17, <1>a DEF Running!FaultRunStarts, Running!engineVars
  <1>18 ASSUME NEW r \in Running!Run, Running!FaultRunEnds(r) PROVE P
    BY <1>18, <1>a DEF Running!FaultRunEnds, Running!engineVars
  <1>19 ASSUME NEW l \in Running!Lifecycle, Running!OrderExpires(l) PROVE P
    BY <1>19, <1>a DEF Running!OrderExpires, Running!engineVars
  <1>20 ASSUME NEW l \in Running!Lifecycle, NEW step \in Running!CustomerStep, Running!LateRequestArrives(l, step) PROVE P
    BY <1>20, <1>a DEF Running!LateRequestArrives, Running!engineVars
  <1> HIDE DEF P
  <1> QED
    BY <1>1, <1>2, <1>3, <1>4, <1>5, <1>6, <1>7, <1>8, <1>9, <1>10, <1>11, <1>12, <1>13, <1>14, <1>15, <1>16, <1>17, <1>18, <1>19, <1>20 DEF Running!Next, Running!EngineStep, Running!LifecycleStep


\* The fault run that the engine sees stays typed, and an ended one is not active.
LEMMA FaultRunTyped ==
  ASSUME Running!TypeOK, Running!Next
  PROVE  (/\ faultRun \in [active : Running!Run \cup {"none"}, over : SUBSET Running!Run, appended : 0..StorageTarget]
          /\ faultRun.active \notin faultRun.over)'
  <1> DEFINE F == [active : {"storage", "heap", "none"}, over : SUBSET {"storage", "heap"}, appended : 0..StorageTarget]
             P == faultRun' \in F /\ faultRun'.active \notin faultRun'.over
  <1> SUFFICES P
    BY DEF Running!Run
  <1>a faultRun \in F /\ faultRun.active \notin faultRun.over
    BY DEF Running!TypeOK, Running!Run
  <1>b UNCHANGED faultRun => P
    BY <1>a
  <1>c \A r \in {"storage", "heap"} : faultRun' = Running!EndedBy(faultRun, r) => P
    <2> SUFFICES ASSUME NEW r \in {"storage", "heap"}, faultRun' = Running!EndedBy(faultRun, r)
                 PROVE  P
      OBVIOUS
    <2>1 CASE faultRun.active # r
      BY <1>b, <2>1 DEF Running!EndedBy
    <2>2 CASE faultRun.active = r
      <3>1 faultRun' = [faultRun EXCEPT !.active = "none", !.over = @ \cup {r}]
        BY <2>2 DEF Running!EndedBy
      <3>2 faultRun' \in F /\ faultRun'.active = "none" /\ faultRun'.over = faultRun.over \cup {r}
        BY <1>a, <3>1
      <3>3 "none" \notin faultRun.over
        BY <1>a
      <3> QED
        BY <3>2, <3>3
    <2> QED
      BY <2>1, <2>2
  <1>d faultRun' = Running!Grown => P
    BY <1>a, JobsAssumption DEF Running!Grown
  <1> HIDE DEF F
  <1>1 ASSUME Running!PersistsRun PROVE P
    BY <1>1, <1>b DEF Running!PersistsRun
  <1>2 ASSUME Running!Ticks PROVE P
    BY <1>2, <1>b DEF Running!Ticks
  <1>3 ASSUME Running!Checks PROVE P
    BY <1>3, <1>b DEF Running!Checks
  <1>4 ASSUME Running!LoadsFaultRun PROVE P
    BY <1>4, <1>b DEF Running!LoadsFaultRun
  <1>5 ASSUME Running!Begins PROVE P
    BY <1>5, <1>b DEF Running!Begins
  <1>6 ASSUME Running!Summarises PROVE P
    BY <1>6, <1>b, <1>c DEF Running!Summarises
  <1>7 ASSUME Running!Stops PROVE P
    BY <1>7, <1>b DEF Running!Stops
  <1>8 ASSUME Running!Drains PROVE P
    BY <1>8, <1>b DEF Running!Drains
  <1>9 ASSUME Running!Exits PROVE P
    BY <1>9, <1>b DEF Running!Exits
  <1>10 ASSUME NEW step \in Running!CustomerStep, Running!Answered(step) PROVE P
    BY <1>10, <1>b DEF Running!Answered
  <1>11 ASSUME NEW step \in Running!CustomerStep, Running!StepFails(step) PROVE P
    BY <1>11, <1>b DEF Running!StepFails
  <1>12 ASSUME Running!LoginFails PROVE P
    BY <1>12, <1>b DEF Running!LoginFails
  <1>13 ASSUME Running!FinishesLifecycle PROVE P
    BY <1>13, <1>b DEF Running!FinishesLifecycle
  <1>14 ASSUME Running!Appends PROVE P
    BY <1>14, <1>d DEF Running!Appends
  <1>15 ASSUME Running!StopsAppending PROVE P
    BY <1>15, <1>b, <1>d DEF Running!StopsAppending
  <1>16 ASSUME Running!ClosesSession PROVE P
    BY <1>16, <1>b DEF Running!ClosesSession
  <1>17 ASSUME NEW r \in Running!Run, Running!FaultRunStarts(r) PROVE P
    BY <1>17, <1>a DEF Running!FaultRunStarts, Running!Run, F
  <1>18 ASSUME NEW r \in Running!Run, Running!FaultRunEnds(r) PROVE P
    BY <1>18, <1>c DEF Running!FaultRunEnds, Running!Run
  <1>19 ASSUME NEW l \in Running!Lifecycle, Running!OrderExpires(l) PROVE P
    BY <1>19, <1>b DEF Running!OrderExpires
  <1>20 ASSUME NEW l \in Running!Lifecycle, NEW step \in Running!CustomerStep, Running!LateRequestArrives(l, step) PROVE P
    BY <1>20, <1>b DEF Running!LateRequestArrives
  <1> HIDE DEF P
  <1> QED
    BY <1>1, <1>2, <1>3, <1>4, <1>5, <1>6, <1>7, <1>8, <1>9, <1>10, <1>11, <1>12, <1>13, <1>14, <1>15, <1>16, <1>17, <1>18, <1>19, <1>20 DEF Running!Next, Running!EngineStep, Running!LifecycleStep


\* Late requests and the count of failures stay typed.
LEMMA RequestsTyped ==
  ASSUME Running!TypeOK, Running!Next
  PROVE  (/\ lateRequests \subseteq Running!Lifecycle \X {"CHECKOUT", "PAYMENT_CONFIRM", "CANCEL_PENDING_ORDER"}
          /\ engineFailures \in 0..1)'
  <1> DEFINE L == Running!Lifecycle \X {"CHECKOUT", "PAYMENT_CONFIRM", "CANCEL_PENDING_ORDER"}
             P == (lateRequests \subseteq L /\ engineFailures \in 0..1)'
  <1> SUFFICES P
    BY DEF Running!Lifecycle
  <1>a lateRequests \subseteq L /\ engineFailures \in 0..1
    BY DEF Running!TypeOK
  <1>b UNCHANGED engineFailures \/ Running!Fails => engineFailures' \in 0..1
    BY <1>a DEF Running!Fails
  <1>c ASSUME NEW step \in Running!CustomerStep, Running!StepFails(step) PROVE P
    <2>1 lifecycle.id \in 0..MaxLifecycles /\ lifecycle.id # 0
      BY <1>c DEF Running!TypeOK, Running!StepFails, Running!LifecycleAt, Running!Busy, Running!Nobody
    <2>2 lifecycle.id \in Running!Lifecycle
      BY <2>1, JobsAssumption DEF Running!Lifecycle
    <2>3 Running!Effect(step) # "none" => step \in {"CHECKOUT", "PAYMENT_CONFIRM", "CANCEL_PENDING_ORDER"}
      BY DEF Running!Effect
    <2>4 UNCHANGED engineFailures
         /\ \/ UNCHANGED lateRequests
            \/ Running!Effect(step) # "none" /\ lateRequests' = lateRequests \cup {<<lifecycle.id, step>>}
      BY <1>c DEF Running!StepFails, Running!RequestFails, Running!shopVars, Running!Me
    <2>5 lateRequests' \subseteq L
      BY <1>a, <2>2, <2>3, <2>4
    <2> QED
      BY <1>a, <2>4, <2>5 DEF Running!Lifecycle
  <1>d L' = L
    BY DEF Running!Lifecycle
  <1> HIDE DEF L
  <1>1 ASSUME Running!PersistsRun PROVE P
    BY <1>1, <1>a, <1>b, <1>d DEF Running!PersistsRun, Running!shopVars
  <1>2 ASSUME Running!Ticks PROVE P
    BY <1>2, <1>a, <1>b, <1>d DEF Running!Ticks, Running!shopVars
  <1>3 ASSUME Running!Checks PROVE P
    BY <1>3, <1>a, <1>b, <1>d DEF Running!Checks, Running!shopVars
  <1>4 ASSUME Running!LoadsFaultRun PROVE P
    BY <1>4, <1>a, <1>b, <1>d DEF Running!LoadsFaultRun, Running!shopVars
  <1>5 ASSUME Running!Begins PROVE P
    BY <1>5, <1>a, <1>b, <1>d DEF Running!Begins, Running!shopVars
  <1>6 ASSUME Running!Summarises PROVE P
    BY <1>6, <1>a, <1>b, <1>d DEF Running!Summarises, Running!shopVars
  <1>7 ASSUME Running!Stops PROVE P
    BY <1>7, <1>a, <1>b, <1>d DEF Running!Stops, Running!shopVars
  <1>8 ASSUME Running!Drains PROVE P
    BY <1>8, <1>a, <1>b, <1>d DEF Running!Drains, Running!shopVars
  <1>9 ASSUME Running!Exits PROVE P
    BY <1>9, <1>a, <1>b, <1>d DEF Running!Exits, Running!shopVars
  <1>10 ASSUME NEW step \in Running!CustomerStep, Running!Answered(step) PROVE P
    BY <1>10, <1>a, <1>b, <1>d DEF Running!Answered, Running!shopVars
  <1>11 ASSUME NEW step \in Running!CustomerStep, Running!StepFails(step) PROVE P
    BY <1>11, <1>c
  <1>12 ASSUME Running!LoginFails PROVE P
    BY <1>12, <1>a, <1>b, <1>d DEF Running!LoginFails, Running!shopVars
  <1>13 ASSUME Running!FinishesLifecycle PROVE P
    BY <1>13, <1>a, <1>b, <1>d DEF Running!FinishesLifecycle, Running!shopVars
  <1>14 ASSUME Running!Appends PROVE P
    BY <1>14, <1>a, <1>b, <1>d DEF Running!Appends, Running!shopVars
  <1>15 ASSUME Running!StopsAppending PROVE P
    BY <1>15, <1>a, <1>b, <1>d DEF Running!StopsAppending, Running!shopVars
  <1>16 ASSUME Running!ClosesSession PROVE P
    BY <1>16, <1>a, <1>b, <1>d DEF Running!ClosesSession, Running!shopVars
  <1>17 ASSUME NEW r \in Running!Run, Running!FaultRunStarts(r) PROVE P
    BY <1>17, <1>a, <1>b, <1>d DEF Running!FaultRunStarts, Running!shopVars
  <1>18 ASSUME NEW r \in Running!Run, Running!FaultRunEnds(r) PROVE P
    BY <1>18, <1>a, <1>b, <1>d DEF Running!FaultRunEnds, Running!shopVars
  <1>19 ASSUME NEW l \in Running!Lifecycle, Running!OrderExpires(l) PROVE P
    BY <1>19, <1>a, <1>b, <1>d DEF Running!OrderExpires, Running!shopVars
  <1>20 ASSUME NEW l \in Running!Lifecycle, NEW step \in Running!CustomerStep, Running!LateRequestArrives(l, step) PROVE P
    BY <1>20, <1>a, <1>b, <1>d DEF Running!LateRequestArrives, Running!shopVars
  <1> HIDE DEF P
  <1> QED
    BY <1>1, <1>2, <1>3, <1>4, <1>5, <1>6, <1>7, <1>8, <1>9, <1>10, <1>11, <1>12, <1>13, <1>14, <1>15, <1>16, <1>17, <1>18, <1>19, <1>20 DEF Running!Next, Running!EngineStep, Running!LifecycleStep

\* What remains to be shown of a step, once the types of the engine are.
RunnerRest ==
  /\ lifecycle \in LifecycleState /\ result \in ResultTable
  /\ lifecycle.id # 0 <=> engine.at = "lifecycle"
  /\ Running!SettledWhenSaid /\ ReportsTruth /\ OthersHaveEnded /\ DrainedBefore

\* What the invariant says of the tables.
LEMMA RunnerFacts ==
  ASSUME RunnerInv
  PROVE  /\ lifecycle \in LifecycleState /\ result \in ResultTable /\ order \in OrderTable
         /\ lifecycle.id # 0 <=> engine.at = "lifecycle"
         /\ engine \in EngineState /\ shutdown.begun \in 0..MaxLifecycles
         /\ Running!SettledWhenSaid /\ ReportsTruth /\ OthersHaveEnded /\ DrainedBefore
         /\ Running!TypeOK
         /\ lifecycle.id # 0 => lifecycle.id \in Running!Lifecycle
  <1>1 /\ lifecycle \in LifecycleState /\ result \in ResultTable /\ order \in OrderTable
       /\ lifecycle.id # 0 <=> engine.at = "lifecycle"
       /\ engine \in EngineState /\ shutdown.begun \in 0..MaxLifecycles
    BY DEF RunnerInv, Running!TypeOK, LifecycleState, ResultTable, ResultState, OrderTable, EngineState, Running!Nobody
  <1>2 lifecycle.id # 0 => lifecycle.id \in Running!Lifecycle
    BY <1>1, JobsAssumption DEF LifecycleState, Running!Lifecycle
  <1> QED
    BY <1>1, <1>2 DEF RunnerInv

\* Steps of the lifecycle keep the invariant.
LEMMA LifecyclePart ==
  ASSUME RunnerInv, Running!Next, Running!LifecycleStep
  PROVE  RunnerRest'
  <1>a /\ lifecycle \in LifecycleState /\ result \in ResultTable /\ order \in OrderTable
       /\ lifecycle.id # 0 <=> engine.at = "lifecycle"
       /\ Running!SettledWhenSaid /\ ReportsTruth /\ OthersHaveEnded /\ DrainedBefore
       /\ Running!TypeOK
       /\ lifecycle.id # 0 => lifecycle.id \in Running!Lifecycle
    BY RunnerFacts
  <1>b lifecycle.id # 0
    BY DEF Running!LifecycleStep, Running!Answered, Running!StepFails, Running!LoginFails, Running!FinishesLifecycle,
       Running!Appends, Running!StopsAppending, Running!ClosesSession, Running!LifecycleAt, Running!Busy, Running!Nobody
  <1>c /\ UNCHANGED <<shutdown, trafficRun>> /\ engine'.started = engine.started
       /\ engine'.at = IF Running!ClosesSession THEN "ended" ELSE engine.at
    <2>1 engine \in EngineState
      BY RunnerFacts
    <2>2 CASE Running!ClosesSession
      BY <2>1, <2>2 DEF Running!ClosesSession, EngineState
    <2>3 CASE ~ Running!ClosesSession
      <3>1 /\ UNCHANGED <<shutdown, trafficRun>>
           /\ engine' = engine \/ engine' = [engine EXCEPT !.storageDone = TRUE]
        BY <2>3 DEF Running!LifecycleStep, Running!Answered, Running!StepFails, Running!LoginFails, Running!FinishesLifecycle,
           Running!Appends, Running!StopsAppending, Running!engineVars
      <3> QED
        BY <2>1, <2>3, <3>1 DEF EngineState
    <2> QED
      BY <2>2, <2>3
  <1>d \A m \in Running!Lifecycle : order[m] = "SETTLED" => order'[m] = "SETTLED"
    BY <1>a, OrderMoves
  <1>e 1..engine.started \subseteq Running!Lifecycle /\ lifecycle.id \in 1..engine.started
    <2>1 engine.started \in 0..MaxLifecycles /\ lifecycle.id = engine.started
      BY <1>a, <1>b, RunnerFacts DEF EngineState, OthersHaveEnded
    <2> QED
      BY <1>b, <2>1, JobsAssumption DEF Running!Lifecycle
  <1>1 CASE Running!ClosesSession
    <2>1 lifecycle' = Running!Resting /\ lifecycle.at = "CLOSING" /\ UNCHANGED <<result, order>>
      BY <1>1 DEF Running!ClosesSession, Running!LifecycleAt, Running!shopVars
    <2>2 Running!Resting \in LifecycleState /\ Running!Resting.id = 0 /\ Running!Resting.at = "NONE"
      BY JobsAssumption DEF Running!Resting, Running!Nobody, LifecycleState
    <2>3 lifecycle'.id = 0 /\ lifecycle' \in LifecycleState
      BY <2>1, <2>2
    <2>4 OthersHaveEnded'
      BY <1>a, <1>c, <2>1, <2>3 DEF OthersHaveEnded
    <2>5 DrainedBefore'
      BY <1>a, <1>c, <2>3 DEF DrainedBefore
    <2> QED
      BY <1>a, <1>c, <1>1, <2>1, <2>3, <2>4, <2>5 DEF RunnerRest, Running!SettledWhenSaid, ReportsTruth
  <1>2 CASE ~ Running!ClosesSession
    <2>1 Advances
      BY <1>a, <1>2, LifecycleMoves
    <2>2 /\ lifecycle' \in LifecycleState /\ lifecycle'.id = lifecycle.id
         /\ lifecycle'.known /\ ~ lifecycle'.retained => order'[lifecycle.id] = "SETTLED"
      BY <2>1 DEF Advances
    <2>3 DrainedBefore' /\ ReportsTruth' /\ (lifecycle'.id # 0 <=> engine'.at = "lifecycle")
      BY <1>a, <1>b, <1>c, <1>2, <2>2 DEF DrainedBefore, ReportsTruth
    <2>4 CASE UNCHANGED result /\ (lifecycle'.at = "CLOSING" => lifecycle.at = "CLOSING")
      <3>1 OthersHaveEnded'
        BY <1>a, <1>c, <2>2, <2>4 DEF OthersHaveEnded
      <3>2 Running!SettledWhenSaid'
        BY <1>a, <1>d, <2>4 DEF Running!SettledWhenSaid, Running!Lifecycle
      <3> QED
        BY <1>a, <2>2, <2>3, <2>4, <3>1, <3>2 DEF RunnerRest
    <2>5 CASE \E x \in ResultState :
                /\ result' = [result EXCEPT ![lifecycle.id] = x] /\ x.status # "NONE"
                /\ x.known = lifecycle'.known /\ x.retained = lifecycle'.retained
      <3>1 PICK x \in ResultState :
             /\ result' = [result EXCEPT ![lifecycle.id] = x] /\ x.status # "NONE"
             /\ x.known = lifecycle'.known /\ x.retained = lifecycle'.retained
        BY <2>5
      <3>2 \A l \in Running!Lifecycle : result'[l] = IF l = lifecycle.id THEN x ELSE result[l]
        BY <1>a, <3>1 DEF ResultTable
      <3>3 result' \in ResultTable
        BY <1>a, <3>1 DEF ResultTable
      <3>4 OthersHaveEnded'
        BY <1>a, <1>c, <1>e, <2>2, <3>1, <3>2 DEF OthersHaveEnded
      <3>5 Running!SettledWhenSaid'
        BY <1>a, <1>d, <2>2, <3>1, <3>2 DEF Running!SettledWhenSaid, Running!Lifecycle
      <3> QED
        BY <2>2, <2>3, <3>3, <3>4, <3>5 DEF RunnerRest
    <2> QED
      BY <2>1, <2>4, <2>5 DEF Advances
  <1> QED
    BY <1>1, <1>2

\* Steps of the engine keep the invariant.
LEMMA EnginePart ==
  ASSUME RunnerInv, Running!Next, Running!EngineStep
  PROVE  RunnerRest'
  <1>a /\ lifecycle \in LifecycleState /\ result \in ResultTable /\ order \in OrderTable
       /\ lifecycle.id # 0 <=> engine.at = "lifecycle"
       /\ engine \in EngineState /\ shutdown.begun \in 0..MaxLifecycles
       /\ Running!SettledWhenSaid /\ ReportsTruth /\ OthersHaveEnded /\ DrainedBefore
       /\ shutdown \in [at : {"no", "draining", "completing", "exited"}, begun : 0..MaxLifecycles]
       /\ trafficRun \in [status : {"NONE", "RUNNING", "COMPLETED"}, persisted : BOOLEAN]
    BY RunnerFacts DEF Running!TypeOK
  <1>b UNCHANGED <<result, order>>
    BY DEF Running!EngineStep, Running!PersistsRun, Running!Ticks, Running!Checks, Running!LoadsFaultRun, Running!Begins, Running!Summarises, Running!Stops, Running!Drains, Running!Exits, Running!shopVars
  <1>c Running!SettledWhenSaid'
    BY <1>a, <1>b DEF Running!SettledWhenSaid
  <1>1 ASSUME UNCHANGED lifecycle, UNCHANGED shutdown, UNCHANGED trafficRun,
              engine'.started = engine.started, engine'.at = engine.at \/ (engine.at # "lifecycle" /\ engine'.at # "lifecycle")
       PROVE  RunnerRest'
    BY <1>1, <1>a, <1>b, <1>c DEF RunnerRest, ReportsTruth, OthersHaveEnded, DrainedBefore
  <1>2 CASE Running!Ticks \/ Running!Checks \/ Running!LoadsFaultRun \/ Running!Summarises
    <2>1 /\ UNCHANGED <<lifecycle, shutdown, trafficRun>> /\ engine.at # "lifecycle"
         /\ \/ engine' = [engine EXCEPT !.at = "reading"] \/ engine' = [engine EXCEPT !.at = "loading"]
            \/ engine' = [engine EXCEPT !.at = "timer"]
            \/ engine' = [engine EXCEPT !.at = "loaded", !.loaded = faultRun.active]
      <3>1 CASE Running!Ticks
        BY <3>1 DEF Running!Ticks, Running!EngineAt
      <3>2 CASE Running!Checks
        BY <3>2 DEF Running!Checks, Running!EngineAt
      <3>3 CASE Running!LoadsFaultRun
        BY <3>3 DEF Running!LoadsFaultRun, Running!EngineAt
      <3>4 CASE Running!Summarises
        BY <3>4 DEF Running!Summarises, Running!EngineAt
      <3> QED
        BY <1>2, <3>1, <3>2, <3>3, <3>4
    <2>2 engine'.started = engine.started /\ engine'.at # "lifecycle"
      BY <1>a, <2>1 DEF EngineState
    <2> QED
      BY <1>1, <2>1, <2>2
  <1>3 CASE Running!PersistsRun
    <2>1 /\ UNCHANGED <<engine, lifecycle, shutdown>> /\ shutdown.at # "exited"
         /\ \/ trafficRun' = [persisted |-> TRUE, status |-> "RUNNING"]
            \/ trafficRun' = [trafficRun EXCEPT !.persisted = TRUE]
      BY <1>3 DEF Running!PersistsRun, Running!Alive
    <2>2 trafficRun'.status # "COMPLETED"
      BY <1>a, <2>1 DEF DrainedBefore
    <2> QED
      BY <1>a, <1>b, <1>c, <2>1, <2>2 DEF RunnerRest, ReportsTruth, OthersHaveEnded, DrainedBefore
  <1>4 CASE Running!Begins
    <2>a engine.at = "loaded" /\ UNCHANGED <<shutdown, trafficRun>>
      BY <1>4 DEF Running!Begins, Running!EngineAt
    <2>1 CASE engine' = [engine EXCEPT !.at = "timer"] /\ UNCHANGED lifecycle
      <3>1 engine'.started = engine.started /\ engine'.at # "lifecycle"
        BY <1>a, <2>1 DEF EngineState
      <3> QED
        BY <1>1, <2>a, <2>1, <3>1
    <2>2 CASE ~ (engine' = [engine EXCEPT !.at = "timer"] /\ UNCHANGED lifecycle)
      <3>1 /\ engine.started + 1 \in Running!Lifecycle
           /\ engine' = [engine EXCEPT !.at = "lifecycle", !.started = engine.started + 1,
                                       !.storageDone = engine.loaded = "storage" /\ @]
           /\ \E first_step \in {"APPEND", "LOGIN"} :
                lifecycle' = [Running!Resting EXCEPT !.id = engine.started + 1, !.at = first_step]
        BY <1>4, <2>2 DEF Running!Begins
      <3>2 engine'.started = engine.started + 1 /\ engine'.at = "lifecycle"
        BY <1>a, <3>1 DEF EngineState
      <3>3 /\ lifecycle'.id = engine.started + 1 /\ ~ lifecycle'.known /\ lifecycle'.at # "CLOSING"
           /\ lifecycle' \in LifecycleState
        <4>1 PICK first_step \in {"APPEND", "LOGIN"} :
               lifecycle' = [Running!Resting EXCEPT !.id = engine.started + 1, !.at = first_step]
          BY <3>1
        <4>2 engine.started + 1 \in 0..MaxLifecycles
          BY <3>1, JobsAssumption DEF Running!Lifecycle
        <4> QED
          BY <4>1, <4>2 DEF Running!Resting, LifecycleState, Running!CustomerStep
      <3>4 engine.started \in 0..MaxLifecycles /\ engine.started + 1 # 0
        BY <1>a, JobsAssumption DEF EngineState
      <3>5 OthersHaveEnded'
        <4>1 \A l \in 1..engine.started : result[l].status # "NONE"
          BY <1>a, <2>a, <3>4 DEF OthersHaveEnded
        <4>2 \A l \in 1..engine.started + 1 : l # engine.started + 1 => l \in 1..engine.started
          BY <3>4
        <4> QED
          BY <1>b, <3>2, <3>3, <4>1, <4>2 DEF OthersHaveEnded
      <3>6 DrainedBefore'
        BY <1>a, <2>a, <3>2, <3>3, <3>4 DEF DrainedBefore
      <3> QED
        BY <1>a, <1>b, <1>c, <3>2, <3>3, <3>4, <3>5, <3>6 DEF RunnerRest, ReportsTruth
    <2> QED
      BY <2>1, <2>2
  <1>5 CASE Running!Stops
    <2>1 /\ shutdown' = [at |-> "draining", begun |-> engine.started] /\ UNCHANGED trafficRun
         /\ engine' = [engine EXCEPT !.running = FALSE]
         /\ lifecycle' = [lifecycle EXCEPT !.aborted = lifecycle.id # 0]
         /\ shutdown.at = "no"
      BY <1>5 DEF Running!Stops, Running!Nobody
    <2>2 engine'.started = engine.started /\ engine'.at = engine.at
      BY <1>a, <2>1 DEF EngineState
    <2>3 /\ lifecycle' \in LifecycleState /\ lifecycle'.id = lifecycle.id /\ lifecycle'.at = lifecycle.at
         /\ lifecycle'.known = lifecycle.known /\ lifecycle'.retained = lifecycle.retained
      BY <1>a, <2>1 DEF LifecycleState
    <2>4 shutdown'.begun = engine.started /\ shutdown'.at = "draining" /\ engine.started <= engine.started
      BY <1>a, <2>1 DEF EngineState
    <2>5 DrainedBefore'
      BY <1>a, <2>1, <2>2, <2>4 DEF DrainedBefore
    <2>6 OthersHaveEnded' /\ ReportsTruth'
      BY <1>a, <1>b, <2>2, <2>3 DEF OthersHaveEnded, ReportsTruth
    <2> QED
      BY <1>a, <1>b, <1>c, <2>2, <2>3, <2>5, <2>6 DEF RunnerRest
  <1>6 CASE Running!Drains \/ Running!Exits
    <2>1 /\ UNCHANGED <<engine, lifecycle>>
         /\ \/ /\ shutdown' = [shutdown EXCEPT !.at = "completing"] /\ UNCHANGED trafficRun
               /\ lifecycle.id = 0 \/ lifecycle.id > shutdown.begun
               /\ shutdown.at = "draining"
            \/ shutdown' = [shutdown EXCEPT !.at = "exited"] /\ shutdown.at = "completing"
      <3>1 CASE Running!Drains
        BY <3>1 DEF Running!Drains, Running!Nobody
      <3>2 CASE Running!Exits
        BY <3>2 DEF Running!Exits
      <3> QED
        BY <1>6, <3>1, <3>2
    <2>2 shutdown'.begun = shutdown.begun /\ shutdown'.at \in {"completing", "exited"}
      BY <1>a, <2>1
    <2>3 DrainedBefore'
      BY <1>a, <2>1, <2>2 DEF DrainedBefore
    <2> QED
      BY <1>a, <1>b, <1>c, <2>1, <2>3 DEF RunnerRest, ReportsTruth, OthersHaveEnded
  <1> QED
    BY <1>2, <1>3, <1>4, <1>5, <1>6 DEF Running!EngineStep

\* Late requests and fault runs keep the invariant.
LEMMA ShopPart ==
  ASSUME RunnerInv, Running!Next, ~ Running!EngineStep, ~ Running!LifecycleStep
  PROVE  RunnerRest'
  <1>a /\ lifecycle \in LifecycleState /\ result \in ResultTable
       /\ lifecycle.id # 0 <=> engine.at = "lifecycle"
       /\ Running!SettledWhenSaid /\ ReportsTruth /\ OthersHaveEnded /\ DrainedBefore
       /\ Running!TypeOK
       /\ lifecycle.id # 0 => lifecycle.id \in Running!Lifecycle
    BY RunnerFacts
  <1>1 UNCHANGED <<lifecycle, result, engine, shutdown, trafficRun>>
    BY DEF Running!Next, Running!FaultRunStarts, Running!FaultRunEnds, Running!OrderExpires, Running!LateRequestArrives, Running!engineVars
  <1>2 \A m \in Running!Lifecycle : order[m] = "SETTLED" => order'[m] = "SETTLED"
    BY <1>a, OrderMoves
  <1>3 Running!SettledWhenSaid' /\ ReportsTruth'
    BY <1>a, <1>1, <1>2 DEF Running!SettledWhenSaid, ReportsTruth, Running!Lifecycle
  <1> QED
    BY <1>a, <1>1, <1>3 DEF RunnerRest, OthersHaveEnded, DrainedBefore

\* The invariant of the runner is inductive.
LEMMA RunnerStep ==
  ASSUME RunnerInv, Running!Next
  PROVE  RunnerInv'
  <1>1 RunnerRest'
    BY LifecyclePart, EnginePart, ShopPart
  <1>2 Running!TypeOK
    BY DEF RunnerInv
  <1>3 Running!TypeOK'
    BY <1>1, <1>2, EngineTyped, ShutdownTyped, FaultRunTyped, RequestsTyped, OrderMoves
       DEF Running!TypeOK, RunnerRest, LifecycleState, ResultTable, ResultState, OrderTable, EngineState, Running!Nobody
  <1> QED
    BY <1>1, <1>3 DEF RunnerInv, RunnerRest

\* It holds at the start.
LEMMA RunnerStart ==
  ASSUME Running!Init
  PROVE  RunnerInv
  <1>a /\ faultRun = [active |-> "none", over |-> {}, appended |-> 0]
       /\ engine = [running |-> TRUE, at |-> "timer", loaded |-> "none", storageDone |-> FALSE, started |-> 0]
       /\ shutdown = [at |-> "no", begun |-> 0]
       /\ trafficRun = [status |-> "NONE", persisted |-> FALSE]
       /\ lifecycle = [id |-> 0, at |-> "NONE", aborted |-> FALSE, known |-> FALSE, retained |-> FALSE]
       /\ order = [l \in Running!Lifecycle |-> "NONE"] /\ lateRequests = {}
       /\ result = [l \in Running!Lifecycle |-> Running!NoResult]
       /\ engineFailures = 0
    BY DEF Running!Init, Running!Resting, Running!Nobody
  <1>b 0 \in 0..MaxLifecycles /\ 0 \in 0..StorageTarget /\ 0 \in 0..1 /\ 0 <= 0
    BY JobsAssumption
  <1>c Running!NoResult \in ResultState /\ ~ Running!NoResult.known
    BY DEF Running!NoResult, ResultState
  <1>1 /\ faultRun \in [active : Running!Run \cup {"none"}, over : SUBSET Running!Run, appended : 0..StorageTarget]
       /\ faultRun.active \notin faultRun.over
    BY <1>a, <1>b
  <1>2 /\ engine \in EngineState /\ engine.at = "timer" /\ engine.started = 0
    BY <1>a, <1>b DEF EngineState
  <1>3 /\ shutdown \in [at : {"no", "draining", "completing", "exited"}, begun : 0..MaxLifecycles]
       /\ trafficRun \in [status : {"NONE", "RUNNING", "COMPLETED"}, persisted : BOOLEAN]
    BY <1>a, <1>b
  <1>4 lifecycle \in LifecycleState /\ lifecycle.id = 0
    BY <1>a, <1>b DEF LifecycleState
  <1>5 order \in OrderTable /\ result \in ResultTable
    BY <1>a, <1>c DEF OrderTable, ResultTable
  <1>6 Running!TypeOK
    BY <1>a, <1>b, <1>1, <1>2, <1>3, <1>4, <1>5
       DEF Running!TypeOK, LifecycleState, ResultTable, ResultState, OrderTable, EngineState, Running!Nobody
  <1>7 Running!SettledWhenSaid /\ ReportsTruth
    BY <1>a, <1>c, <1>4 DEF Running!SettledWhenSaid, ReportsTruth
  <1>8 OthersHaveEnded /\ DrainedBefore
    BY <1>a, <1>b, <1>2, <1>4 DEF OthersHaveEnded, DrainedBefore
  <1> QED
    BY <1>6, <1>7, <1>8 DEF RunnerInv

RunnerHolds == focus = "runner" => RunnerInv

\* It holds whenever the runner is the part that takes steps.
LEMMA RunnerInvariant == MCSpec => []RunnerHolds
  <1>1 ASSUME MCInit PROVE RunnerHolds
    BY <1>1, RunnerStart DEF MCInit, RunnerHolds
  <1>2 ASSUME RunnerHolds, MCNext PROVE RunnerHolds'
    <2>1 CASE Runs
      BY <1>2, <2>1, RunnerStep DEF Runs, RunnerHolds
    <2>2 CASE ~ Runs
      BY <1>2, <2>2 DEF MCNext, WarmsUp, Works, Replenishes, RunnerHolds
    <2> QED
      BY <2>1, <2>2
  <1>3 ASSUME RunnerHolds, UNCHANGED <<focus, replenishmentVars, warmupVars, runnerVars, processVars>>
       PROVE  RunnerHolds'
    BY <1>3 DEF RunnerHolds, RunnerInv, ReportsTruth, OthersHaveEnded, DrainedBefore, runnerVars,
       Running!TypeOK, Running!SettledWhenSaid, Running!Lifecycle
  <1> QED
    BY <1>1, <1>2, <1>3, PTL DEF MCSpec

\* For any number of lifecycles, appends and lost requests, a lifecycle does not leave an
\* order unpaid without saying so, and a traffic run is completed after the lifecycles
\* that stop() found (pendingPaymentRetained of executeLifecycle, stop of runner-engine.ts).
THEOREM RunnerSafe == MCSpec => []RunnerIsSafe
  <1>1 ASSUME RunnerInv PROVE Running!SettledWhenSaid /\ Running!DrainsStarted
    <2>1 /\ lifecycle \in LifecycleState /\ engine \in EngineState /\ shutdown.begun \in 0..MaxLifecycles
         /\ OthersHaveEnded /\ DrainedBefore /\ Running!SettledWhenSaid
      BY <1>1, RunnerFacts
    <2>2 ASSUME trafficRun.status = "COMPLETED"
         PROVE  /\ lifecycle.id \notin 1..shutdown.begun
                /\ \A l \in 1..shutdown.begun : result[l].status # "NONE"
      <3>1 lifecycle.id \notin 1..shutdown.begun
        BY <2>1, <2>2 DEF DrainedBefore, LifecycleState
      <3>2 1..shutdown.begun \subseteq 1..engine.started
        BY <2>1 DEF DrainedBefore, EngineState
      <3> QED
        BY <2>1, <3>1, <3>2 DEF OthersHaveEnded
    <2> QED
      BY <2>1, <2>2 DEF Running!DrainsStarted
  <1>2 RunnerHolds => RunnerIsSafe
    BY <1>1 DEF RunnerHolds, RunnerIsSafe
  <1> QED
    BY <1>2, RunnerInvariant, PTL
-----------------------------------------------------------------------------
\* The status of the replenishment, which one worker shares with the operators

\* A triggered execution that will still publish the status that it has found.
Pending(m) == told[m] = "nothing" /\ (execution[m].pc # "idle" \/ execution[m].attempt = 1)
WorkerUp(s) == execution[s].pc # "down"

\* Unless a change has been missed, the status and what is going to be published of it
\* tell whether the worker s runs, and an execution that it shows is under way.
StatusInv(s) ==
  /\ copied[s] = TRUE
  /\ \A m \in Manual : told[m] # "nothing" => execution[m].pc = "idle"
  /\ ~ missed =>
       /\ (shown.running = TRUE) <=> WorkerUp(s)
       /\ \A m \in Manual : Pending(m) => ((copied[m] = TRUE) <=> WorkerUp(s))
       /\ shown.executing = TRUE => \E e \in Execution : Replenishing!Busy(e)

\* How an execution changes the status.
LEMMA StatusMoves ==
  ASSUME Replenishing!TypeOK, NEW e \in Execution, Replenishing!ExecutionStep(e), ~ missed'
  PROVE  /\ ~ missed /\ UNCHANGED copied
         /\ \/ UNCHANGED shown /\ (Replenishing!Busy(e) => Replenishing!Busy(e)')
            \/ shown' = [executing |-> FALSE, running |-> copied[e]]
            \/ shown' = [executing |-> TRUE, running |-> copied[e]] /\ Replenishing!Busy(e)'
  <1> DEFINE P == /\ ~ missed /\ UNCHANGED copied
                  /\ \/ UNCHANGED shown /\ (Replenishing!Busy(e) => Replenishing!Busy(e)')
                     \/ shown' = [executing |-> FALSE, running |-> copied[e]]
                     \/ shown' = [executing |-> TRUE, running |-> copied[e]] /\ Replenishing!Busy(e)'
  <1>a execution \in [Execution -> ExecutionState]
    BY DEF Replenishing!TypeOK, Execution, ExecutionState, Replenishing!Execution, Replenishing!Run, Replenishing!Window, Replenishing!Holding
  <1>1 ASSUME Replenishing!Begins(e) PROVE P
    <2>1 /\ shown' = [executing |-> TRUE, running |-> copied[e]] /\ UNCHANGED <<missed, copied>>
         /\ \E r : execution' = [execution EXCEPT ![e] = [pc |-> "begun", run |-> r, attempt |-> 1]]
      BY <1>1 DEF Replenishing!Begins, Replenishing!Publishes
    <2>2 execution'[e].pc = "begun"
      BY <1>a, <2>1
    <2> QED
      BY <2>1, <2>2 DEF Replenishing!Busy
  <1>2 ASSUME Replenishing!FindsCompleted(e) PROVE P
    <2>1 \/ /\ shown' = [executing |-> FALSE, running |-> copied[e]] /\ UNCHANGED <<missed, copied>>
         \/ /\ UNCHANGED <<shown, missed, copied>>
            /\ execution' = [execution EXCEPT ![e].pc = "locking"]
      BY <1>2 DEF Replenishing!FindsCompleted, Replenishing!Publishes, Replenishing!Returns, Replenishing!Step, Replenishing!statusVars
    <2>2 execution' = [execution EXCEPT ![e].pc = "locking"] => execution'[e].pc = "locking"
      BY <1>a DEF ExecutionState
    <2> QED
      BY <2>1, <2>2 DEF Replenishing!Busy
  <1>3 ASSUME Replenishing!Locks(e) PROVE P
    <2>1 /\ UNCHANGED <<shown, missed, copied>>
         /\ execution' = [execution EXCEPT ![e].pc = "calling"]
      BY <1>3 DEF Replenishing!Locks, Replenishing!Step, Replenishing!statusVars
    <2>2 execution'[e].pc = "calling"
      BY <1>a, <2>1 DEF ExecutionState
    <2> QED
      BY <2>1, <2>2 DEF Replenishing!Busy
  <1>4 ASSUME Replenishing!Skips(e) PROVE P
    BY <1>4 DEF Replenishing!Skips, Replenishing!Publishes, Replenishing!Returns
  <1>b ASSUME Replenishing!NextAttempt(e), UNCHANGED copied PROVE P
    <2>1 \/ /\ UNCHANGED <<shown, missed>>
            /\ execution' = [execution EXCEPT ![e].pc = "waiting", ![e].attempt = @ + 1]
         \/ shown' = [executing |-> FALSE, running |-> copied[e]] /\ UNCHANGED missed
      BY <1>b DEF Replenishing!NextAttempt
    <2>2 execution' = [execution EXCEPT ![e].pc = "waiting", ![e].attempt = @ + 1] => execution'[e].pc = "waiting"
      BY <1>a DEF ExecutionState
    <2> QED
      BY <1>b, <2>1, <2>2 DEF Replenishing!Busy
  <1>5 ASSUME Replenishing!Calls(e) PROVE P
    <2>1 CASE Replenishing!NextAttempt(e)
      BY <1>5, <1>b, <2>1 DEF Replenishing!Calls
    <2>2 CASE ~ Replenishing!NextAttempt(e)
      <3>1 UNCHANGED <<shown, missed, copied>> /\ execution' = [execution EXCEPT ![e].pc = "answered"]
        BY <1>5, <2>2 DEF Replenishing!Calls, Replenishing!Proceeds
      <3>2 execution'[e].pc = "answered"
        BY <1>a, <3>1 DEF ExecutionState
      <3> QED
        BY <3>1, <3>2 DEF Replenishing!Busy
    <2> QED
      BY <2>1, <2>2
  <1>6 ASSUME Replenishing!Completes(e) PROVE P
    <2>1 CASE Replenishing!NextAttempt(e)
      BY <1>6, <1>b, <2>1 DEF Replenishing!Completes
    <2>2 CASE ~ Replenishing!NextAttempt(e)
      BY <1>6, <2>2 DEF Replenishing!Completes, Replenishing!Publishes
    <2> QED
      BY <2>1, <2>2
  <1>7 ASSUME Replenishing!Waits(e) PROVE P
    <2>1 /\ UNCHANGED <<shown, missed, copied>>
         /\ execution' = [execution EXCEPT ![e].pc = "calling"]
      BY <1>7 DEF Replenishing!Waits, Replenishing!Step, Replenishing!statusVars
    <2>2 execution'[e].pc = "calling"
      BY <1>a, <2>1 DEF ExecutionState
    <2> QED
      BY <2>1, <2>2 DEF Replenishing!Busy
  <1>8 ASSUME Replenishing!Unlocks(e) PROVE P
    BY <1>8 DEF Replenishing!Unlocks, Replenishing!Returns, Replenishing!Busy
  <1> HIDE DEF P
  <1>9 P
    BY <1>1, <1>2, <1>3, <1>4, <1>5, <1>6, <1>7, <1>8 DEF Replenishing!ExecutionStep
  <1> QED
    BY <1>9 DEF P

\* What an operator is told when.
LEMMA TellingMoves ==
  ASSUME Replenishing!TypeOK, NEW e \in Execution, Replenishing!ExecutionStep(e),
         \A m \in Manual : told[m] # "nothing" => execution[m].pc = "idle"
  PROVE  /\ \A m \in Manual \ {e} : told'[m] = told[m]
         /\ e \in Manual => Pending(e)
         /\ e \in Manual => told'[e] = told[e] \/ execution'[e].pc = "idle"
         /\ UNCHANGED copied
  <1>a /\ execution \in [Execution -> ExecutionState]
       /\ told \in [Manual -> {"nothing", "completed", "failed"}]
    BY DEF Replenishing!TypeOK, Execution, ExecutionState, Replenishing!Execution, Replenishing!Run, Replenishing!Window, Replenishing!Holding
  <1>1 \/ UNCHANGED <<copied, told>>
       \/ /\ UNCHANGED copied /\ execution' = [execution EXCEPT ![e].pc = "idle"]
          /\ \/ told' = told
             \/ e \in Manual /\ \E answer \in {"completed", "failed"} : told' = [told EXCEPT ![e] = answer]
    <2>1 ASSUME NEW answer \in {"completed", "failed"}, Replenishing!Returns(e, answer)
         PROVE  /\ UNCHANGED copied /\ execution' = [execution EXCEPT ![e].pc = "idle"]
                /\ \/ told' = told
                   \/ e \in Manual /\ told' = [told EXCEPT ![e] = answer]
      BY <2>1 DEF Replenishing!Returns
    <2>2 Replenishing!Returns(e, "completed") \/ Replenishing!Returns(e, "failed") \/ UNCHANGED <<copied, told>>
      BY DEF Replenishing!ExecutionStep, Replenishing!Begins, Replenishing!FindsCompleted, Replenishing!Locks, Replenishing!Skips, Replenishing!Calls, Replenishing!Completes, Replenishing!Waits, Replenishing!Unlocks,
         Replenishing!Result, Replenishing!statusVars
    <2> QED
      BY <2>1, <2>2
  <1>2 e \in Manual => Pending(e)
    <2>1 execution[e].pc = "idle" => Replenishing!Begins(e)
      BY DEF Replenishing!ExecutionStep, Replenishing!FindsCompleted, Replenishing!Locks, Replenishing!Skips, Replenishing!Calls, Replenishing!Completes, Replenishing!Waits, Replenishing!Unlocks, Replenishing!Step
    <2>2 Replenishing!Begins(e) /\ e \in Manual => execution[e].attempt = 1 /\ told[e] = "nothing"
      BY JobsAssumption DEF Replenishing!Begins
    <2> QED
      BY <2>1, <2>2 DEF Pending
  <1>3 execution' = [execution EXCEPT ![e].pc = "idle"] => execution'[e].pc = "idle"
    BY <1>a DEF ExecutionState
  <1> QED
    BY <1>a, <1>1, <1>2, <1>3

\* A step of an execution keeps what the status tells.
LEMMA StatusExecution ==
  ASSUME Replenishing!TypeOK, NEW s \in Scheduler, Scheduler = {s}, StatusInv(s),
         NEW e \in Execution, Replenishing!ExecutionStep(e)
  PROVE  StatusInv(s)'
  <1>a /\ shown \in [executing : BOOLEAN, running : BOOLEAN] /\ copied \in [Execution -> BOOLEAN]
       /\ Execution = {s} \cup Manual
    BY DEF Replenishing!TypeOK, Execution, Replenishing!Execution
  <1>b /\ copied[s] = TRUE
       /\ \A m \in Manual : told[m] # "nothing" => execution[m].pc = "idle"
    BY DEF StatusInv
  <1>c /\ \A f \in Execution \ {e} : execution'[f] = execution[f]
       /\ execution[e].pc # "down" /\ execution'[e].pc # "down"
    BY ExecutionMoves
  <1>d /\ \A m \in Manual \ {e} : told'[m] = told[m]
       /\ e \in Manual => Pending(e)
       /\ e \in Manual => told'[e] = told[e] \/ execution'[e].pc = "idle"
       /\ UNCHANGED copied
    BY <1>b, TellingMoves
  <1>e WorkerUp(s)' <=> WorkerUp(s)
    BY <1>a, <1>c DEF WorkerUp
  <1>1 \A m \in Manual : told'[m] # "nothing" => execution'[m].pc = "idle"
    <2> SUFFICES ASSUME NEW m \in Manual, told'[m] # "nothing"
                 PROVE  execution'[m].pc = "idle"
      OBVIOUS
    <2>1 CASE m # e
      BY <1>a, <1>b, <1>c, <1>d, <2>1
    <2>2 CASE m = e
      BY <1>d, <2>2 DEF Pending
    <2> QED
      BY <2>1, <2>2
  <1>2 ASSUME ~ missed'
       PROVE  /\ (shown'.running = TRUE) <=> WorkerUp(s)
              /\ \A m \in Manual : Pending(m)' => ((copied[m] = TRUE) <=> WorkerUp(s))
              /\ shown'.executing = TRUE => \E f \in Execution : Replenishing!Busy(f)'
    <2>a /\ ~ missed
         /\ \/ UNCHANGED shown /\ (Replenishing!Busy(e) => Replenishing!Busy(e)')
            \/ shown' = [executing |-> FALSE, running |-> copied[e]]
            \/ shown' = [executing |-> TRUE, running |-> copied[e]] /\ Replenishing!Busy(e)'
      BY <1>2, StatusMoves
    <2>b /\ (shown.running = TRUE) <=> WorkerUp(s)
         /\ \A m \in Manual : Pending(m) => ((copied[m] = TRUE) <=> WorkerUp(s))
         /\ shown.executing = TRUE => \E f \in Execution : Replenishing!Busy(f)
      BY <2>a DEF StatusInv
    <2>c (copied[e] = TRUE) <=> WorkerUp(s)
      <3>1 CASE e = s
        BY <1>b, <1>c, <3>1 DEF WorkerUp
      <3>2 CASE e \in Manual
        BY <1>d, <2>b, <3>2
      <3> QED
        BY <1>a, <3>1, <3>2
    <2>1 (shown'.running = TRUE) <=> WorkerUp(s)
      <3>1 shown'.running = shown.running \/ shown'.running = copied[e]
        BY <2>a
      <3> QED
        BY <2>b, <2>c, <3>1
    <2>2 ASSUME NEW m \in Manual, Pending(m)' PROVE (copied[m] = TRUE) <=> WorkerUp(s)
      <3>1 CASE m # e
        <4>1 told'[m] = told[m] /\ execution'[m] = execution[m]
          BY <1>a, <1>c, <1>d, <3>1
        <4> QED
          BY <2>b, <2>2, <4>1 DEF Pending
      <3>2 CASE m = e
        BY <2>c, <3>2
      <3> QED
        BY <3>1, <3>2
    <2>3 ASSUME shown'.executing = TRUE PROVE \E f \in Execution : Replenishing!Busy(f)'
      <3>1 CASE UNCHANGED shown /\ (Replenishing!Busy(e) => Replenishing!Busy(e)')
        <4>1 PICK f \in Execution : Replenishing!Busy(f)
          BY <2>b, <2>3, <3>1
        <4>2 f # e => Replenishing!Busy(f)'
          BY <1>c, <4>1 DEF Replenishing!Busy
        <4> QED
          BY <3>1, <4>1, <4>2
      <3>2 CASE shown' = [executing |-> FALSE, running |-> copied[e]]
        BY <2>3, <3>2
      <3>3 CASE Replenishing!Busy(e)'
        BY <3>3
      <3> QED
        BY <2>a, <3>1, <3>2, <3>3
    <2> QED
      BY <2>1, <2>2, <2>3
  <1>3 copied'[s] = TRUE
    BY <1>b, <1>d
  <1> QED
    BY <1>1, <1>2, <1>3, <1>d, <1>e DEF StatusInv

\* Every step keeps what the status tells.
LEMMA StatusStep ==
  ASSUME Replenishing!TypeOK, NEW s \in Scheduler, Scheduler = {s}, StatusInv(s), Replenishing!Next
  PROVE  StatusInv(s)'
  <1>a /\ shown \in [executing : BOOLEAN, running : BOOLEAN] /\ copied \in [Execution -> BOOLEAN]
       /\ execution \in [Execution -> ExecutionState]
    BY DEF Replenishing!TypeOK, Execution, ExecutionState, Replenishing!Execution, Replenishing!Run, Replenishing!Window, Replenishing!Holding
  <1>b /\ copied[s] = TRUE /\ s \notin Manual /\ s \in Execution
       /\ \A m \in Manual : m \in Execution /\ (told[m] # "nothing" => execution[m].pc = "idle")
    BY JobsAssumption DEF StatusInv, Execution
  <1>c ASSUME NEW e \in Execution, Replenishing!ExecutionStep(e) PROVE StatusInv(s)'
    BY <1>c, StatusExecution
  <1>1 CASE Replenishing!Stops(s)
    <2>1 /\ execution' = [execution EXCEPT ![s].pc = "down"] /\ UNCHANGED <<copied, told>>
         /\ \/ shown' = [executing |-> Replenishing!Busy(s), running |-> FALSE] /\ missed' = (missed \/ Replenishing!Busy(s) \/ Replenishing!Outdated)
            \/ missed' = TRUE
      BY <1>1 DEF Replenishing!Stops
    <2>2 ~ WorkerUp(s)' /\ \A m \in Manual : execution'[m] = execution[m]
      BY <1>a, <1>b, <2>1 DEF WorkerUp, ExecutionState
    <2>3 ASSUME ~ missed'
         PROVE  /\ shown'.running = FALSE /\ shown'.executing # TRUE
                /\ \A m \in Manual : ~ Pending(m)'
      <3>1 /\ ~ Replenishing!Busy(s) /\ ~ Replenishing!Outdated
           /\ shown' = [executing |-> Replenishing!Busy(s), running |-> FALSE]
        BY <2>1, <2>3
      <3>2 \A m \in Manual : ~ Pending(m)
        BY <3>1 DEF Replenishing!Outdated, Pending
      <3>3 \A b \in BOOLEAN : (~ b) => [executing |-> b, running |-> FALSE].executing # TRUE
        OBVIOUS
      <3>4 Replenishing!Busy(s) \in BOOLEAN
        BY SMT DEF Replenishing!Busy
      <3>5 shown'.executing # TRUE
        BY <3>1, <3>3, <3>4, Zenon
      <3>6 shown'.running = FALSE
        BY <3>1
      <3> QED
        BY <2>1, <2>2, <3>2, <3>5, <3>6 DEF Pending
    <2> QED
      BY <1>b, <2>1, <2>2, <2>3 DEF StatusInv
  <1>2 CASE Replenishing!Starts(s)
    <2>1 /\ execution' = [execution EXCEPT ![s].pc = "idle"] /\ UNCHANGED <<copied, told>>
         /\ \/ shown' = [executing |-> FALSE, running |-> TRUE] /\ missed' = (missed \/ Replenishing!Outdated)
            \/ missed' = TRUE
      BY <1>2 DEF Replenishing!Starts, Replenishing!Step
    <2>2 WorkerUp(s)' /\ \A m \in Manual : execution'[m] = execution[m]
      BY <1>a, <1>b, <2>1 DEF WorkerUp, ExecutionState
    <2>3 ASSUME ~ missed'
         PROVE  /\ shown'.running = TRUE /\ shown'.executing # TRUE
                /\ \A m \in Manual : ~ Pending(m)'
      <3>1 ~ Replenishing!Outdated /\ shown' = [executing |-> FALSE, running |-> TRUE]
        BY <2>1, <2>3
      <3>2 \A m \in Manual : ~ Pending(m)
        BY <3>1 DEF Replenishing!Outdated, Pending
      <3>3 shown'.running = TRUE /\ shown'.executing = FALSE
        BY <3>1
      <3> QED
        BY <2>1, <2>2, <3>2, <3>3 DEF Pending
    <2> QED
      BY <1>b, <2>1, <2>2, <2>3 DEF StatusInv
  <1>3 ASSUME NEW m \in Manual, Replenishing!Triggers(m) PROVE StatusInv(s)'
    <2>1 /\ execution' = [execution EXCEPT ![m].attempt = 1] /\ copied' = [copied EXCEPT ![m] = shown.running]
         /\ UNCHANGED <<shown, told, missed>>
      BY <1>3 DEF Replenishing!Triggers
    <2>2 /\ \A f \in Execution : execution'[f].pc = execution[f].pc
         /\ \A f \in Execution \ {m} : execution'[f] = execution[f] /\ copied'[f] = copied[f]
         /\ copied'[m] = shown.running
      BY <1>a, <1>b, <2>1 DEF ExecutionState
    <2>3 /\ WorkerUp(s)' <=> WorkerUp(s)
         /\ \A f \in Execution : Replenishing!Busy(f)' <=> Replenishing!Busy(f)
         /\ \A f \in Manual \ {m} : Pending(f)' <=> Pending(f)
      BY <1>b, <2>1, <2>2 DEF WorkerUp, Replenishing!Busy, Pending
    <2>4 copied'[s] = TRUE /\ \A f \in Manual : told'[f] # "nothing" => execution'[f].pc = "idle"
      BY <1>b, <2>1, <2>2
    <2>5 ASSUME ~ missed'
         PROVE  /\ (shown'.running = TRUE) <=> WorkerUp(s)
                /\ \A f \in Manual : Pending(f)' => ((copied'[f] = TRUE) <=> WorkerUp(s))
                /\ shown'.executing = TRUE => \E e \in Execution : Replenishing!Busy(e)'
      <3>1 /\ (shown.running = TRUE) <=> WorkerUp(s)
           /\ \A f \in Manual : Pending(f) => ((copied[f] = TRUE) <=> WorkerUp(s))
           /\ shown.executing = TRUE => \E e \in Execution : Replenishing!Busy(e)
        BY <2>1, <2>5 DEF StatusInv
      <3>2 (copied'[m] = TRUE) <=> WorkerUp(s)
        BY <2>2, <3>1
      <3>3 \A f \in Manual \ {m} : copied'[f] = copied[f]
        BY <1>b, <2>2
      <3> QED
        BY <2>1, <2>3, <3>1, <3>2, <3>3
    <2> QED
      BY <2>3, <2>4, <2>5 DEF StatusInv
  <1>4 ASSUME UNCHANGED <<execution, copied, told, missed, shown>> PROVE StatusInv(s)'
    BY <1>4 DEF StatusInv, WorkerUp, Pending, Replenishing!Busy
  <1>5 \/ \E e \in Execution : Replenishing!ExecutionStep(e)
       \/ Replenishing!Stops(s) \/ Replenishing!Starts(s)
       \/ \E m \in Manual : Replenishing!Triggers(m)
       \/ UNCHANGED <<execution, copied, told, missed, shown>>
    BY DEF Replenishing!Next, Replenishing!LateRequestArrives, Replenishing!LockLapses, Replenishing!WindowPasses, Replenishing!statusVars, Execution, Replenishing!Execution
  <1> QED
    BY <1>c, <1>1, <1>2, <1>3, <1>4, <1>5

\* At the start the status tells the truth.
LEMMA StatusStart ==
  ASSUME NEW s \in Scheduler, Replenishing!Init
  PROVE  StatusInv(s)
  <1>1 /\ \A e \in Execution : execution[e].pc = IF e \in Manual THEN "idle" ELSE "down"
       /\ \A e \in Execution : execution[e].attempt = 0
    BY DEF Replenishing!Init, Execution, Replenishing!Execution
  <1>2 s \in Execution /\ s \notin Manual /\ \A m \in Manual : m \in Execution
    BY JobsAssumption DEF Execution
  <1>3 copied = [e \in Execution |-> e \in Scheduler]
    BY DEF Replenishing!Init, Execution, Replenishing!Execution
  <1>4 copied[s] = TRUE
    BY <1>2, <1>3
  <1>5 \A m \in Manual : told[m] = "nothing"
    BY DEF Replenishing!Init
  <1>6 shown.running = FALSE /\ shown.executing = FALSE
    BY DEF Replenishing!Init
  <1>7 \A m \in Manual : ~ Pending(m)
    BY <1>1, <1>2 DEF Pending
  <1>8 ~ WorkerUp(s)
    BY <1>1, <1>2 DEF WorkerUp
  <1> QED
    BY <1>4, <1>5, <1>6, <1>7, <1>8 DEF StatusInv

\* For the one worker process that is deployed, any triggered executions, windows and
\* bounds: once all executions are done the published status shows none, and whether the
\* worker runs, unless a change was missed (publishStatus of inventory-replenishment.ts,
\* runManualInventoryReplenishment).
THEOREM StatusSettled ==
  ASSUME NEW s \in Scheduler, Scheduler = {s}
  PROVE  MCSpec => []StatusSettles
  <1> DEFINE Holds == focus = "replenishment" => StatusInv(s)
  <1>1 MCInit => Holds
    BY StatusStart DEF MCInit
  <1>2 ASSUME Holds, ReplenishmentHolds, [MCNext]_<<focus, replenishmentVars, warmupVars, runnerVars, processVars>>
       PROVE  Holds'
    <2>1 CASE Replenishes
      <3>1 focus = "replenishment" /\ Replenishing!Next
        BY <2>1 DEF Replenishes
      <3>2 Replenishing!TypeOK /\ StatusInv(s)
        BY <1>2, <3>1 DEF ReplenishmentHolds, ReplenishmentInv
      <3> QED
        BY <3>1, <3>2, StatusStep
    <2>2 CASE ~ Replenishes
      <3>1 focus' = "replenishment" => focus = "replenishment" /\ UNCHANGED replenishmentVars
        BY <1>2, <2>2 DEF MCNext, WarmsUp, Runs, Works
      <3>2 UNCHANGED replenishmentVars /\ StatusInv(s) => StatusInv(s)'
        BY DEF replenishmentVars, StatusInv, WorkerUp, Pending, Replenishing!Busy
      <3> QED
        BY <1>2, <3>1, <3>2
    <2> QED
      BY <2>1, <2>2
  <1>3 ASSUME Holds, ReplenishmentHolds PROVE StatusSettles
    <2>1 SUFFICES ASSUME focus = "replenishment", \A e \in Execution : ~ Replenishing!Busy(e), ~ missed
                  PROVE  ~ shown.executing /\ shown.running = \E w \in Scheduler : execution[w].pc # "down"
      BY DEF StatusSettles, Replenishing!StatusSettles, Execution, Replenishing!Execution
    <2>2 /\ (shown.running = TRUE) <=> WorkerUp(s)
         /\ shown.executing # TRUE
      BY <1>3, <2>1 DEF StatusInv
    <2>3 shown.executing \in BOOLEAN /\ shown.running \in BOOLEAN
      BY <1>3, <2>1 DEF ReplenishmentHolds, ReplenishmentInv, Replenishing!TypeOK
    <2>4 WorkerUp(s) <=> \E w \in Scheduler : execution[w].pc # "down"
      BY DEF WorkerUp
    <2> QED
      BY <2>2, <2>3, <2>4
  <1> HIDE DEF Holds
  <1>4 MCSpec => []Holds
    BY <1>1, <1>2, ReplenishmentInvariant, PTL DEF MCSpec
  <1> QED
    BY <1>3, <1>4, ReplenishmentInvariant, PTL

-----------------------------------------------------------------------------
\* Data warm-up

ServiceState ==
  [pc : {"contending", "acquired", "renewed", "marked", "session", "failing", "failingLost", "off", "dead"},
   held : BOOLEAN, stopped : BOOLEAN]
QueueState ==
  [pc : {"rest", "partition", "filling", "counted", "renewing", "dropping", "ended", "failed"},
   todo : SUBSET (0..LastDay)]

\* Where a thread works on a day of its job: on a day that is added to, on one that is
\* removed, or at the end of either.
Adding == {"unexcluding", "prepared", "partition", "filling", "inserting", "renewing"}
Removing == {"excluding", "excluded", "dropping"}
Beyond == Adding \cup Removing \cup {"progress"}
ManualState ==
  [pc : Beyond \cup {"rest", "selected", "working", "requeuing", "losing", "failing", "ended"},
   job : Job \cup {None}, days : Nat, rows : Nat]
JobState ==
  [status : {"NONE", "QUEUED", "RUNNING", "COMPLETED", "FAILED"},
   owner : Owner \cup {None}, days : Nat, rows : Nat]
RowState == [filled : Nat, injected : Nat]
\* What the types say of the tables.
LEMMA WarmupFacts ==
  ASSUME WarmingUp!TypeOK
  PROVE  /\ service \in [Owner -> ServiceState] /\ queue \in [Owner -> QueueState]
         /\ manual \in [Owner -> ManualState] /\ job \in [Job -> JobState]
         /\ rows \in [0..LastDay -> RowState] /\ inserted \in [Job -> Nat]
         /\ partitions \subseteq 0..LastDay /\ excluded \subseteq 0..LastDay
         /\ today \in 0..LastDay /\ lease \in Owner \cup {None} /\ mark \in Owner \cup {None}
         /\ stale \subseteq Job /\ left \subseteq Job /\ faults \in 0..MaxFaults
         /\ \A j \in Job : job[j].owner # None <=> job[j].status = "RUNNING"
  <1>1 service \in [Owner -> ServiceState]
    BY DEF WarmingUp!TypeOK, ServiceState
  <1>2 queue \in [Owner -> QueueState]
    BY DEF WarmingUp!TypeOK, WarmingUp!Day, QueueState
  <1>3 ManualState = [pc : {"rest", "selected", "working", "unexcluding", "prepared", "partition",
       "filling", "inserting", "renewing", "progress", "excluding", "excluded", "dropping",
       "requeuing", "losing", "failing", "ended"}, job : Job \cup {None}, days : Nat, rows : Nat]
    BY DEF ManualState, Beyond, Adding, Removing
  <1>4 job \in [Job -> JobState] /\ \A j \in Job : job[j].owner # None <=> job[j].status = "RUNNING"
    BY DEF WarmingUp!TypeOK, JobState
  <1>5 rows \in [0..LastDay -> RowState]
    BY DEF WarmingUp!TypeOK, WarmingUp!Day, RowState
  <1> QED
    BY <1>1, <1>2, <1>3, <1>4, <1>5 DEF WarmingUp!TypeOK, WarmingUp!Day

\* What the steps of the session, of the table queue and of a job leave alone.
LEMMA ServiceStepLeaves ==
  ASSUME NEW w \in Owner, WarmingUp!ServiceStep(w)
  PROVE  /\ UNCHANGED <<today, rowLock, inserted, rows, partitions, excluded>>
         /\ UNCHANGED mark \/ WarmingUp!Marks(w) \/ WarmingUp!ReportsError(w) \/ WarmingUp!Releases(w)
         /\ UNCHANGED queue \/ WarmingUp!Reclaims(w) \/ WarmingUp!SessionEnds(w)
         /\ UNCHANGED <<manual, job, stale>> \/ WarmingUp!Reclaims(w)
         /\ UNCHANGED left \/ WarmingUp!Reclaims(w)
  <1> DEFINE P == /\ UNCHANGED <<today, rowLock, inserted, rows, partitions, excluded>>
                  /\ UNCHANGED mark \/ WarmingUp!Marks(w) \/ WarmingUp!ReportsError(w) \/ WarmingUp!Releases(w)
                  /\ UNCHANGED queue \/ WarmingUp!Reclaims(w) \/ WarmingUp!SessionEnds(w)
                  /\ UNCHANGED <<manual, job, stale>> \/ WarmingUp!Reclaims(w)
                  /\ UNCHANGED left \/ WarmingUp!Reclaims(w)
  <1>1 ASSUME WarmingUp!Acquires(w) PROVE P
    BY <1>1 DEF WarmingUp!Acquires, WarmingUp!leaseVars, WarmingUp!tableVars, WarmingUp!jobVars, WarmingUp!NoFault, WarmingUp!Fault
  <1>2 ASSUME WarmingUp!RenewsFirst(w) PROVE P
    BY <1>2 DEF WarmingUp!RenewsFirst, WarmingUp!leaseVars, WarmingUp!tableVars, WarmingUp!jobVars, WarmingUp!NoFault, WarmingUp!Fault
  <1>3 ASSUME WarmingUp!Marks(w) PROVE P
    BY <1>3 DEF WarmingUp!Marks, WarmingUp!leaseVars, WarmingUp!tableVars, WarmingUp!jobVars, WarmingUp!NoFault, WarmingUp!Fault
  <1>4 ASSUME WarmingUp!Reclaims(w) PROVE P
    BY <1>4 DEF WarmingUp!Reclaims, WarmingUp!leaseVars, WarmingUp!tableVars, WarmingUp!jobVars, WarmingUp!NoFault, WarmingUp!Fault
  <1>5 ASSUME WarmingUp!SessionEnds(w) PROVE P
    BY <1>5 DEF WarmingUp!SessionEnds, WarmingUp!leaseVars, WarmingUp!tableVars, WarmingUp!jobVars, WarmingUp!NoFault, WarmingUp!Fault
  <1>6 ASSUME WarmingUp!ReportsError(w) PROVE P
    BY <1>6 DEF WarmingUp!ReportsError, WarmingUp!leaseVars, WarmingUp!tableVars, WarmingUp!jobVars, WarmingUp!NoFault, WarmingUp!Fault
  <1>7 ASSUME WarmingUp!Releases(w) PROVE P
    BY <1>7 DEF WarmingUp!Releases, WarmingUp!leaseVars, WarmingUp!tableVars, WarmingUp!jobVars, WarmingUp!NoFault, WarmingUp!Fault
  <1> HIDE DEF P
  <1>8 P
    BY <1>1, <1>2, <1>3, <1>4, <1>5, <1>6, <1>7 DEF WarmingUp!ServiceStep
  <1> QED
    BY <1>8 DEF P

\* What a step of the queue leaves alone.
LEMMA QueueStepLeaves ==
  ASSUME NEW w \in Owner, WarmingUp!QueueStep(w)
  PROVE  /\ UNCHANGED <<today, lease, mark, service, manual, job, stale, inserted, left, excluded>>
         /\ UNCHANGED rowLock \/ WarmingUp!QueueFails(w) \/ WarmingUp!QueueCounts(w) \/ WarmingUp!QueueInserts(w)
         /\ UNCHANGED rows \/ WarmingUp!QueueInserts(w) \/ WarmingUp!QueueDropsExpired(w)
  <1> DEFINE P == /\ UNCHANGED <<today, lease, mark, service, manual, job, stale, inserted, left, excluded>>
                  /\ UNCHANGED rowLock \/ WarmingUp!QueueFails(w) \/ WarmingUp!QueueCounts(w) \/ WarmingUp!QueueInserts(w)
                  /\ UNCHANGED rows \/ WarmingUp!QueueInserts(w) \/ WarmingUp!QueueDropsExpired(w)
  <1>1 ASSUME WarmingUp!QueueEnds(w) PROVE P
    BY <1>1 DEF WarmingUp!QueueEnds, WarmingUp!leaseVars, WarmingUp!tableVars, WarmingUp!jobVars, WarmingUp!NoFault, WarmingUp!Fault
  <1>2 ASSUME WarmingUp!QueueFails(w) PROVE P
    BY <1>2 DEF WarmingUp!QueueFails, WarmingUp!leaseVars, WarmingUp!tableVars, WarmingUp!jobVars, WarmingUp!NoFault, WarmingUp!Fault
  <1>3 ASSUME WarmingUp!QueueChecks(w) PROVE P
    BY <1>3 DEF WarmingUp!QueueChecks, WarmingUp!leaseVars, WarmingUp!tableVars, WarmingUp!jobVars, WarmingUp!NoFault, WarmingUp!Fault
  <1>4 ASSUME WarmingUp!QueueAddsPartition(w) PROVE P
    BY <1>4 DEF WarmingUp!QueueAddsPartition, WarmingUp!leaseVars, WarmingUp!tableVars, WarmingUp!jobVars, WarmingUp!NoFault, WarmingUp!Fault
  <1>5 ASSUME WarmingUp!QueueCounts(w) PROVE P
    BY <1>5 DEF WarmingUp!QueueCounts, WarmingUp!leaseVars, WarmingUp!tableVars, WarmingUp!jobVars, WarmingUp!NoFault, WarmingUp!Fault
  <1>6 ASSUME WarmingUp!QueueInserts(w) PROVE P
    BY <1>6 DEF WarmingUp!QueueInserts, WarmingUp!leaseVars, WarmingUp!tableVars, WarmingUp!jobVars, WarmingUp!NoFault, WarmingUp!Fault
  <1>7 ASSUME WarmingUp!QueueRenews(w) PROVE P
    BY <1>7 DEF WarmingUp!QueueRenews, WarmingUp!leaseVars, WarmingUp!tableVars, WarmingUp!jobVars, WarmingUp!NoFault, WarmingUp!Fault
  <1>8 ASSUME WarmingUp!QueueDropsExpired(w) PROVE P
    BY <1>8 DEF WarmingUp!QueueDropsExpired, WarmingUp!leaseVars, WarmingUp!tableVars, WarmingUp!jobVars, WarmingUp!NoFault, WarmingUp!Fault
  <1> HIDE DEF P
  <1>9 P
    BY <1>1, <1>2, <1>3, <1>4, <1>5, <1>6, <1>7, <1>8 DEF WarmingUp!QueueStep
  <1> QED
    BY <1>9 DEF P

\* What a step of a thread leaves alone.
LEMMA ManualStepLeaves ==
  ASSUME NEW w \in Owner, WarmingUp!ManualStep(w)
  PROVE  /\ UNCHANGED <<today, lease, mark, queue>>
         /\ UNCHANGED service \/ WarmingUp!Requeues(w)
         /\ UNCHANGED rowLock \/ WarmingUp!ManualBegins(w) \/ WarmingUp!ManualInserts(w)
         /\ UNCHANGED excluded \/ WarmingUp!Excludes(w)
         /\ UNCHANGED rows \/ WarmingUp!ManualDrops(w) \/ WarmingUp!ManualInserts(w)
         /\ UNCHANGED inserted \/ WarmingUp!ManualInserts(w)
         /\ \/ UNCHANGED <<job, stale>>
            \/ WarmingUp!Claims(w) \/ WarmingUp!ManualInserts(w) \/ WarmingUp!ManualDayDone(w)
            \/ WarmingUp!Completes(w) \/ WarmingUp!Requeues(w) \/ WarmingUp!FailsJob(w)
         /\ UNCHANGED left \/ WarmingUp!Completes(w) \/ WarmingUp!Requeues(w) \/ WarmingUp!FailsJob(w)
  <1> DEFINE P == /\ UNCHANGED <<today, lease, mark, queue>>
                  /\ UNCHANGED service \/ WarmingUp!Requeues(w)
                  /\ UNCHANGED rowLock \/ WarmingUp!ManualBegins(w) \/ WarmingUp!ManualInserts(w)
                  /\ UNCHANGED excluded \/ WarmingUp!Excludes(w)
                  /\ UNCHANGED rows \/ WarmingUp!ManualDrops(w) \/ WarmingUp!ManualInserts(w)
                  /\ UNCHANGED inserted \/ WarmingUp!ManualInserts(w)
                  /\ \/ UNCHANGED <<job, stale>>
                     \/ WarmingUp!Claims(w) \/ WarmingUp!ManualInserts(w) \/ WarmingUp!ManualDayDone(w)
                     \/ WarmingUp!Completes(w) \/ WarmingUp!Requeues(w) \/ WarmingUp!FailsJob(w)
                  /\ UNCHANGED left \/ WarmingUp!Completes(w) \/ WarmingUp!Requeues(w) \/ WarmingUp!FailsJob(w)
  <1>1 ASSUME WarmingUp!ManualEnds(w) PROVE P
    BY <1>1 DEF WarmingUp!ManualEnds, WarmingUp!leaseVars, WarmingUp!tableVars, WarmingUp!jobVars, WarmingUp!NoFault, WarmingUp!Fault
  <1>2 ASSUME WarmingUp!Selects(w) PROVE P
    BY <1>2 DEF WarmingUp!Selects, WarmingUp!leaseVars, WarmingUp!tableVars, WarmingUp!jobVars, WarmingUp!NoFault, WarmingUp!Fault
  <1>3 ASSUME WarmingUp!Claims(w) PROVE P
    BY <1>3 DEF WarmingUp!Claims, WarmingUp!leaseVars, WarmingUp!tableVars, WarmingUp!jobVars, WarmingUp!NoFault, WarmingUp!Fault
  <1>4 ASSUME WarmingUp!Disturbed(w, WarmingUp!Statements) PROVE P
    BY <1>4 DEF WarmingUp!Disturbed, WarmingUp!leaseVars, WarmingUp!tableVars, WarmingUp!jobVars, WarmingUp!NoFault, WarmingUp!Fault
  <1>5 ASSUME WarmingUp!StartsDay(w) PROVE P
    BY <1>5 DEF WarmingUp!StartsDay, WarmingUp!leaseVars, WarmingUp!tableVars, WarmingUp!jobVars, WarmingUp!NoFault, WarmingUp!Fault
  <1>6 ASSUME WarmingUp!Excludes(w) PROVE P
    BY <1>6 DEF WarmingUp!Excludes, WarmingUp!leaseVars, WarmingUp!tableVars, WarmingUp!jobVars, WarmingUp!NoFault, WarmingUp!Fault
  <1>7 ASSUME WarmingUp!ManualChecks(w) PROVE P
    BY <1>7 DEF WarmingUp!ManualChecks, WarmingUp!leaseVars, WarmingUp!tableVars, WarmingUp!jobVars, WarmingUp!NoFault, WarmingUp!Fault
  <1>8 ASSUME WarmingUp!ManualAddsPartition(w) PROVE P
    BY <1>8 DEF WarmingUp!ManualAddsPartition, WarmingUp!leaseVars, WarmingUp!tableVars, WarmingUp!jobVars, WarmingUp!NoFault, WarmingUp!Fault
  <1>9 ASSUME WarmingUp!ManualDrops(w) PROVE P
    BY <1>9 DEF WarmingUp!ManualDrops, WarmingUp!leaseVars, WarmingUp!tableVars, WarmingUp!jobVars, WarmingUp!NoFault, WarmingUp!Fault
  <1>10 ASSUME WarmingUp!ManualBegins(w) PROVE P
    BY <1>10 DEF WarmingUp!ManualBegins, WarmingUp!leaseVars, WarmingUp!tableVars, WarmingUp!jobVars, WarmingUp!NoFault, WarmingUp!Fault
  <1>11 ASSUME WarmingUp!ManualInserts(w) PROVE P
    BY <1>11 DEF WarmingUp!ManualInserts, WarmingUp!leaseVars, WarmingUp!tableVars, WarmingUp!jobVars, WarmingUp!NoFault, WarmingUp!Fault
  <1>12 ASSUME WarmingUp!ManualRenews(w) PROVE P
    BY <1>12 DEF WarmingUp!ManualRenews, WarmingUp!leaseVars, WarmingUp!tableVars, WarmingUp!jobVars, WarmingUp!NoFault, WarmingUp!Fault
  <1>13 ASSUME WarmingUp!ManualDayDone(w) PROVE P
    BY <1>13 DEF WarmingUp!ManualDayDone, WarmingUp!leaseVars, WarmingUp!tableVars, WarmingUp!jobVars, WarmingUp!NoFault, WarmingUp!Fault
  <1>14 ASSUME WarmingUp!Completes(w) PROVE P
    BY <1>14 DEF WarmingUp!Completes, WarmingUp!Leaves, WarmingUp!Strands, WarmingUp!leaseVars, WarmingUp!tableVars, WarmingUp!jobVars, WarmingUp!NoFault, WarmingUp!Fault
  <1>15 ASSUME WarmingUp!Requeues(w) PROVE P
    BY <1>15 DEF WarmingUp!Requeues, WarmingUp!Leaves, WarmingUp!Strands, WarmingUp!leaseVars, WarmingUp!tableVars, WarmingUp!jobVars, WarmingUp!NoFault, WarmingUp!Fault
  <1>16 ASSUME WarmingUp!FailsJob(w) PROVE P
    BY <1>16 DEF WarmingUp!FailsJob, WarmingUp!Leaves, WarmingUp!Strands, WarmingUp!leaseVars, WarmingUp!tableVars, WarmingUp!jobVars, WarmingUp!NoFault, WarmingUp!Fault
  <1> HIDE DEF P
  <1>17 P
    BY <1>1, <1>2, <1>3, <1>4, <1>5, <1>6, <1>7, <1>8, <1>9, <1>10, <1>11, <1>12, <1>13, <1>14, <1>15, <1>16 DEF WarmingUp!ManualStep
  <1> QED
    BY <1>17 DEF P

\* The services stay typed.
LEMMA ServiceTyped ==
  ASSUME WarmingUp!TypeOK, WarmingUp!Next
  PROVE  service' \in [Owner -> ServiceState]
  <1> DEFINE P == service' \in [Owner -> ServiceState]
  <1>a service \in [Owner -> ServiceState]
    BY WarmupFacts
  <1>b UNCHANGED service => P
    BY <1>a
  <1>1 ASSUME NEW w \in Owner, WarmingUp!Catches(w) PROVE P
    <2>1 PICK pc \in {"failing", "failingLost"} : service' = [service EXCEPT ![w].pc = pc, ![w].held = FALSE]
      BY <1>1 DEF WarmingUp!Catches
    <2>2 service' = [service EXCEPT ![w] = [service[w] EXCEPT !.pc = pc, !.held = FALSE]]
      BY <1>a, <2>1
    <2>3 [service[w] EXCEPT !.pc = pc, !.held = FALSE] \in ServiceState
      BY <1>a DEF ServiceState
    <2> QED
      BY <1>a, <2>2, <2>3
  <1>2 ASSUME NEW w \in Owner, WarmingUp!ServiceStep(w) PROVE P
    <2>1 CASE WarmingUp!Acquires(w)
      BY <1>a, <2>1 DEF WarmingUp!Acquires, ServiceState
    <2>2 CASE WarmingUp!Releases(w)
      BY <1>a, <2>2 DEF WarmingUp!Releases, ServiceState
    <2>3 ASSUME NEW pc \in {"contending", "renewed", "marked", "session"}, WarmingUp!ServiceGoes(w, pc) PROVE P
      BY <1>a, <2>3 DEF WarmingUp!ServiceGoes, ServiceState
    <2>4 \/ WarmingUp!Acquires(w) \/ WarmingUp!Releases(w) \/ WarmingUp!Catches(w)
         \/ WarmingUp!ServiceGoes(w, "renewed") \/ WarmingUp!ServiceGoes(w, "marked") \/ WarmingUp!ServiceGoes(w, "session") \/ WarmingUp!ServiceGoes(w, "contending")
      BY <1>2 DEF WarmingUp!ServiceStep, WarmingUp!RenewsFirst, WarmingUp!Marks, WarmingUp!Reclaims, WarmingUp!SessionEnds, WarmingUp!ReportsError
    <2> HIDE DEF P
    <2> QED
      BY <1>1, <2>1, <2>2, <2>3, <2>4
  <1>3 ASSUME NEW w \in Owner, WarmingUp!Heartbeat(w) PROVE P
    BY <1>3, <1>a DEF WarmingUp!Heartbeat, ServiceState
  <1>4 ASSUME NEW w \in Owner, WarmingUp!Stops(w) PROVE P
    BY <1>4, <1>a DEF WarmingUp!Stops, ServiceState
  <1>5 ASSUME NEW w \in Owner, WarmingUp!Crashes(w) PROVE P
    BY <1>5, <1>a DEF WarmingUp!Crashes, ServiceState
  <1>6 ASSUME NEW w \in Owner, WarmingUp!ManualStep(w) PROVE P
    <2>1 UNCHANGED service \/ service' = [service EXCEPT ![w].held = FALSE]
      BY <1>6, ManualStepLeaves DEF WarmingUp!Requeues, WarmingUp!Strands
    <2> QED
      BY <1>a, <2>1 DEF ServiceState
  <1>7 ASSUME NEW w \in Owner, WarmingUp!QueueStep(w) PROVE P
    BY <1>7, <1>b, QueueStepLeaves
  <1>8 (\E j \in Job : WarmingUp!Enqueues(j) \/ WarmingUp!GrowsStale(j)) \/ WarmingUp!LeaseLapses \/ WarmingUp!DayPasses => UNCHANGED service
    BY DEF WarmingUp!Enqueues, WarmingUp!GrowsStale, WarmingUp!LeaseLapses, WarmingUp!DayPasses
  <1> HIDE DEF P
  <1>9 P
    BY <1>b, <1>2, <1>3, <1>4, <1>5, <1>6, <1>7, <1>8 DEF WarmingUp!Next
  <1> QED
    BY <1>9 DEF P

\* The queues of the services stay typed.
LEMMA QueueTyped ==
  ASSUME WarmingUp!TypeOK, WarmingUp!Next
  PROVE  queue' \in [Owner -> QueueState]
  <1> DEFINE P == queue' \in [Owner -> QueueState]
  <1>a queue \in [Owner -> QueueState] /\ today \in 0..LastDay
    BY WarmupFacts
  <1>b UNCHANGED queue => P
    BY <1>a
  <1>1 ASSUME NEW w \in Owner, NEW pc \in {"rest", "partition", "filling", "counted", "renewing", "dropping"},
              queue' = [queue EXCEPT ![w].pc = pc] PROVE P
    BY <1>1, <1>a DEF QueueState
  <1>2 ASSUME NEW w \in Owner, WarmingUp!Fills(w) PROVE P
    <2>1 WarmingUp!Missing \in SUBSET (0..LastDay)
      BY DEF WarmingUp!Missing, WarmingUp!Day
    <2> DEFINE missing == WarmingUp!Missing
    <2>2 queue' = [queue EXCEPT ![w].pc = "filling", ![w].todo = missing]
      BY <1>2 DEF WarmingUp!Fills
    <2> HIDE DEF missing
    <2>3 missing \in SUBSET (0..LastDay)
      BY <2>1 DEF missing
    <2> QED
      BY <1>a, <2>2, <2>3 DEF QueueState
  <1>3 ASSUME NEW w \in Owner, NEW pc \in {"rest", "ended", "failed"}, queue' = [queue EXCEPT ![w] = [pc |-> pc, todo |-> {}]] PROVE P
    BY <1>3, <1>a DEF QueueState
  <1>4 ASSUME NEW w \in Owner, NEW d, queue' = [queue EXCEPT ![w].todo = @ \ {d}] PROVE P
    BY <1>4, <1>a DEF QueueState
  <1>5 ASSUME NEW w \in Owner, WarmingUp!QueueStep(w) PROVE P
    <2>1 CASE WarmingUp!QueueEnds(w)
      BY <1>3, <2>1 DEF WarmingUp!QueueEnds, WarmingUp!Idle
    <2>2 CASE WarmingUp!QueueFails(w)
      <3>1 [WarmingUp!Idle EXCEPT !.pc = "failed"] = [pc |-> "failed", todo |-> {}]
        BY DEF WarmingUp!Idle
      <3>2 queue' = [queue EXCEPT ![w] = [pc |-> "failed", todo |-> {}]]
        BY <2>2, <3>1 DEF WarmingUp!QueueFails
      <3> QED
        BY <1>3, <3>2
    <2>3 CASE WarmingUp!QueueChecks(w)
      <3>1 \/ WarmingUp!Fills(w) \/ queue' = [queue EXCEPT ![w].pc = "partition"] \/ queue' = [queue EXCEPT ![w].pc = "rest"]
           \/ queue' = [queue EXCEPT ![w].pc = "dropping"]
        BY <2>3 DEF WarmingUp!QueueChecks, WarmingUp!QueueGoes
      <3> HIDE DEF P
      <3> QED
        BY <1>1, <1>2, <3>1
    <2>4 CASE WarmingUp!QueueAddsPartition(w)
      BY <1>2, <2>4 DEF WarmingUp!QueueAddsPartition
    <2>5 CASE WarmingUp!QueueCounts(w)
      BY <1>1, <1>4, <2>5 DEF WarmingUp!QueueCounts, WarmingUp!QueueGoes
    <2>6 CASE WarmingUp!QueueInserts(w)
      BY <1>1, <2>6 DEF WarmingUp!QueueInserts
    <2>7 CASE WarmingUp!QueueRenews(w)
      BY <1>1, <2>7 DEF WarmingUp!QueueRenews, WarmingUp!QueueGoes
    <2>8 CASE WarmingUp!QueueDropsExpired(w)
      <3>1 [WarmingUp!Idle EXCEPT !.pc = "rest"] = [pc |-> "rest", todo |-> {}]
        BY DEF WarmingUp!Idle
      <3>2 queue' = [queue EXCEPT ![w] = [pc |-> "rest", todo |-> {}]]
        BY <2>8, <3>1 DEF WarmingUp!QueueDropsExpired
      <3> QED
        BY <1>3, <3>2
    <2> QED
      BY <1>5, <2>1, <2>2, <2>3, <2>4, <2>5, <2>6, <2>7, <2>8 DEF WarmingUp!QueueStep
  <1>6 ASSUME NEW w \in Owner, WarmingUp!ServiceStep(w) PROVE P
    <2>1 CASE WarmingUp!Reclaims(w)
      BY <1>1, <2>1 DEF WarmingUp!Reclaims
    <2>2 CASE WarmingUp!SessionEnds(w)
      BY <1>3, <2>2 DEF WarmingUp!SessionEnds, WarmingUp!Idle
    <2> QED
      BY <1>6, <1>b, <2>1, <2>2, ServiceStepLeaves
  <1>7 ASSUME NEW w \in Owner, WarmingUp!Crashes(w) PROVE P
    BY <1>3, <1>7 DEF WarmingUp!Crashes, WarmingUp!Idle
  <1>8 ASSUME NEW w \in Owner, WarmingUp!ManualStep(w) PROVE P
    BY <1>8, <1>b, ManualStepLeaves
  <1>9 (\E w \in Owner : WarmingUp!Heartbeat(w) \/ WarmingUp!Stops(w)) \/ (\E j \in Job : WarmingUp!Enqueues(j) \/ WarmingUp!GrowsStale(j)) \/ WarmingUp!LeaseLapses \/ WarmingUp!DayPasses
       => UNCHANGED queue
    BY DEF WarmingUp!Heartbeat, WarmingUp!Stops, WarmingUp!Enqueues, WarmingUp!GrowsStale, WarmingUp!LeaseLapses, WarmingUp!DayPasses
  <1> HIDE DEF P
  <1>10 P
    BY <1>b, <1>5, <1>6, <1>7, <1>8, <1>9 DEF WarmingUp!Next
  <1> QED
    BY <1>10 DEF P

\* The progress that a thread has read is that of its job.
Agree(w) == job[manual[w].job].days = manual[w].days /\ job[manual[w].job].rows = manual[w].rows
\* What is stored of a job: its rows are what has been added, and those of the days done.
JobInv(j) ==
  /\ job[j].days <= Len(JobDays[j])
  /\ job[j].rows = inserted[j]
  /\ IF j \in Injects
     THEN /\ job[j].days * JobRows <= job[j].rows
          /\ job[j].rows <= (job[j].days + 1) * JobRows
          /\ job[j].days = Len(JobDays[j]) => job[j].rows = job[j].days * JobRows
     ELSE job[j].rows = 0
  /\ job[j].status = "COMPLETED" => job[j].days = Len(JobDays[j])

\* A thread has a job from its selection to its end; what it has read of its progress
\* may be old, and never is ahead.
HasJob(w) ==
  IF manual[w].pc \in {"rest", "ended"} THEN manual[w].job = None
  ELSE manual[w].job \in Job /\ manual[w].days <= job[manual[w].job].days

\* A thread works on a day that the job still has, and adds no more to it than it lacks.
DayLeft(w) ==
  /\ manual[w].pc \in Beyond => manual[w].days < Len(JobDays[manual[w].job])
  /\ manual[w].pc \in Adding => manual[w].job \in Injects
  /\ manual[w].pc \in Removing => manual[w].job \notin Injects
  /\ manual[w].pc = "inserting" => WarmingUp!Added(w) < JobRows
  /\ manual[w].pc = "progress" /\ manual[w].job \in Injects => WarmingUp!Added(w) >= JobRows

\* Whoever works on its own job has its true progress. A thread gets there past the mark,
\* and keeps the mark from its selection on or never has it again: while it has it, nobody
\* can have come to work on the job that it has selected.
UpToDate(w) ==
  /\ manual[w].pc \in Beyond /\ WarmingUp!Own(w) => Agree(w)
  /\ mark = w /\ manual[w].pc = "working" /\ WarmingUp!Own(w) => Agree(w)
  /\ mark = w /\ manual[w].pc = "selected" =>
       /\ Agree(w)
       /\ \A v \in Owner : manual[v].job = manual[w].job /\ WarmingUp!Own(v) => manual[v].pc \notin Beyond

\* Between sessions the thread has ended.
Rested(w) == service[w].pc # "session" => manual[w].pc = "ended"
\* An insertion holds the lock of the progress row, so that the count that it began with
\* stays true.
Locked(w) ==
  /\ manual[w].pc = "inserting" => rowLock = <<"manual", w>>
  /\ queue[w].pc = "counted" =>
       /\ rowLock = <<"queue", w>>
       /\ \A d \in 0..LastDay : d = WarmingUp!NextDay(w) => rows[d].filled < DayRows
FilledOnce == \A d \in 0..LastDay : rows[d].filled <= DayRows
WarmupInv ==
  /\ WarmingUp!TypeOK
  /\ \A j \in Job : JobInv(j)
  /\ \A w \in Owner : HasJob(w) /\ DayLeft(w) /\ UpToDate(w) /\ Rested(w) /\ Locked(w)
  /\ FilledOnce /\ WarmingUp!NoJobStranded

\* The fencing mark is dropped, or taken by who has renewed its lease.
LEMMA MarkMoves ==
  ASSUME WarmingUp!TypeOK, WarmingUp!Next
  PROVE  mark' \in {mark, None} \/ \E w \in Owner : service[w].pc = "renewed" /\ mark' = w
  <1> DEFINE P == mark' \in {mark, None} \/ \E w \in Owner : service[w].pc = "renewed" /\ mark' = w
  <1>1 ASSUME NEW w \in Owner, WarmingUp!Marks(w) PROVE P
    BY <1>1 DEF WarmingUp!Marks, WarmingUp!ServiceAt
  <1>2 ASSUME NEW w \in Owner, WarmingUp!ReportsError(w) \/ WarmingUp!Releases(w) PROVE P
    BY <1>2 DEF WarmingUp!ReportsError, WarmingUp!Releases
  <1>3 ASSUME NEW w \in Owner, WarmingUp!QueueStep(w) \/ WarmingUp!ManualStep(w) \/ WarmingUp!Heartbeat(w) \/ WarmingUp!Stops(w) \/ WarmingUp!Crashes(w) PROVE UNCHANGED mark
    BY <1>3, QueueStepLeaves, ManualStepLeaves DEF WarmingUp!Heartbeat, WarmingUp!Stops, WarmingUp!Crashes, WarmingUp!leaseVars
  <1>4 (\E j \in Job : WarmingUp!Enqueues(j) \/ WarmingUp!GrowsStale(j)) \/ WarmingUp!LeaseLapses \/ WarmingUp!DayPasses => UNCHANGED mark
    BY DEF WarmingUp!Enqueues, WarmingUp!GrowsStale, WarmingUp!LeaseLapses, WarmingUp!DayPasses, WarmingUp!leaseVars
  <1>5 UNCHANGED mark => P
    OBVIOUS
  <1> HIDE DEF P
  <1>6 P
    BY <1>1, <1>2, <1>3, <1>4, <1>5, ServiceStepLeaves DEF WarmingUp!Next
  <1> QED
    BY <1>6 DEF P

\* The lease, the fencing mark and the day stay typed.
LEMMA LeaseTyped ==
  ASSUME WarmingUp!TypeOK, WarmingUp!Next
  PROVE  lease' \in Owner \cup {None} /\ mark' \in Owner \cup {None} /\ today' \in 0..LastDay
  <1> DEFINE P == lease' \in Owner \cup {None} /\ today' \in 0..LastDay
  <1>a lease \in Owner \cup {None} /\ mark \in Owner \cup {None} /\ today \in 0..LastDay
    BY WarmupFacts
  <1>b UNCHANGED <<lease, today>> => P
    BY <1>a
  <1>1 ASSUME NEW w \in Owner, WarmingUp!ServiceStep(w) PROVE P
    <2>1 lease' = w \/ lease' = None \/ UNCHANGED lease
      BY <1>1 DEF WarmingUp!ServiceStep, WarmingUp!Acquires, WarmingUp!RenewsFirst, WarmingUp!Marks, WarmingUp!Reclaims, WarmingUp!SessionEnds, WarmingUp!ReportsError, WarmingUp!Releases, WarmingUp!leaseVars
    <2> QED
      BY <1>1, <1>a, <2>1, ServiceStepLeaves
  <1>2 ASSUME NEW w \in Owner, WarmingUp!QueueStep(w) \/ WarmingUp!ManualStep(w) \/ WarmingUp!Heartbeat(w) \/ WarmingUp!Stops(w) \/ WarmingUp!Crashes(w)
       PROVE UNCHANGED <<lease, today>>
    BY <1>2, QueueStepLeaves, ManualStepLeaves DEF WarmingUp!Heartbeat, WarmingUp!Stops, WarmingUp!Crashes, WarmingUp!leaseVars
  <1>3 (\E j \in Job : WarmingUp!Enqueues(j) \/ WarmingUp!GrowsStale(j)) => UNCHANGED <<lease, today>>
    BY DEF WarmingUp!Enqueues, WarmingUp!GrowsStale, WarmingUp!leaseVars
  <1>4 WarmingUp!LeaseLapses => P
    BY <1>a DEF WarmingUp!LeaseLapses
  <1>5 WarmingUp!DayPasses => P
    BY <1>a, WarmupAssumption DEF WarmingUp!DayPasses, WarmingUp!leaseVars
  <1> HIDE DEF P
  <1>6 P
    BY <1>b, <1>1, <1>2, <1>3, <1>4, <1>5 DEF WarmingUp!Next
  <1>7 mark' \in Owner \cup {None}
    BY <1>a, MarkMoves
  <1> QED
    BY <1>6, <1>7 DEF P

\* The count of faults stays within its bound.
LEMMA WarmupFaultsTyped ==
  ASSUME WarmingUp!TypeOK, WarmingUp!Next
  PROVE  faults' \in 0..MaxFaults
  <1>a faults \in 0..MaxFaults
    BY WarmupFacts
  <1>1 UNCHANGED faults \/ (faults < MaxFaults /\ faults' = faults + 1)
    <2> DEFINE P == UNCHANGED faults \/ (faults < MaxFaults /\ faults' = faults + 1)
    <2>1 ASSUME NEW w \in Owner, WarmingUp!ServiceStep(w) PROVE P
      BY <2>1 DEF WarmingUp!ServiceStep, WarmingUp!Acquires, WarmingUp!RenewsFirst, WarmingUp!Marks, WarmingUp!Reclaims, WarmingUp!SessionEnds, WarmingUp!ReportsError, WarmingUp!Releases, WarmingUp!NoFault, WarmingUp!Fault
    <2>2 ASSUME NEW w \in Owner, WarmingUp!QueueStep(w) PROVE P
      BY <2>2 DEF WarmingUp!QueueStep, WarmingUp!QueueEnds, WarmingUp!QueueFails, WarmingUp!QueueChecks, WarmingUp!QueueAddsPartition, WarmingUp!QueueCounts, WarmingUp!QueueInserts, WarmingUp!QueueRenews, WarmingUp!QueueDropsExpired, WarmingUp!NoFault, WarmingUp!Fault
    <2>3 ASSUME NEW w \in Owner, WarmingUp!ManualStep(w) PROVE P
      BY <2>3 DEF WarmingUp!ManualStep, WarmingUp!ManualEnds, WarmingUp!Selects, WarmingUp!Claims, WarmingUp!Disturbed, WarmingUp!StartsDay, WarmingUp!Excludes, WarmingUp!ManualChecks, WarmingUp!ManualAddsPartition, WarmingUp!ManualDrops,
         WarmingUp!ManualBegins, WarmingUp!ManualInserts, WarmingUp!ManualRenews, WarmingUp!ManualDayDone, WarmingUp!Completes, WarmingUp!Requeues, WarmingUp!FailsJob, WarmingUp!Leaves, WarmingUp!Strands, WarmingUp!NoFault, WarmingUp!Fault
    <2>4 ASSUME NEW w \in Owner, WarmingUp!Heartbeat(w) \/ WarmingUp!Stops(w) \/ WarmingUp!Crashes(w) PROVE P
      BY <2>4 DEF WarmingUp!Heartbeat, WarmingUp!Stops, WarmingUp!Crashes, WarmingUp!NoFault, WarmingUp!Fault
    <2>5 (\E j \in Job : WarmingUp!Enqueues(j) \/ WarmingUp!GrowsStale(j)) \/ WarmingUp!LeaseLapses \/ WarmingUp!DayPasses => P
      BY DEF WarmingUp!Enqueues, WarmingUp!GrowsStale, WarmingUp!LeaseLapses, WarmingUp!DayPasses, WarmingUp!NoFault, WarmingUp!Fault
    <2> HIDE DEF P
    <2>6 P
      BY <2>1, <2>2, <2>3, <2>4, <2>5 DEF WarmingUp!Next
    <2> QED
      BY <2>6 DEF P
  <1> QED
    BY <1>a, <1>1, WarmupAssumption

\* The rows of one more day.
LEMMA JobRowsOfDays ==
  ASSUME NEW d \in Nat
  PROVE  d * JobRows \in Nat /\ (d + 1) * JobRows = d * JobRows + JobRows
  BY WarmupAssumption

\* The day on which a thread works is one of its job.
LEMMA DayOfJob ==
  ASSUME WarmingUp!TypeOK, NEW w \in Owner, HasJob(w), DayLeft(w), manual[w].pc \in Beyond
  PROVE  /\ manual[w].job \in Job /\ manual[w].days < Len(JobDays[manual[w].job])
         /\ manual[w].days <= job[manual[w].job].days
         /\ WarmingUp!ThisDay(w) \in 0..LastDay
  <1>1 manual[w].job \in Job /\ manual[w].days <= job[manual[w].job].days
    BY DEF HasJob, Beyond, Adding, Removing
  <1>2 manual[w].days \in Nat /\ manual[w].days < Len(JobDays[manual[w].job])
    BY WarmupFacts DEF ManualState, DayLeft
  <1>3 JobDays[manual[w].job] \in Seq(0..LastDay)
    BY <1>1, WarmupAssumption
  <1>4 manual[w].days + 1 \in 1..Len(JobDays[manual[w].job])
    BY <1>2, <1>3
  <1>5 WarmingUp!ThisDay(w) \in 0..LastDay
    <2>1 ASSUME NEW S, NEW s \in Seq(S), NEW k \in 1..Len(s) PROVE s[k] \in S
      OBVIOUS
    <2>2 JobDays[manual[w].job][manual[w].days + 1] \in 0..LastDay
      BY <1>3, <1>4, <2>1
    <2> QED
      BY <2>2 DEF WarmingUp!ThisDay
  <1> QED
    BY <1>1, <1>2, <1>5

\* How the stored progress of a job changes: only by the thread that owns it, to what that
\* thread has in its hands; and only who has selected it comes to own it.
JobMoved(j) ==
  \/ /\ job'[j].days = job[j].days /\ job'[j].rows = job[j].rows
     /\ \/ job'[j].owner \in {job[j].owner, None}
        \/ \E w \in Owner : /\ job[j].owner = None /\ job'[j].owner = w
                            /\ manual[w].job = j /\ manual[w].pc = "selected"
                            /\ manual'[w].pc = "working" /\ manual'[w].job = j
  \/ \E w \in Owner : /\ job[j].owner = w /\ job'[j].owner = w
                      /\ manual[w].job = j /\ manual[w].pc \in {"inserting", "progress"}
                      /\ job'[j].days = manual'[w].days /\ job'[j].rows = manual'[w].rows
                      /\ job'[j].days >= job[j].days
JobPart ==
  /\ job' \in [Job -> JobState] /\ inserted' \in [Job -> Nat]
  /\ \A j \in Job : /\ job'[j].owner # None <=> job'[j].status = "RUNNING"
                    /\ JobInv(j)' /\ JobMoved(j)
Threads == \A w \in Owner : HasJob(w) /\ DayLeft(w) /\ UpToDate(w)

\* A job keeps its progress when its status changes.
LEMMA StatusChanges ==
  ASSUME WarmingUp!TypeOK, \A j \in Job : JobInv(j), UNCHANGED inserted,
         job' \in [Job -> JobState],
         \A j \in Job : /\ job'[j].days = job[j].days /\ job'[j].rows = job[j].rows
                        /\ job'[j].owner # None <=> job'[j].status = "RUNNING"
                        /\ job'[j].status = "COMPLETED" => job[j].status = "COMPLETED" \/ job[j].days = Len(JobDays[j])
                        /\ \/ job'[j].owner \in {job[j].owner, None}
                           \/ \E w \in Owner : /\ job[j].owner = None /\ job'[j].owner = w
                                               /\ manual[w].job = j /\ manual[w].pc = "selected"
                                               /\ manual'[w].pc = "working" /\ manual'[w].job = j
  PROVE  JobPart
  <1>1 ASSUME NEW j \in Job PROVE JobInv(j)'
    BY <1>1 DEF JobInv
  <1>2 \A j \in Job : JobMoved(j)
    BY DEF JobMoved
  <1>3 inserted' \in [Job -> Nat]
    BY WarmupFacts
  <1> QED
    BY <1>1, <1>2, <1>3 DEF JobPart

\* What queueing does to the row of a job.
LEMMA QueuedRow ==
  ASSUME NEW row \in JobState, NEW next, row.owner # None <=> row.status = "RUNNING",
         \/ next = row
         \/ next = [row EXCEPT !.status = "QUEUED", !.owner = None]
         \/ row.status = "NONE" /\ next = [row EXCEPT !.status = "QUEUED"]
  PROVE  /\ next.days = row.days /\ next.rows = row.rows
         /\ next.owner # None <=> next.status = "RUNNING"
         /\ next.status = "COMPLETED" => row.status = "COMPLETED"
         /\ next.owner \in {row.owner, None}
  <1>1 CASE next = row
    BY <1>1
  <1>2 CASE next = [row EXCEPT !.status = "QUEUED", !.owner = None]
    BY <1>2 DEF JobState
  <1>3 CASE row.status = "NONE" /\ next = [row EXCEPT !.status = "QUEUED"]
    BY <1>3 DEF JobState
  <1> QED
    BY <1>1, <1>2, <1>3

\* Reclaiming jobs keeps their progress.
LEMMA JobReclaimed ==
  ASSUME WarmingUp!TypeOK, \A j \in Job : JobInv(j), NEW w \in Owner, WarmingUp!Reclaims(w)
  PROVE  JobPart
  <1>a job \in [Job -> JobState] /\ \A j \in Job : job[j].owner # None <=> job[j].status = "RUNNING"
    BY WarmupFacts
  <1>1 job' = [j \in Job |-> IF j \in stale THEN [job[j] EXCEPT !.status = "QUEUED", !.owner = None] ELSE job[j]]
    BY DEF WarmingUp!Reclaims, WarmingUp!Requeued
  <1>2 job' \in [Job -> JobState]
    BY <1>a, <1>1 DEF JobState
  <1>3 ASSUME NEW j \in Job
       PROVE  job'[j] = job[j] \/ job'[j] = [job[j] EXCEPT !.status = "QUEUED", !.owner = None]
    BY <1>1, <1>3
  <1>4 ASSUME NEW j \in Job
       PROVE  /\ job'[j].days = job[j].days /\ job'[j].rows = job[j].rows
              /\ job'[j].owner # None <=> job'[j].status = "RUNNING"
              /\ job'[j].status = "COMPLETED" => job[j].status = "COMPLETED"
              /\ job'[j].owner \in {job[j].owner, None}
    <2>1 job[j] \in JobState /\ (job[j].owner # None <=> job[j].status = "RUNNING")
      BY <1>a, <1>4
    <2> QED
      BY <1>3, <1>4, <2>1, QueuedRow
  <1>5 UNCHANGED inserted
    BY DEF WarmingUp!Reclaims
  <1> QED
    BY <1>2, <1>4, <1>5, StatusChanges

\* A new job has no progress.
LEMMA JobEnqueued ==
  ASSUME WarmingUp!TypeOK, \A j \in Job : JobInv(j), NEW i \in Job, WarmingUp!Enqueues(i)
  PROVE  JobPart
  <1>a job \in [Job -> JobState] /\ \A j \in Job : job[j].owner # None <=> job[j].status = "RUNNING"
    BY WarmupFacts
  <1>1 job' = [job EXCEPT ![i].status = "QUEUED"] /\ job[i].status = "NONE" /\ UNCHANGED inserted
    BY DEF WarmingUp!Enqueues
  <1>2 job' \in [Job -> JobState]
    BY <1>a, <1>1 DEF JobState
  <1>3 ASSUME NEW j \in Job
       PROVE  job'[j] = job[j] \/ (job[j].status = "NONE" /\ job'[j] = [job[j] EXCEPT !.status = "QUEUED"])
    BY <1>1, <1>3, <1>a
  <1>4 ASSUME NEW j \in Job
       PROVE  /\ job'[j].days = job[j].days /\ job'[j].rows = job[j].rows
              /\ job'[j].owner # None <=> job'[j].status = "RUNNING"
              /\ job'[j].status = "COMPLETED" => job[j].status = "COMPLETED"
              /\ job'[j].owner \in {job[j].owner, None}
    <2>1 job[j] \in JobState /\ (job[j].owner # None <=> job[j].status = "RUNNING")
      BY <1>a, <1>4
    <2> QED
      BY <1>3, <1>4, <2>1, QueuedRow
  <1> QED
    BY <1>1, <1>2, <1>4, StatusChanges

\* Claiming a job keeps its progress.
LEMMA JobClaimed ==
  ASSUME WarmingUp!TypeOK, \A j \in Job : JobInv(j), NEW w \in Owner, HasJob(w), WarmingUp!Claims(w)
  PROVE  JobPart
  <1>a /\ job \in [Job -> JobState] /\ \A j \in Job : job[j].owner # None <=> job[j].status = "RUNNING"
       /\ manual \in [Owner -> ManualState]
    BY WarmupFacts
  <1>b manual[w].pc = "selected" /\ manual[w].job \in Job
    BY DEF WarmingUp!Claims, WarmingUp!ManualAt, HasJob
  <1>1 UNCHANGED inserted
    BY DEF WarmingUp!Claims
  <1>2 CASE UNCHANGED job
    BY <1>1, <1>2, <1>a, StatusChanges
  <1>3 CASE manual[w].job \in WarmingUp!Queued
    <2> DEFINE i == manual[w].job
    <2>1 /\ job' = [job EXCEPT ![i].status = "RUNNING", ![i].owner = w]
         /\ manual' = [manual EXCEPT ![w].pc = "working"] /\ job[i].status = "QUEUED"
      BY <1>3 DEF WarmingUp!Claims, WarmingUp!ManualGoes, WarmingUp!Queued
    <2>2 manual'[w].pc = "working" /\ manual'[w].job = i
      BY <1>a, <2>1 DEF ManualState
    <2>3 job' \in [Job -> JobState]
      BY <1>a, <1>b, <2>1 DEF JobState
    <2>4 ASSUME NEW j \in Job, j # i PROVE job'[j] = job[j]
      BY <2>1, <2>4, <1>a
    <2>5 job'[i] = [job[i] EXCEPT !.status = "RUNNING", !.owner = w]
      BY <2>1, <1>a, <1>b
    <2>6 w # None /\ job[i].owner = None
      BY <2>1, <1>a, <1>b, WarmupAssumption
    <2>7 /\ job'[i].days = job[i].days /\ job'[i].rows = job[i].rows
         /\ job'[i].owner = w /\ job'[i].status = "RUNNING"
      BY <2>5, <1>a, <1>b DEF JobState
    <2>8 ASSUME NEW j \in Job
         PROVE  /\ job'[j].days = job[j].days /\ job'[j].rows = job[j].rows
                /\ job'[j].owner # None <=> job'[j].status = "RUNNING"
                /\ job'[j].status = "COMPLETED" => job[j].status = "COMPLETED"
                /\ \/ job'[j].owner \in {job[j].owner, None}
                   \/ \E v \in Owner : /\ job[j].owner = None /\ job'[j].owner = v
                                       /\ manual[v].job = j /\ manual[v].pc = "selected"
                                       /\ manual'[v].pc = "working" /\ manual'[v].job = j
      <3>1 CASE j = i
        BY <3>1, <2>2, <2>6, <2>7, <1>b
      <3>2 CASE j # i
        BY <3>2, <2>4, <1>a
      <3> QED
        BY <3>1, <3>2
    <2> HIDE DEF i
    <2> QED
      BY <1>1, <2>3, <2>8, StatusChanges
  <1> QED
    BY <1>2, <1>3 DEF WarmingUp!Claims

\* What the end of a thread's work does to its job.
LEMMA JobLeft ==
  ASSUME WarmingUp!TypeOK, \A j \in Job : JobInv(j), NEW w \in Owner, manual[w].job \in Job, UNCHANGED inserted,
         NEW status \in {"QUEUED", "COMPLETED", "FAILED"}, WarmingUp!Leaves(w, status),
         status = "COMPLETED" => job[manual[w].job].days = Len(JobDays[manual[w].job])
  PROVE  JobPart
  <1>a job \in [Job -> JobState] /\ \A j \in Job : job[j].owner # None <=> job[j].status = "RUNNING"
    BY WarmupFacts
  <1>1 CASE UNCHANGED job
    BY <1>1, <1>a, StatusChanges
  <1>2 CASE job' = [job EXCEPT ![manual[w].job].status = status, ![manual[w].job].owner = None]
    <2> DEFINE i == manual[w].job
    <2>1 job' = [job EXCEPT ![i].status = status, ![i].owner = None]
      BY <1>2
    <2>2 status = "COMPLETED" => job[i].days = Len(JobDays[i])
      OBVIOUS
    <2>3 i \in Job
      OBVIOUS
    <2> HIDE DEF i
    <2>4 job' \in [Job -> JobState]
      <3>1 job' = [job EXCEPT ![i] = [job[i] EXCEPT !.status = status, !.owner = None]]
        BY <1>a, <2>1, <2>3
      <3>2 [job[i] EXCEPT !.status = status, !.owner = None] \in JobState
        BY <1>a, <2>3 DEF JobState
      <3> QED
        BY <1>a, <2>3, <3>1, <3>2
    <2>5 ASSUME NEW j \in Job
         PROVE  job'[j] = job[j] \/ (j = i /\ job'[j] = [job[j] EXCEPT !.status = status, !.owner = None])
      BY <1>a, <2>1, <2>5
    <2>6 ASSUME NEW j \in Job
         PROVE  /\ job'[j].days = job[j].days /\ job'[j].rows = job[j].rows
                /\ job'[j].owner # None <=> job'[j].status = "RUNNING"
                /\ job'[j].status = "COMPLETED" => job[j].status = "COMPLETED" \/ job[j].days = Len(JobDays[j])
                /\ job'[j].owner \in {job[j].owner, None}
      BY <1>a, <2>2, <2>5, <2>6 DEF JobState
    <2> QED
      BY <2>4, <2>6, StatusChanges
  <1> QED
    BY <1>1, <1>2 DEF WarmingUp!Leaves

\* Ending a job keeps its progress.
LEMMA JobEnds ==
  ASSUME WarmingUp!TypeOK, \A j \in Job : JobInv(j), NEW w \in Owner, HasJob(w),
         WarmingUp!Completes(w) \/ WarmingUp!Requeues(w) \/ WarmingUp!FailsJob(w)
  PROVE  JobPart
  <1>a job \in [Job -> JobState] /\ manual \in [Owner -> ManualState]
    BY WarmupFacts
  <1>1 UNCHANGED inserted
    BY DEF WarmingUp!Completes, WarmingUp!Requeues, WarmingUp!FailsJob, WarmingUp!Leaves, WarmingUp!Strands
  <1>2 manual[w].job \in Job /\ manual[w].days <= job[manual[w].job].days
    BY DEF WarmingUp!Completes, WarmingUp!Requeues, WarmingUp!FailsJob, WarmingUp!ManualAt, HasJob
  <1>s CASE WarmingUp!Strands(w)
    BY <1>1, <1>s, WarmupFacts, StatusChanges DEF WarmingUp!Strands
  <1>3 CASE WarmingUp!Completes(w)
    <2>1 WarmingUp!Leaves(w, "COMPLETED") /\ manual[w].days = Len(JobDays[manual[w].job])
      BY <1>3 DEF WarmingUp!Completes, WarmingUp!Finished
    <2>2 job[manual[w].job].days \in Nat /\ job[manual[w].job].days <= Len(JobDays[manual[w].job])
      BY <1>a, <1>2 DEF JobInv, JobState
    <2>3 job[manual[w].job].days = Len(JobDays[manual[w].job])
      BY <1>2, <2>1, <2>2
    <2> QED
      BY <1>1, <1>2, <2>1, <2>3, JobLeft
  <1>4 CASE WarmingUp!Requeues(w)
    <2>1 WarmingUp!Leaves(w, "QUEUED") \/ WarmingUp!Strands(w)
      BY <1>4 DEF WarmingUp!Requeues
    <2> QED
      BY <1>1, <1>2, <1>s, <2>1, JobLeft
  <1>5 CASE WarmingUp!FailsJob(w)
    <2>1 WarmingUp!Leaves(w, "FAILED") \/ WarmingUp!Leaves(w, "QUEUED") \/ WarmingUp!Strands(w)
      BY <1>5 DEF WarmingUp!FailsJob
    <2> QED
      BY <1>1, <1>2, <1>s, <2>1, JobLeft
  <1> QED
    BY <1>3, <1>4, <1>5

\* A thread that owns its job stores other progress for it, and changes no other job.
LEMMA JobProgresses ==
  ASSUME WarmingUp!TypeOK, \A j \in Job : JobInv(j), NEW w \in Owner, NEW i \in Job, i = manual[w].job,
         manual[w].pc \in {"inserting", "progress"}, job[i].owner = w,
         NEW days \in Nat, NEW done \in Nat, days >= job[i].days, days <= Len(JobDays[i]),
         job' = [job EXCEPT ![i].days = days, ![i].rows = done],
         manual'[w].days = days, manual'[w].rows = done,
         inserted' \in [Job -> Nat], inserted'[i] = done, \A j \in Job \ {i} : inserted'[j] = inserted[j],
         IF i \in Injects
         THEN /\ days * JobRows <= done /\ done <= (days + 1) * JobRows
              /\ days = Len(JobDays[i]) => done = days * JobRows
         ELSE done = 0
  PROVE  JobPart
  <1>a job \in [Job -> JobState] /\ \A j \in Job : job[j].owner # None <=> job[j].status = "RUNNING"
    BY WarmupFacts
  <1>b w # None
    BY WarmupAssumption
  <1>1 job' \in [Job -> JobState]
    BY <1>a DEF JobState
  <1>2 job'[i] = [job[i] EXCEPT !.days = days, !.rows = done]
    BY <1>a
  <1>3 /\ job'[i].days = days /\ job'[i].rows = done
       /\ job'[i].owner = w /\ job'[i].status = "RUNNING"
    BY <1>a, <1>b, <1>2 DEF JobState
  <1>4 JobInv(i)'
    BY <1>3 DEF JobInv
  <1>5 JobMoved(i)
    BY <1>3 DEF JobMoved
  <1>6 ASSUME NEW j \in Job \ {i}
       PROVE  /\ job'[j].owner # None <=> job'[j].status = "RUNNING"
              /\ JobInv(j)' /\ JobMoved(j)
    <2>1 job'[j] = job[j] /\ inserted'[j] = inserted[j] /\ JobInv(j)
      BY <1>a, <1>6
    <2>2 JobInv(j)'
      BY <2>1 DEF JobInv
    <2> QED
      BY <1>a, <2>1, <2>2 DEF JobMoved
  <1>7 ASSUME NEW j \in Job
       PROVE  /\ job'[j].owner # None <=> job'[j].status = "RUNNING"
              /\ JobInv(j)' /\ JobMoved(j)
    BY <1>b, <1>3, <1>4, <1>5, <1>6
  <1> QED
    BY <1>1, <1>7 DEF JobPart

\* An insertion is counted in the progress of its job.
LEMMA JobAdded ==
  ASSUME WarmingUp!TypeOK, \A j \in Job : JobInv(j), NEW w \in Owner, HasJob(w), DayLeft(w), UpToDate(w), WarmingUp!ManualInserts(w)
  PROVE  JobPart
  <1>a /\ job \in [Job -> JobState] /\ manual \in [Owner -> ManualState] /\ inserted \in [Job -> Nat]
       /\ \A j \in Job : job[j].owner # None <=> job[j].status = "RUNNING"
    BY WarmupFacts
  <1>b manual[w].pc = "inserting" /\ manual[w].pc \in Beyond
    BY DEF WarmingUp!ManualInserts, WarmingUp!ManualAt, Beyond, Adding
  <1>c /\ manual[w].job \in Job /\ manual[w].days < Len(JobDays[manual[w].job])
       /\ manual[w].job \in Injects /\ WarmingUp!Added(w) < JobRows
    BY <1>b, DayOfJob DEF DayLeft, Adding
  <1>1 CASE UNCHANGED <<job, inserted>>
    BY <1>1, <1>a, StatusChanges
  <1>2 CASE WarmingUp!Own(w) /\ WarmingUp!HasPartition(WarmingUp!ThisDay(w))
    <2> DEFINE i == manual[w].job
               done == manual[w].days * JobRows + WarmingUp!Added(w) + 1
               p == manual[w].days * JobRows
    <2>1 /\ job' = [job EXCEPT ![i].days = manual[w].days, ![i].rows = done]
         /\ inserted' = [inserted EXCEPT ![i] = @ + 1]
         /\ manual' = [manual EXCEPT ![w].pc = "renewing", ![w].rows = done]
      BY <1>2 DEF WarmingUp!ManualInserts, WarmingUp!Progressed
    <2>2 Agree(w) /\ job[i].owner = w
      BY <1>2, <1>b DEF UpToDate, WarmingUp!Own
    <2>3 /\ manual[w].days \in Nat /\ manual[w].rows \in Nat
         /\ job[i].days = manual[w].days /\ job[i].rows = manual[w].rows /\ JobInv(i)
      BY <1>a, <1>c, <2>2 DEF ManualState, Agree
    <2>4 /\ p \in Nat /\ (manual[w].days + 1) * JobRows = p + JobRows /\ JobRows \in Nat
      BY <2>3, JobRowsOfDays, WarmupAssumption
    <2>5 /\ p <= manual[w].rows /\ manual[w].rows <= p + JobRows /\ inserted[i] = manual[w].rows
      BY <1>c, <2>3, <2>4 DEF JobInv
    <2>6 WarmingUp!Added(w) = IF manual[w].rows > p THEN manual[w].rows - p ELSE 0
      BY DEF WarmingUp!Added
    <2>7 done = p + WarmingUp!Added(w) + 1
      OBVIOUS
    <2>8 i \in Job /\ manual[w].days < Len(JobDays[i]) /\ i \in Injects /\ i = manual[w].job
      BY <1>c
    <2> HIDE DEF p, done, i
    <2>9 WarmingUp!Added(w) = manual[w].rows - p
      BY <2>3, <2>4, <2>5, <2>6
    <2>10 done = manual[w].rows + 1 /\ p <= done /\ done <= p + JobRows /\ done \in Nat
      BY <2>3, <2>4, <2>5, <2>7, <2>9, <1>c
    <2>11 manual'[w].days = manual[w].days /\ manual'[w].rows = done
      BY <1>a, <2>1 DEF ManualState
    <2>12 /\ inserted' \in [Job -> Nat] /\ inserted'[i] = done /\ \A j \in Job \ {i} : inserted'[j] = inserted[j]
      BY <1>a, <2>1, <2>5, <2>8, <2>10, <2>3
    <2>13 Len(JobDays[i]) \in Nat
      BY <2>8, WarmupAssumption
    <2>14 /\ manual[w].days * JobRows <= done /\ done <= (manual[w].days + 1) * JobRows
      BY <2>4, <2>10 DEF p
    <2>15 manual[w].days >= job[i].days /\ manual[w].days <= Len(JobDays[i]) /\ manual[w].days # Len(JobDays[i])
      BY <2>3, <2>8, <2>13
    <2> QED
      BY <1>b, <2>1, <2>2, <2>3, <2>8, <2>10, <2>11, <2>12, <2>14, <2>15, JobProgresses
  <1> QED
    BY <1>1, <1>2 DEF WarmingUp!ManualInserts

\* A day that is done has its rows.
LEMMA JobDayDone ==
  ASSUME WarmingUp!TypeOK, \A j \in Job : JobInv(j), NEW w \in Owner, HasJob(w), DayLeft(w), UpToDate(w), WarmingUp!ManualDayDone(w)
  PROVE  JobPart
  <1>a /\ job \in [Job -> JobState] /\ manual \in [Owner -> ManualState] /\ inserted \in [Job -> Nat]
       /\ \A j \in Job : job[j].owner # None <=> job[j].status = "RUNNING"
    BY WarmupFacts
  <1>b manual[w].pc = "progress" /\ manual[w].pc \in Beyond /\ UNCHANGED inserted
    BY DEF WarmingUp!ManualDayDone, WarmingUp!ManualAt, Beyond
  <1>c /\ manual[w].job \in Job /\ manual[w].days < Len(JobDays[manual[w].job])
       /\ manual[w].job \in Injects => WarmingUp!Added(w) >= JobRows
    BY <1>b, DayOfJob DEF DayLeft
  <1>1 CASE UNCHANGED <<job, inserted>>
    BY <1>1, <1>a, StatusChanges
  <1>2 CASE WarmingUp!Own(w)
    <2> DEFINE i == manual[w].job
               days == manual[w].days + 1
               done == IF manual[w].job \in Injects THEN days * JobRows ELSE 0
               p == manual[w].days * JobRows
    <2>1 /\ job' = [job EXCEPT ![i].days = days, ![i].rows = done]
         /\ manual' = [manual EXCEPT ![w].pc = "working", ![w].days = days, ![w].rows = done]
      BY <1>2 DEF WarmingUp!ManualDayDone, WarmingUp!Progressed
    <2>2 Agree(w) /\ job[i].owner = w
      BY <1>2, <1>b DEF UpToDate, WarmingUp!Own
    <2>3 /\ manual[w].days \in Nat /\ manual[w].rows \in Nat
         /\ job[i].days = manual[w].days /\ job[i].rows = manual[w].rows /\ JobInv(i)
      BY <1>a, <1>c, <2>2 DEF ManualState, Agree
    <2>4 /\ p \in Nat /\ (manual[w].days + 1) * JobRows = p + JobRows /\ JobRows \in Nat
      BY <2>3, JobRowsOfDays, WarmupAssumption
    <2>5 WarmingUp!Added(w) = IF manual[w].rows > p THEN manual[w].rows - p ELSE 0
      BY DEF WarmingUp!Added
    <2>6 i \in Injects => p <= manual[w].rows /\ manual[w].rows <= p + JobRows /\ WarmingUp!Added(w) >= JobRows
      BY <1>c, <2>3, <2>4 DEF JobInv
    <2>7 i \notin Injects => manual[w].rows = 0 /\ done = 0
      BY <2>3 DEF JobInv
    <2>8 i \in Injects => done = p + JobRows /\ done = days * JobRows
      BY <2>4
    <2>9 i \in Job /\ manual[w].days < Len(JobDays[i]) /\ i = manual[w].job /\ inserted[i] = manual[w].rows
      BY <1>c, <2>3 DEF JobInv
    <2>10 days = manual[w].days + 1
      OBVIOUS
    <2> HIDE DEF p, done, i, days
    <2>11 done = manual[w].rows /\ done \in Nat
      <3>1 CASE i \in Injects
        BY <3>1, <2>3, <2>4, <2>5, <2>6, <2>8
      <3>2 CASE i \notin Injects
        BY <3>2, <2>3, <2>7
      <3> QED
        BY <3>1, <3>2
    <2>12 days \in Nat /\ manual'[w].days = days /\ manual'[w].rows = done
      BY <1>a, <2>1, <2>3, <2>10 DEF ManualState
    <2>13 Len(JobDays[i]) \in Nat
      BY <2>9, WarmupAssumption
    <2>14 days >= job[i].days /\ days <= Len(JobDays[i])
      BY <2>3, <2>9, <2>10, <2>13
    <2>15 i \in Injects => done <= (days + 1) * JobRows
      <3>1 (days + 1) * JobRows = days * JobRows + JobRows /\ days * JobRows \in Nat
        BY <2>12, JobRowsOfDays
      <3> QED
        BY <2>4, <2>8, <3>1
    <2>16 inserted' \in [Job -> Nat] /\ inserted'[i] = done /\ \A j \in Job \ {i} : inserted'[j] = inserted[j]
      BY <1>a, <1>b, <2>9, <2>11
    <2>17 IF i \in Injects
          THEN /\ days * JobRows <= done /\ done <= (days + 1) * JobRows
               /\ days = Len(JobDays[i]) => done = days * JobRows
          ELSE done = 0
      <3>1 i \in Injects => days * JobRows <= done
        BY <2>8, <2>11
      <3> QED
        BY <2>7, <2>8, <2>15, <3>1
    <2> QED
      BY <1>b, <2>1, <2>2, <2>9, <2>11, <2>12, <2>14, <2>16, <2>17, JobProgresses
  <1> QED
    BY <1>1, <1>2, <1>b DEF WarmingUp!ManualDayDone

\* The progress of the jobs is kept by every step.
LEMMA JobStep ==
  ASSUME WarmingUp!TypeOK, WarmingUp!Next, \A j \in Job : JobInv(j), Threads
  PROVE  JobPart
  <1>a UNCHANGED <<job, inserted>> => JobPart
    BY WarmupFacts, StatusChanges
  <1>1 ASSUME NEW w \in Owner, WarmingUp!ServiceStep(w) PROVE JobPart
    BY <1>1, <1>a, JobReclaimed, ServiceStepLeaves
  <1>2 ASSUME NEW w \in Owner, WarmingUp!ManualStep(w) PROVE JobPart
    <2>1 HasJob(w) /\ DayLeft(w) /\ UpToDate(w)
      BY DEF Threads
    <2>2 \/ UNCHANGED <<job, inserted>>
         \/ WarmingUp!Claims(w) \/ WarmingUp!ManualInserts(w) \/ WarmingUp!ManualDayDone(w)
         \/ WarmingUp!Completes(w) \/ WarmingUp!Requeues(w) \/ WarmingUp!FailsJob(w)
      BY <1>2, ManualStepLeaves
    <2> QED
      BY <1>a, <2>1, <2>2, JobClaimed, JobAdded, JobDayDone, JobEnds
  <1>3 ASSUME NEW w \in Owner, WarmingUp!QueueStep(w) PROVE JobPart
    BY <1>3, <1>a, QueueStepLeaves
  <1>4 ASSUME NEW w \in Owner, WarmingUp!Heartbeat(w) \/ WarmingUp!Stops(w) \/ WarmingUp!Crashes(w) PROVE JobPart
    BY <1>4, <1>a DEF WarmingUp!Heartbeat, WarmingUp!Stops, WarmingUp!Crashes
  <1>5 ASSUME NEW j \in Job, WarmingUp!Enqueues(j) \/ WarmingUp!GrowsStale(j) PROVE JobPart
    BY <1>5, <1>a, JobEnqueued DEF WarmingUp!GrowsStale
  <1>6 WarmingUp!LeaseLapses \/ WarmingUp!DayPasses => JobPart
    BY <1>a DEF WarmingUp!LeaseLapses, WarmingUp!DayPasses, WarmingUp!jobVars
  <1> QED
    BY <1>1, <1>2, <1>3, <1>4, <1>5, <1>6 DEF WarmingUp!Next

\* The rows of the table stay counts of days, whichever partition a removal empties.
LEMMA RowsCounted ==
  ASSUME WarmingUp!TypeOK, FilledOnce, NEW e, WarmingUp!DropPartition(e)
  PROVE  /\ rows' \in [0..LastDay -> RowState] /\ partitions' \subseteq 0..LastDay
         /\ \A d \in 0..LastDay : rows'[d].filled <= rows[d].filled
  <1>a rows \in [0..LastDay -> RowState] /\ partitions \subseteq 0..LastDay
    BY WarmupFacts
  <1>1 \A d \in 0..LastDay : rows'[d] \in {rows[d], [filled |-> 0, injected |-> 0]}
    BY DEF WarmingUp!DropPartition, WarmingUp!Day
  <1>2 rows' = [d \in 0..LastDay |-> rows'[d]]
    BY DEF WarmingUp!DropPartition, WarmingUp!Day
  <1>3 ASSUME NEW d \in 0..LastDay PROVE rows'[d] \in RowState /\ rows'[d].filled <= rows[d].filled
    BY <1>a, <1>1, <1>3 DEF RowState
  <1>4 rows' \in [0..LastDay -> RowState]
    BY <1>2, <1>3
  <1> QED
    BY <1>a, <1>3, <1>4 DEF WarmingUp!DropPartition

\* Filling adds to a day that the count under the lock has found to lack rows; nothing
\* else adds filled rows.
RowsPart ==
  /\ rows' \in [0..LastDay -> RowState] /\ partitions' \subseteq 0..LastDay /\ excluded' \subseteq 0..LastDay
  /\ \A d \in 0..LastDay :
       \/ rows'[d].filled <= rows[d].filled
       \/ \E w \in Owner : /\ queue[w].pc = "counted" /\ rows'[d].filled = rows[d].filled + 1
                           /\ rows[d].filled < DayRows /\ queue'[w].pc = "renewing" /\ rowLock' = None

\* A day is filled under the lock of its progress row.
LEMMA RowsStep ==
  ASSUME WarmingUp!TypeOK, WarmingUp!Next, Threads, FilledOnce, \A w \in Owner : Locked(w)
  PROVE  RowsPart
  <1>a /\ rows \in [0..LastDay -> RowState] /\ partitions \subseteq 0..LastDay /\ excluded \subseteq 0..LastDay
       /\ today \in 0..LastDay /\ queue \in [Owner -> QueueState]
    BY WarmupFacts
  <1>b UNCHANGED <<rows, partitions, excluded>> => RowsPart
    BY <1>a DEF RowsPart, RowState
  <1>c ASSUME UNCHANGED rows, partitions' \subseteq 0..LastDay, excluded' \subseteq 0..LastDay PROVE RowsPart
    BY <1>a, <1>c DEF RowsPart, RowState
  <1>d ASSUME NEW e, WarmingUp!DropPartition(e), UNCHANGED excluded PROVE RowsPart
    BY <1>a, <1>d, RowsCounted DEF RowsPart
  <1>1 ASSUME NEW w \in Owner, WarmingUp!ServiceStep(w) PROVE RowsPart
    BY <1>1, <1>b, ServiceStepLeaves
  <1>2 ASSUME NEW w \in Owner, WarmingUp!QueueStep(w) PROVE RowsPart
    <2>1 CASE WarmingUp!QueueInserts(w)
      <3> DEFINE e == WarmingUp!NextDay(w)
      <3>1 /\ rows' = [rows EXCEPT ![e].filled = @ + 1] /\ queue[w].pc = "counted"
           /\ UNCHANGED <<partitions, excluded>> /\ queue' = [queue EXCEPT ![w].pc = "renewing"]
           /\ rowLock' = IF rowLock = <<"queue", w>> THEN None ELSE rowLock
        BY <2>1 DEF WarmingUp!QueueInserts, WarmingUp!QueueAt
      <3>2 rowLock = <<"queue", w>> /\ \A d \in 0..LastDay : d = e => rows[d].filled < DayRows
        BY <3>1 DEF Locked
      <3> HIDE DEF e
      <3>3 queue'[w].pc = "renewing"
        BY <1>a, <3>1 DEF QueueState
      <3>4 ASSUME NEW d \in 0..LastDay
           PROVE  rows'[d] = rows[d] \/ (d = e /\ rows'[d] = [rows[d] EXCEPT !.filled = rows[d].filled + 1])
        BY <1>a, <3>1
      <3>5 ASSUME NEW d \in 0..LastDay
           PROVE  rows'[d].filled <= rows[d].filled \/ (rows'[d].filled = rows[d].filled + 1 /\ rows[d].filled < DayRows)
        <4>1 rows[d] \in RowState
          BY <1>a, <3>5
        <4>2 rows[d].filled \in Nat /\ rows'[d] = rows[d] => rows'[d].filled <= rows[d].filled
          BY <4>1 DEF RowState
        <4>3 rows'[d] = [rows[d] EXCEPT !.filled = rows[d].filled + 1] => rows'[d].filled = rows[d].filled + 1
          BY <4>1 DEF RowState
        <4>4 d = e => rows[d].filled < DayRows
          BY <3>2, <3>5
        <4>5 rows'[d] = rows[d] \/ (d = e /\ rows'[d] = [rows[d] EXCEPT !.filled = rows[d].filled + 1])
          BY <3>4, <3>5
        <4>6 rows[d].filled \in Nat
          BY <4>1 DEF RowState
        <4> QED
          BY <4>2, <4>3, <4>4, <4>5, <4>6
      <3>6 rows' \in [0..LastDay -> RowState]
        <4>1 ASSUME NEW d \in 0..LastDay PROVE rows'[d] \in RowState
          <5>1 rows[d] \in RowState
            BY <1>a, <4>1
          <5>2 [rows[d] EXCEPT !.filled = rows[d].filled + 1] \in RowState
            BY <5>1 DEF RowState
          <5> QED
            BY <3>4, <4>1, <5>1, <5>2
        <4>2 rows' = [d \in 0..LastDay |-> rows'[d]]
          BY <1>a, <3>1
        <4> QED
          BY <4>1, <4>2
      <3> QED
        BY <1>a, <3>1, <3>2, <3>3, <3>5, <3>6 DEF RowsPart
    <2>2 CASE WarmingUp!QueueDropsExpired(w)
      BY <1>d, <2>2 DEF WarmingUp!QueueDropsExpired
    <2>3 CASE UNCHANGED rows /\ ~ WarmingUp!QueueDropsExpired(w)
      <3>1 UNCHANGED partitions \/ partitions' = partitions \cup {today}
        <4>1 WarmingUp!QueueFails(w) \/ WarmingUp!QueueEnds(w) => UNCHANGED partitions
          BY DEF WarmingUp!QueueFails, WarmingUp!QueueEnds, WarmingUp!tableVars
        <4>2 WarmingUp!QueueChecks(w) \/ WarmingUp!QueueCounts(w) \/ WarmingUp!QueueInserts(w) \/ WarmingUp!QueueRenews(w) => UNCHANGED partitions
          BY DEF WarmingUp!QueueChecks, WarmingUp!QueueCounts, WarmingUp!QueueInserts, WarmingUp!QueueRenews, WarmingUp!tableVars
        <4>3 WarmingUp!QueueAddsPartition(w) => UNCHANGED partitions \/ partitions' = partitions \cup {today}
          BY DEF WarmingUp!QueueAddsPartition, WarmingUp!AddPartition
        <4> QED
          BY <1>2, <2>3, <4>1, <4>2, <4>3 DEF WarmingUp!QueueStep
      <3> QED
        BY <1>2, <1>a, <1>c, <2>3, <3>1, QueueStepLeaves
    <2> QED
      BY <1>2, <2>1, <2>2, <2>3, QueueStepLeaves
  <1>3 ASSUME NEW w \in Owner, WarmingUp!ManualStep(w) PROVE RowsPart
    <2>a HasJob(w) /\ DayLeft(w)
      BY DEF Threads
    <2>1 CASE WarmingUp!ManualDrops(w)
      BY <1>d, <2>1 DEF WarmingUp!ManualDrops
    <2>2 CASE WarmingUp!ManualInserts(w)
      <3> DEFINE e == WarmingUp!ThisDay(w)
      <3>1 /\ UNCHANGED rows \/ rows' = [rows EXCEPT ![e].injected = @ + 1]
           /\ UNCHANGED <<partitions, excluded>>
        BY <2>2 DEF WarmingUp!ManualInserts
      <3> HIDE DEF e
      <3>2 ASSUME NEW d \in 0..LastDay PROVE rows'[d] = rows[d] \/ rows'[d] = [rows[d] EXCEPT !.injected = rows[d].injected + 1]
        BY <1>a, <3>1
      <3>3 ASSUME NEW d \in 0..LastDay PROVE rows'[d].filled <= rows[d].filled
        <4>1 rows[d] \in RowState
          BY <1>a, <3>3
        <4>2 rows[d].filled \in Nat /\ [rows[d] EXCEPT !.injected = rows[d].injected + 1].filled = rows[d].filled
          BY <4>1 DEF RowState
        <4>3 rows'[d].filled = rows[d].filled
          BY <3>2, <3>3, <4>2
        <4> QED
          BY <4>2, <4>3
      <3>4 rows' \in [0..LastDay -> RowState]
        BY <1>a, <3>1 DEF RowState
      <3> QED
        BY <1>a, <3>1, <3>3, <3>4 DEF RowsPart
    <2>3 CASE WarmingUp!Excludes(w)
      <3>1 manual[w].pc \in Beyond /\ UNCHANGED <<rows, partitions>>
        BY <2>3 DEF WarmingUp!Excludes, WarmingUp!ManualAt, Beyond, Adding, Removing
      <3>2 WarmingUp!ThisDay(w) \in 0..LastDay
        BY <2>a, <3>1, DayOfJob
      <3>3 excluded' = excluded \ {WarmingUp!ThisDay(w)} \/ excluded' = excluded \cup {WarmingUp!ThisDay(w)}
        BY <2>3 DEF WarmingUp!Excludes
      <3> QED
        BY <1>a, <1>c, <3>1, <3>2, <3>3
    <2>4 CASE WarmingUp!ManualAddsPartition(w)
      <3>1 manual[w].pc \in Beyond /\ UNCHANGED <<rows, excluded>>
        BY <2>4 DEF WarmingUp!ManualAddsPartition, WarmingUp!ManualAt, Beyond, Adding
      <3>2 WarmingUp!ThisDay(w) \in 0..LastDay
        BY <2>a, <3>1, DayOfJob
      <3>3 UNCHANGED partitions \/ partitions' = partitions \cup {WarmingUp!ThisDay(w)}
        BY <2>4 DEF WarmingUp!ManualAddsPartition, WarmingUp!AddPartition
      <3> QED
        BY <1>a, <1>c, <3>1, <3>2, <3>3
    <2>5 \/ WarmingUp!ManualDrops(w) \/ WarmingUp!ManualInserts(w) \/ WarmingUp!Excludes(w) \/ WarmingUp!ManualAddsPartition(w)
         \/ UNCHANGED <<rows, partitions, excluded>>
      BY <1>3 DEF WarmingUp!ManualStep, WarmingUp!ManualEnds, WarmingUp!Selects, WarmingUp!Claims, WarmingUp!Disturbed, WarmingUp!StartsDay, WarmingUp!ManualChecks,
         WarmingUp!ManualBegins, WarmingUp!ManualRenews, WarmingUp!ManualDayDone, WarmingUp!Completes, WarmingUp!Requeues, WarmingUp!FailsJob, WarmingUp!Leaves, WarmingUp!Strands, WarmingUp!tableVars
    <2> QED
      BY <1>b, <2>1, <2>2, <2>3, <2>4, <2>5
  <1>4 ASSUME NEW w \in Owner, WarmingUp!Heartbeat(w) \/ WarmingUp!Stops(w) \/ WarmingUp!Crashes(w) PROVE RowsPart
    BY <1>4, <1>b DEF WarmingUp!Heartbeat, WarmingUp!Stops, WarmingUp!Crashes, WarmingUp!tableVars
  <1>5 ASSUME NEW j \in Job, WarmingUp!Enqueues(j) \/ WarmingUp!GrowsStale(j) PROVE RowsPart
    BY <1>5, <1>b DEF WarmingUp!Enqueues, WarmingUp!GrowsStale, WarmingUp!tableVars
  <1>6 WarmingUp!LeaseLapses \/ WarmingUp!DayPasses => RowsPart
    BY <1>b DEF WarmingUp!LeaseLapses, WarmingUp!DayPasses, WarmingUp!tableVars
  <1> QED
    BY <1>1, <1>2, <1>3, <1>4, <1>5, <1>6 DEF WarmingUp!Next

\* Only its own process changes what a thread has in its hands.
LEMMA OwnThread ==
  ASSUME WarmingUp!TypeOK, WarmingUp!Next, NEW w \in Owner
  PROVE  \/ manual'[w] = manual[w] \/ WarmingUp!ManualStep(w)
         \/ WarmingUp!Reclaims(w) \/ WarmingUp!Crashes(w)
  <1> DEFINE P == manual'[w] = manual[w] \/ WarmingUp!ManualStep(w) \/ WarmingUp!Reclaims(w) \/ WarmingUp!Crashes(w)
  <1>a manual \in [Owner -> ManualState]
    BY WarmupFacts
  <1>b UNCHANGED manual => P
    OBVIOUS
  <1>1 ASSUME NEW v \in Owner, v # w, WarmingUp!ManualStep(v) PROVE P
    <2>1 \E x : manual' = [manual EXCEPT ![v] = x]
      BY <1>1 DEF WarmingUp!ManualStep, WarmingUp!ManualEnds, WarmingUp!Selects, WarmingUp!Claims, WarmingUp!Disturbed, WarmingUp!StartsDay, WarmingUp!Excludes, WarmingUp!ManualChecks, WarmingUp!ManualAddsPartition, WarmingUp!ManualDrops,
         WarmingUp!ManualBegins, WarmingUp!ManualInserts, WarmingUp!ManualRenews, WarmingUp!ManualDayDone, WarmingUp!Completes, WarmingUp!Requeues, WarmingUp!FailsJob, WarmingUp!Leaves, WarmingUp!Strands, WarmingUp!Rest, WarmingUp!ManualGoes
    <2> QED
      BY <1>1, <1>a, <2>1
  <1>2 ASSUME NEW v \in Owner, v # w, WarmingUp!Reclaims(v) \/ WarmingUp!Crashes(v) PROVE P
    BY <1>2, <1>a DEF WarmingUp!Reclaims, WarmingUp!Crashes
  <1>3 ASSUME NEW v \in Owner, WarmingUp!QueueStep(v) \/ WarmingUp!Heartbeat(v) \/ WarmingUp!Stops(v) PROVE UNCHANGED manual
    BY <1>3, QueueStepLeaves DEF WarmingUp!Heartbeat, WarmingUp!Stops
  <1>4 (\E j \in Job : WarmingUp!Enqueues(j) \/ WarmingUp!GrowsStale(j)) \/ WarmingUp!LeaseLapses \/ WarmingUp!DayPasses => UNCHANGED manual
    BY DEF WarmingUp!Enqueues, WarmingUp!GrowsStale, WarmingUp!LeaseLapses, WarmingUp!DayPasses
  <1>5 WarmingUp!ManualStep(w) \/ WarmingUp!Reclaims(w) \/ WarmingUp!Crashes(w) => P
    OBVIOUS
  <1> HIDE DEF P
  <1>6 P
    BY <1>b, <1>1, <1>2, <1>3, <1>4, <1>5, ServiceStepLeaves DEF WarmingUp!Next
  <1> QED
    BY <1>6 DEF P

\* Where a thread goes with the job in its hands, and what it has looked at before.
GoesOn(w, p) ==
  \/ manual[w].pc \in Beyond \cup {"working", "requeuing"} /\ p \in {"requeuing", "losing", "failing"}
  \/ /\ manual[w].pc = "working" /\ mark = w /\ manual[w].days # Len(JobDays[manual[w].job])
     /\ p = IF manual[w].job \in Injects THEN "unexcluding" ELSE "excluding"
  \/ manual[w].pc \in Adding /\ p \in Adding \ {"inserting"}
  \/ manual[w].pc \in Removing /\ p \in Removing
  \/ manual[w].pc = "filling" /\ p = "inserting" /\ WarmingUp!Added(w) < JobRows /\ rowLock = None /\ rowLock' = <<"manual", w>>
  \/ manual[w].pc = "filling" /\ p = "progress" /\ WarmingUp!Added(w) >= JobRows
  \/ manual[w].pc = "dropping" /\ p = "progress"
ThreadPart(w) ==
  \/ WarmingUp!Rest(w) /\ (WarmingUp!Claims(w) \/ WarmingUp!Completes(w) \/ WarmingUp!Requeues(w) \/ WarmingUp!FailsJob(w))
  \/ WarmingUp!Selects(w)
  \/ WarmingUp!ManualGoes(w, "ended") /\ manual[w].pc = "rest" /\ UNCHANGED <<job, left>>
  \/ /\ WarmingUp!ManualGoes(w, "working") /\ manual[w].pc = "selected" /\ UNCHANGED left
     /\ job[manual[w].job].status = "QUEUED"
     /\ job' = [job EXCEPT ![manual[w].job].status = "RUNNING", ![manual[w].job].owner = w]
  \/ \E p \in Beyond \cup {"requeuing", "losing", "failing"} :
       WarmingUp!ManualGoes(w, p) /\ GoesOn(w, p) /\ UNCHANGED <<job, left>>
  \/ WarmingUp!ManualInserts(w) /\ WarmingUp!Own(w) /\ manual[w].pc = "inserting" /\ manual'[w].pc = "renewing"
  \/ WarmingUp!ManualDayDone(w) /\ WarmingUp!Own(w) /\ manual[w].pc = "progress" /\ manual'[w].pc = "working"

\* How a thread moves.
LEMMA ThreadStep ==
  ASSUME WarmingUp!TypeOK, NEW w \in Owner, WarmingUp!ManualStep(w)
  PROVE  ThreadPart(w)
  <1>a manual \in [Owner -> ManualState]
    BY WarmupFacts
  <1>g ASSUME NEW p \in Beyond \cup {"requeuing", "losing", "failing"}, WarmingUp!ManualGoes(w, p), GoesOn(w, p), UNCHANGED <<job, left>>
       PROVE  ThreadPart(w)
    BY <1>g DEF ThreadPart
  <1>n ASSUME NEW p \in {"requeuing", "losing", "failing"}, manual[w].pc \in Beyond \cup {"working", "requeuing"}, WarmingUp!ManualGoes(w, p), UNCHANGED <<job, left>>
       PROVE  ThreadPart(w)
    <2>1 GoesOn(w, p)
      BY <1>n DEF GoesOn
    <2> QED
      BY <1>n, <1>g, <2>1
  <1>p ASSUME NEW p \in Beyond, WarmingUp!ManualGoes(w, p), GoesOn(w, p), UNCHANGED <<job, left>>
       PROVE  ThreadPart(w)
    BY <1>p, <1>g
  <1>1 CASE WarmingUp!ManualEnds(w)
    BY <1>1 DEF WarmingUp!ManualEnds, WarmingUp!ManualAt, ThreadPart, WarmingUp!jobVars
  <1>2 CASE WarmingUp!Selects(w)
    BY <1>2 DEF ThreadPart
  <1>3 CASE WarmingUp!Claims(w)
    BY <1>3 DEF WarmingUp!Claims, ThreadPart, WarmingUp!ManualAt, WarmingUp!Queued
  <1>4 CASE WarmingUp!Disturbed(w, WarmingUp!Statements)
    <2>1 manual[w].pc \in Beyond \cup {"working", "requeuing"} /\ UNCHANGED <<job, left>>
      BY <1>4 DEF WarmingUp!Disturbed, WarmingUp!Statements, Beyond, Adding, Removing, WarmingUp!NoFault, WarmingUp!Fault
    <2>2 WarmingUp!ManualGoes(w, "losing") \/ WarmingUp!ManualGoes(w, "failing")
      BY <1>4 DEF WarmingUp!Disturbed
    <2> QED
      BY <1>n, <2>1, <2>2
  <1>5 CASE WarmingUp!StartsDay(w)
    <2>1 /\ manual[w].pc = "working" /\ UNCHANGED <<job, left>> /\ manual[w].days # Len(JobDays[manual[w].job])
         /\ \/ WarmingUp!ManualGoes(w, "requeuing")
            \/ mark = w /\ WarmingUp!ManualGoes(w, IF manual[w].job \in Injects THEN "unexcluding" ELSE "excluding")
      BY <1>5 DEF WarmingUp!StartsDay, WarmingUp!ManualAt, WarmingUp!Finished, WarmingUp!MayWrite, WarmingUp!jobVars
    <2>2 CASE WarmingUp!ManualGoes(w, "requeuing")
      BY <1>n, <2>1, <2>2
    <2>3 CASE mark = w /\ WarmingUp!ManualGoes(w, IF manual[w].job \in Injects THEN "unexcluding" ELSE "excluding")
      <3> DEFINE p == IF manual[w].job \in Injects THEN "unexcluding" ELSE "excluding"
      <3>1 p \in Beyond /\ GoesOn(w, p)
        BY <2>1, <2>3 DEF GoesOn, Beyond, Adding, Removing
      <3>2 WarmingUp!ManualGoes(w, p)
        BY <2>3
      <3> HIDE DEF p
      <3> QED
        BY <1>p, <2>1, <3>1, <3>2
    <2> QED
      BY <2>1, <2>2, <2>3
  <1>6 CASE WarmingUp!Excludes(w)
    <2>1 /\ UNCHANGED <<job, left>>
         /\ \/ manual[w].pc = "unexcluding" /\ WarmingUp!ManualGoes(w, "prepared")
            \/ manual[w].pc = "excluding" /\ WarmingUp!ManualGoes(w, "excluded")
      BY <1>6 DEF WarmingUp!Excludes, WarmingUp!ManualAt, WarmingUp!jobVars
    <2>2 /\ manual[w].pc = "unexcluding" => GoesOn(w, "prepared")
         /\ manual[w].pc = "excluding" => GoesOn(w, "excluded")
      BY DEF GoesOn, Adding, Removing
    <2>3 "prepared" \in Beyond /\ "excluded" \in Beyond
      BY DEF Beyond, Adding, Removing
    <2> QED
      BY <1>p, <2>1, <2>2, <2>3
  <1>7 CASE WarmingUp!ManualChecks(w)
    <2>1 /\ UNCHANGED <<job, left>>
         /\ \/ manual[w].pc = "prepared" /\ WarmingUp!ManualGoes(w, "partition")
            \/ manual[w].pc = "excluded" /\ WarmingUp!ManualGoes(w, "dropping")
      BY <1>7 DEF WarmingUp!ManualChecks, WarmingUp!ManualAt, WarmingUp!jobVars
    <2>2 /\ manual[w].pc = "prepared" => GoesOn(w, "partition")
         /\ manual[w].pc = "excluded" => GoesOn(w, "dropping")
      BY DEF GoesOn, Adding, Removing
    <2>3 "partition" \in Beyond /\ "dropping" \in Beyond
      BY DEF Beyond, Adding, Removing
    <2> QED
      BY <1>p, <2>1, <2>2, <2>3
  <1>8 CASE WarmingUp!ManualAddsPartition(w)
    <2>1 /\ UNCHANGED <<job, left>> /\ manual[w].pc = "partition"
         /\ WarmingUp!ManualGoes(w, "filling") \/ WarmingUp!ManualGoes(w, "failing")
      BY <1>8 DEF WarmingUp!ManualAddsPartition, WarmingUp!ManualAt, WarmingUp!jobVars
    <2>2 GoesOn(w, "filling") /\ "filling" \in Beyond /\ manual[w].pc \in Beyond
      BY <2>1 DEF GoesOn, Beyond, Adding
    <2> QED
      BY <1>n, <1>p, <2>1, <2>2
  <1>9 CASE WarmingUp!ManualDrops(w)
    <2>1 UNCHANGED <<job, left>> /\ manual[w].pc = "dropping" /\ WarmingUp!ManualGoes(w, "progress")
      BY <1>9 DEF WarmingUp!ManualDrops, WarmingUp!ManualAt, WarmingUp!jobVars
    <2>2 GoesOn(w, "progress") /\ "progress" \in Beyond
      BY <2>1 DEF GoesOn, Beyond
    <2> QED
      BY <1>p, <2>1, <2>2
  <1>10 CASE WarmingUp!ManualBegins(w)
    <2>1 /\ UNCHANGED <<job, left>> /\ manual[w].pc = "filling"
         /\ \/ WarmingUp!ManualGoes(w, "progress") /\ WarmingUp!Added(w) >= JobRows
            \/ WarmingUp!ManualGoes(w, "requeuing")
            \/ WarmingUp!ManualGoes(w, "inserting") /\ ~ (WarmingUp!Added(w) >= JobRows) /\ rowLock = None /\ rowLock' = <<"manual", w>>
      BY <1>10 DEF WarmingUp!ManualBegins, WarmingUp!ManualAt, WarmingUp!jobVars, WarmingUp!MayWrite
    <2>2 manual[w].pc \in Beyond /\ "progress" \in Beyond /\ "inserting" \in Beyond
      BY <2>1 DEF Beyond, Adding
    <2>3 WarmingUp!Added(w) >= JobRows => GoesOn(w, "progress")
      BY <2>1 DEF GoesOn
    <2>4 ~ (WarmingUp!Added(w) >= JobRows) => WarmingUp!Added(w) < JobRows
      <3>1 manual[w].rows \in Nat /\ manual[w].days * JobRows \in Nat /\ JobRows \in Nat
        BY <1>a, JobRowsOfDays, WarmupAssumption DEF ManualState
      <3>2 WarmingUp!Added(w) \in Nat
        BY <3>1 DEF WarmingUp!Added
      <3> QED
        BY <3>1, <3>2
    <2>5 ~ (WarmingUp!Added(w) >= JobRows) /\ rowLock = None /\ rowLock' = <<"manual", w>> => GoesOn(w, "inserting")
      BY <2>1, <2>4 DEF GoesOn
    <2> QED
      BY <1>n, <1>p, <2>1, <2>2, <2>3, <2>5
  <1>11 CASE WarmingUp!ManualInserts(w)
    <2>1 manual[w].pc = "inserting" /\ manual[w].pc \in Beyond
      BY <1>11 DEF WarmingUp!ManualInserts, WarmingUp!ManualAt, Beyond, Adding
    <2>2 CASE WarmingUp!Own(w) /\ WarmingUp!HasPartition(WarmingUp!ThisDay(w))
      <3>1 \E done : manual' = [manual EXCEPT ![w].pc = "renewing", ![w].rows = done]
        BY <1>11, <2>2 DEF WarmingUp!ManualInserts
      <3>2 manual'[w].pc = "renewing"
        BY <1>a, <3>1 DEF ManualState
      <3> QED
        BY <1>11, <2>1, <2>2, <3>2 DEF ThreadPart
    <2>3 CASE ~ (WarmingUp!Own(w) /\ WarmingUp!HasPartition(WarmingUp!ThisDay(w)))
      <3>1 UNCHANGED <<job, left>> /\ (WarmingUp!ManualGoes(w, "failing") \/ WarmingUp!ManualGoes(w, "losing"))
        BY <1>11, <2>3 DEF WarmingUp!ManualInserts
      <3> QED
        BY <1>n, <2>1, <3>1
    <2> QED
      BY <2>2, <2>3
  <1>12 CASE WarmingUp!ManualRenews(w)
    <2>1 /\ UNCHANGED <<job, left>> /\ manual[w].pc = "renewing"
         /\ WarmingUp!ManualGoes(w, "losing") \/ WarmingUp!ManualGoes(w, "filling") \/ WarmingUp!ManualGoes(w, "requeuing")
      BY <1>12 DEF WarmingUp!ManualRenews, WarmingUp!ManualAt, WarmingUp!jobVars
    <2>2 GoesOn(w, "filling") /\ "filling" \in Beyond /\ manual[w].pc \in Beyond
      BY <2>1 DEF GoesOn, Beyond, Adding
    <2> QED
      BY <1>n, <1>p, <2>1, <2>2
  <1>13 CASE WarmingUp!ManualDayDone(w)
    <2>1 manual[w].pc = "progress" /\ manual[w].pc \in Beyond
      BY <1>13 DEF WarmingUp!ManualDayDone, WarmingUp!ManualAt, Beyond
    <2>2 CASE WarmingUp!Own(w)
      <3>1 \E days, done : manual' = [manual EXCEPT ![w].pc = "working", ![w].days = days, ![w].rows = done]
        BY <1>13, <2>2 DEF WarmingUp!ManualDayDone
      <3>2 manual'[w].pc = "working"
        BY <1>a, <3>1 DEF ManualState
      <3> QED
        BY <1>13, <2>1, <2>2, <3>2 DEF ThreadPart
    <2>3 CASE ~ WarmingUp!Own(w)
      <3>1 UNCHANGED <<job, left>> /\ WarmingUp!ManualGoes(w, "losing")
        BY <1>13, <2>3 DEF WarmingUp!ManualDayDone
      <3> QED
        BY <1>n, <2>1, <3>1
    <2> QED
      BY <2>2, <2>3
  <1>14 CASE WarmingUp!Completes(w) \/ WarmingUp!Requeues(w) \/ WarmingUp!FailsJob(w)
    <2>1 WarmingUp!Rest(w)
      BY <1>14 DEF WarmingUp!Completes, WarmingUp!Requeues, WarmingUp!FailsJob, WarmingUp!Leaves, WarmingUp!Strands
    <2> QED
      BY <1>14, <2>1 DEF ThreadPart
  <1> QED
    BY <1>1, <1>2, <1>3, <1>4, <1>5, <1>6, <1>7, <1>8, <1>9, <1>10, <1>11, <1>12, <1>13, <1>14 DEF WarmingUp!ManualStep

\* A process leaves its session when its thread has ended, or with it.
LEMMA SessionLeft ==
  ASSUME WarmingUp!TypeOK, WarmingUp!Next, NEW w \in Owner, service[w].pc = "session", service'[w].pc # "session"
  PROVE  WarmingUp!SessionEnds(w) \/ WarmingUp!Crashes(w)
  <1> DEFINE P == WarmingUp!SessionEnds(w) \/ WarmingUp!Crashes(w) \/ service'[w].pc = service[w].pc
  <1>a service \in [Owner -> ServiceState]
    BY WarmupFacts
  <1>b UNCHANGED service => P
    OBVIOUS
  <1>1 ASSUME NEW v \in Owner, WarmingUp!ServiceStep(v) PROVE P
    <2>1 \E pc : \E held : service' = [service EXCEPT ![v].pc = pc, ![v].held = held] \/ WarmingUp!ServiceGoes(v, pc)
      BY <1>1 DEF WarmingUp!ServiceStep, WarmingUp!Acquires, WarmingUp!RenewsFirst, WarmingUp!Marks, WarmingUp!Reclaims, WarmingUp!SessionEnds, WarmingUp!ReportsError, WarmingUp!Releases, WarmingUp!Catches
    <2>2 CASE v # w
      <3>1 service'[w] = service[w]
        BY <1>a, <2>1, <2>2 DEF WarmingUp!ServiceGoes
      <3> QED
        BY <3>1
    <2>3 CASE v = w
      BY <1>1, <2>3 DEF WarmingUp!ServiceStep, WarmingUp!Acquires, WarmingUp!RenewsFirst, WarmingUp!Marks, WarmingUp!Reclaims, WarmingUp!ReportsError, WarmingUp!Releases, WarmingUp!ServiceAt
    <2> QED
      BY <2>2, <2>3
  <1>2 ASSUME NEW v \in Owner, WarmingUp!Heartbeat(v) \/ WarmingUp!Stops(v) PROVE P
    BY <1>2, <1>a DEF WarmingUp!Heartbeat, WarmingUp!Stops, ServiceState
  <1>3 ASSUME NEW v \in Owner, WarmingUp!Crashes(v) PROVE P
    <2>1 v # w => service'[w] = service[w]
      BY <1>3, <1>a DEF WarmingUp!Crashes
    <2> QED
      BY <1>3, <2>1
  <1>4 ASSUME NEW v \in Owner, WarmingUp!ManualStep(v) PROVE P
    <2>1 UNCHANGED service \/ service' = [service EXCEPT ![v].held = FALSE]
      BY <1>4, ManualStepLeaves DEF WarmingUp!Requeues, WarmingUp!Strands
    <2> QED
      BY <1>a, <2>1 DEF ServiceState
  <1>5 ASSUME NEW v \in Owner, WarmingUp!QueueStep(v) PROVE P
    BY <1>5, <1>b, QueueStepLeaves
  <1>6 (\E j \in Job : WarmingUp!Enqueues(j) \/ WarmingUp!GrowsStale(j)) \/ WarmingUp!LeaseLapses \/ WarmingUp!DayPasses => UNCHANGED service
    BY DEF WarmingUp!Enqueues, WarmingUp!GrowsStale, WarmingUp!LeaseLapses, WarmingUp!DayPasses
  <1> HIDE DEF P
  <1>7 P
    BY <1>b, <1>1, <1>2, <1>3, <1>4, <1>5, <1>6 DEF WarmingUp!Next
  <1> QED
    BY <1>7 DEF P

\* What a thread gets into its hands with a step of its own.
LEMMA ThreadValues ==
  ASSUME WarmingUp!TypeOK, NEW w \in Owner
  PROVE  /\ WarmingUp!Rest(w) => manual'[w] = [pc |-> "rest", job |-> None, days |-> 0, rows |-> 0]
         /\ \A p \in Beyond \cup {"ended", "working", "requeuing", "losing", "failing"} : WarmingUp!ManualGoes(w, p) =>
              /\ manual'[w].pc = p /\ manual'[w].job = manual[w].job
              /\ manual'[w].days = manual[w].days /\ manual'[w].rows = manual[w].rows
         /\ WarmingUp!Crashes(w) => manual'[w] = [pc |-> "ended", job |-> None, days |-> 0, rows |-> 0]
         /\ WarmingUp!Reclaims(w) => /\ manual'[w].pc = "rest" /\ manual'[w].job = manual[w].job
                             /\ service[w].pc = "marked" /\ service'[w].pc = "session"
  <1>a manual \in [Owner -> ManualState] /\ service \in [Owner -> ServiceState]
    BY WarmupFacts
  <1>1 [WarmingUp!NoJob EXCEPT !.pc = "rest"] = [pc |-> "rest", job |-> None, days |-> 0, rows |-> 0]
    BY DEF WarmingUp!NoJob
  <1>2 WarmingUp!Rest(w) => manual'[w] = [pc |-> "rest", job |-> None, days |-> 0, rows |-> 0]
    BY <1>a, <1>1 DEF WarmingUp!Rest
  <1>3 ASSUME NEW p, WarmingUp!ManualGoes(w, p)
       PROVE  /\ manual'[w].pc = p /\ manual'[w].job = manual[w].job
              /\ manual'[w].days = manual[w].days /\ manual'[w].rows = manual[w].rows
    BY <1>a, <1>3 DEF WarmingUp!ManualGoes, ManualState
  <1>4 WarmingUp!Crashes(w) => manual'[w] = [pc |-> "ended", job |-> None, days |-> 0, rows |-> 0]
    BY <1>a DEF WarmingUp!Crashes, WarmingUp!NoJob
  <1>5 ASSUME WarmingUp!Reclaims(w)
       PROVE  /\ manual'[w].pc = "rest" /\ manual'[w].job = manual[w].job
              /\ service[w].pc = "marked" /\ service'[w].pc = "session"
    BY <1>a, <1>5 DEF WarmingUp!Reclaims, WarmingUp!ServiceAt, WarmingUp!ServiceGoes, ManualState, ServiceState
  <1> QED
    BY <1>2, <1>3, <1>4, <1>5

\* A thread that has ended takes no step.
LEMMA ThreadWasUp ==
  ASSUME NEW w \in Owner, ThreadPart(w)
  PROVE  manual[w].pc # "ended"
  <1>1 WarmingUp!Claims(w) \/ WarmingUp!Completes(w) \/ WarmingUp!Requeues(w) \/ WarmingUp!FailsJob(w) \/ WarmingUp!Selects(w) => manual[w].pc # "ended"
    BY DEF WarmingUp!Claims, WarmingUp!Completes, WarmingUp!Requeues, WarmingUp!FailsJob, WarmingUp!Selects, WarmingUp!ManualAt
  <1>2 ASSUME NEW p, GoesOn(w, p) PROVE manual[w].pc # "ended"
    BY <1>2 DEF GoesOn, Beyond, Adding, Removing
  <1> QED
    BY <1>1, <1>2 DEF ThreadPart

\* Rested is kept by every step.
LEMMA RestedStep ==
  ASSUME WarmingUp!TypeOK, WarmingUp!Next, NEW w \in Owner, Rested(w)
  PROVE  Rested(w)'
  <1>1 CASE manual'[w] = manual[w]
    <2>1 ASSUME service'[w].pc # "session" PROVE manual'[w].pc = "ended"
      <3>1 CASE service[w].pc # "session"
        BY <1>1, <3>1 DEF Rested
      <3>2 CASE WarmingUp!SessionEnds(w)
        BY <1>1, <3>2 DEF WarmingUp!SessionEnds, WarmingUp!ManualAt
      <3>3 CASE WarmingUp!Crashes(w)
        BY <3>3, ThreadValues
      <3> QED
        BY <2>1, <3>1, <3>2, <3>3, SessionLeft
    <2> QED
      BY <2>1 DEF Rested
  <1>2 CASE WarmingUp!ManualStep(w)
    <2>1 service[w].pc = "session"
      BY <1>2, ThreadStep, ThreadWasUp DEF Rested
    <2>2 service \in [Owner -> ServiceState]
      BY WarmupFacts
    <2>3 UNCHANGED service \/ service' = [service EXCEPT ![w].held = FALSE]
      BY <1>2, ManualStepLeaves DEF WarmingUp!Requeues, WarmingUp!Strands
    <2>4 service'[w].pc = "session"
      BY <2>1, <2>2, <2>3 DEF ServiceState
    <2> QED
      BY <2>4 DEF Rested
  <1>3 CASE WarmingUp!Reclaims(w)
    BY <1>3, ThreadValues DEF Rested
  <1>4 CASE WarmingUp!Crashes(w)
    BY <1>4, ThreadValues DEF Rested
  <1> QED
    BY <1>1, <1>2, <1>3, <1>4, OwnThread

\* Who keeps the mark has had it: a thread that is up has not just been marked.
LEMMA MarkKept ==
  ASSUME WarmingUp!TypeOK, WarmingUp!Next, NEW w \in Owner, Rested(w), manual[w].pc # "ended", mark' = w
  PROVE  mark = w
  <1>1 service[w].pc = "session" /\ w # None
    BY WarmupAssumption DEF Rested
  <1> QED
    BY <1>1, MarkMoves

\* While a thread that has the mark holds a selected job, no other comes to work on it.
LEMMA NobodyElse ==
  ASSUME WarmingUp!TypeOK, WarmingUp!Next, NEW w \in Owner, NEW v \in Owner, v # w, mark = w,
         NEW j \in Job, JobMoved(j), manual[v].job = j /\ job[j].owner = v => manual[v].pc \notin Beyond,
         manual'[v].job = j, job'[j].owner = v
  PROVE  manual'[v].pc \notin Beyond
  <1>a manual \in [Owner -> ManualState] /\ v # None
    BY WarmupFacts, WarmupAssumption
  <1>b "rest" \notin Beyond /\ "selected" \notin Beyond /\ "ended" \notin Beyond /\ "working" \notin Beyond
       /\ "inserting" \in Beyond /\ "progress" \in Beyond
       /\ "requeuing" \notin Beyond /\ "losing" \notin Beyond /\ "failing" \notin Beyond
    BY DEF Beyond, Adding, Removing
  <1>1 CASE manual'[v] = manual[v]
    <2>1 CASE job[j].owner = v
      BY <1>1, <2>1
    <2>2 CASE job[j].owner # v
      <3>1 manual'[v].pc = "working"
        BY <1>a, <2>2 DEF JobMoved
      <3> QED
        BY <1>b, <3>1
    <2> QED
      BY <2>1, <2>2
  <1>2 CASE WarmingUp!ManualStep(v)
    <2>1 CASE WarmingUp!Rest(v)
      BY <1>b, <2>1, ThreadValues
    <2>2 CASE WarmingUp!Selects(v)
      <3>1 manual'[v].pc = "selected"
        BY <1>a, <2>2 DEF WarmingUp!Selects
      <3> QED
        BY <1>b, <3>1
    <2>3 CASE WarmingUp!ManualGoes(v, "ended") \/ WarmingUp!ManualGoes(v, "working")
      BY <1>b, <2>3, ThreadValues
    <2>4 ASSUME NEW p \in Beyond \cup {"requeuing", "losing", "failing"}, WarmingUp!ManualGoes(v, p), GoesOn(v, p), UNCHANGED job
         PROVE  manual'[v].pc \notin Beyond
      <3>1 manual'[v].pc = p /\ manual[v].job = j
        BY <2>4, ThreadValues
      <3>2 manual[v].pc \notin Beyond
        BY <2>4, <3>1
      <3>3 p \in {"requeuing", "losing", "failing"}
        BY <2>4, <3>2 DEF GoesOn, Beyond, Adding, Removing
      <3> QED
        BY <1>b, <3>1, <3>3
    <2>5 CASE WarmingUp!ManualInserts(v) /\ WarmingUp!Own(v) /\ manual[v].pc = "inserting"
      <3>1 manual[v].job = j
        BY <1>a, <2>5 DEF WarmingUp!ManualInserts, WarmingUp!ManualGoes, ManualState
      <3>2 FALSE
        BY <1>b, <2>5, <3>1 DEF WarmingUp!Own
      <3> QED
        BY <3>2
    <2>6 CASE manual'[v].pc = "working"
      BY <1>b, <2>6
    <2> QED
      BY <1>2, <2>1, <2>2, <2>3, <2>4, <2>5, <2>6, ThreadStep DEF ThreadPart
  <1>3 CASE WarmingUp!Reclaims(v) \/ WarmingUp!Crashes(v)
    BY <1>b, <1>3, ThreadValues
  <1> QED
    BY <1>1, <1>2, <1>3, OwnThread

\* A thread that does nothing keeps what it knows of its job true.
LEMMA ThreadUntouched ==
  ASSUME WarmingUp!TypeOK, WarmingUp!Next, JobPart, Threads, \A u \in Owner : Rested(u), NEW w \in Owner, manual'[w] = manual[w]
  PROVE  HasJob(w)' /\ DayLeft(w)' /\ UpToDate(w)'
  <1>a /\ manual \in [Owner -> ManualState] /\ job \in [Job -> JobState] /\ job' \in [Job -> JobState]
       /\ HasJob(w) /\ DayLeft(w) /\ UpToDate(w) /\ w # None
    BY WarmupFacts, WarmupAssumption DEF JobPart, Threads
  <1>b "working" \notin Beyond /\ "selected" \notin Beyond /\ "inserting" \in Beyond /\ "progress" \in Beyond
       /\ "ended" \notin Beyond /\ "rest" \notin Beyond
    BY DEF Beyond, Adding, Removing
  <1> DEFINE j == manual[w].job
  <1>1 ASSUME NEW i \in Job PROVE job'[i].days >= job[i].days /\ JobMoved(i)
    <2>1 job'[i].days \in Nat /\ job[i].days \in Nat /\ JobMoved(i)
      BY <1>a, <1>1 DEF JobState, JobPart
    <2> QED
      BY <2>1 DEF JobMoved
  <1>2 HasJob(w)'
    <2>1 CASE manual[w].pc \in {"rest", "ended"}
      BY <1>a, <2>1 DEF HasJob
    <2>2 CASE manual[w].pc \notin {"rest", "ended"}
      <3>1 j \in Job /\ manual[w].days <= job[j].days /\ manual[w].days \in Nat
        BY <1>a, <2>2 DEF HasJob, ManualState
      <3>2 job'[j].days \in Nat /\ job[j].days \in Nat
        BY <1>a, <3>1 DEF JobState
      <3>3 manual[w].days <= job'[j].days
        BY <1>1, <3>1, <3>2
      <3> QED
        BY <2>2, <3>1, <3>3 DEF HasJob
    <2> QED
      BY <2>1, <2>2
  <1>3 DayLeft(w)'
    BY <1>a DEF DayLeft, WarmingUp!Added
  <1>4 ASSUME manual[w].pc \in Beyond, job'[j].owner = w PROVE Agree(w)'
    <2>1 j \in Job
      BY <1>a, <1>b, <1>4 DEF HasJob
    <2>2 CASE job'[j].days = job[j].days /\ job'[j].rows = job[j].rows /\ job'[j].owner = job[j].owner
      <3>1 Agree(w)
        BY <1>a, <1>4, <2>2 DEF UpToDate, WarmingUp!Own
      <3> QED
        BY <2>2, <3>1 DEF Agree
    <2>3 CASE job'[j].days = manual'[w].days /\ job'[j].rows = manual'[w].rows
      BY <2>3 DEF Agree
    <2> QED
      BY <1>1, <1>a, <1>b, <1>4, <2>1, <2>2, <2>3 DEF JobMoved
  <1>5 ASSUME mark' = w, manual[w].pc = "working", job'[j].owner = w PROVE Agree(w)'
    <2>1 j \in Job /\ mark = w
      BY <1>a, <1>5, MarkKept DEF HasJob
    <2>2 job'[j].days = job[j].days /\ job'[j].rows = job[j].rows /\ job'[j].owner = job[j].owner
      BY <1>1, <1>a, <1>5, <2>1 DEF JobMoved
    <2>3 Agree(w)
      BY <1>a, <1>5, <2>1, <2>2 DEF UpToDate, WarmingUp!Own
    <2> QED
      BY <2>2, <2>3 DEF Agree
  <1>6 ASSUME mark' = w, manual[w].pc = "selected"
       PROVE  /\ Agree(w)'
              /\ \A v \in Owner : manual'[v].job = j /\ job'[j].owner = v => manual'[v].pc \notin Beyond
    <2>1 j \in Job /\ mark = w
      BY <1>a, <1>6, MarkKept DEF HasJob
    <2>2 Agree(w) /\ \A v \in Owner : manual[v].job = j /\ job[j].owner = v => manual[v].pc \notin Beyond
      <3>1 Agree(w) /\ \A v \in Owner : manual[v].job = manual[w].job /\ WarmingUp!Own(v) => manual[v].pc \notin Beyond
        BY <1>a, <1>6, <2>1 DEF UpToDate
      <3> QED
        BY <3>1 DEF WarmingUp!Own
    <2>3 job'[j].days = job[j].days /\ job'[j].rows = job[j].rows
      BY <1>1, <1>b, <2>1, <2>2 DEF JobMoved
    <2>4 Agree(w)'
      BY <2>2, <2>3 DEF Agree
    <2>5 ASSUME NEW v \in Owner, manual'[v].job = j, job'[j].owner = v PROVE manual'[v].pc \notin Beyond
      <3>1 CASE v = w
        BY <1>6, <1>b, <3>1
      <3>2 CASE v # w
        <4> HIDE DEF j
        <4>1 JobMoved(j)
          BY <1>1, <2>1
        <4>2 manual[v].job = j /\ job[j].owner = v => manual[v].pc \notin Beyond
          BY <2>2, <2>5
        <4> QED
          BY <2>1, <2>5, <3>2, <4>1, <4>2, NobodyElse
      <3> QED
        BY <3>1, <3>2
    <2> QED
      BY <2>4, <2>5
  <1>7 UpToDate(w)'
    <2>1 WarmingUp!Own(w)' <=> job'[j].owner = w
      BY DEF WarmingUp!Own
    <2>2 \A v \in Owner : manual'[v].job = j => (WarmingUp!Own(v)' <=> job'[j].owner = v)
      BY DEF WarmingUp!Own
    <2>3 manual'[w].job = j /\ manual'[w].pc = manual[w].pc
      OBVIOUS
    <2> HIDE DEF j
    <2>4 manual[w].pc \in Beyond /\ WarmingUp!Own(w)' => Agree(w)'
      BY <1>4, <2>1
    <2>5 mark' = w /\ manual[w].pc = "working" /\ WarmingUp!Own(w)' => Agree(w)'
      BY <1>5, <2>1
    <2>6 ASSUME mark' = w, manual[w].pc = "selected"
         PROVE  Agree(w)' /\ \A v \in Owner : manual'[v].job = manual'[w].job /\ WarmingUp!Own(v)' => manual'[v].pc \notin Beyond
      BY <1>6, <2>2, <2>3, <2>6
    <2> QED
      BY <2>3, <2>4, <2>5, <2>6 DEF UpToDate
  <1> QED
    BY <1>2, <1>3, <1>7

\* With a step of its own it keeps it true as well.
LEMMA ThreadOwnStep ==
  ASSUME WarmingUp!TypeOK, WarmingUp!Next, JobPart, Threads, \A u \in Owner : Rested(u), NEW w \in Owner, WarmingUp!ManualStep(w)
  PROVE  HasJob(w)' /\ DayLeft(w)' /\ UpToDate(w)' /\ manual'[w] \in ManualState
  <1> DEFINE P == HasJob(w)' /\ DayLeft(w)' /\ UpToDate(w)' /\ manual'[w] \in ManualState
  <1>a /\ manual \in [Owner -> ManualState] /\ job \in [Job -> JobState] /\ job' \in [Job -> JobState]
       /\ HasJob(w) /\ DayLeft(w) /\ UpToDate(w) /\ w # None
       /\ manual[w] \in ManualState /\ UNCHANGED mark
    BY WarmupFacts, WarmupAssumption, ManualStepLeaves DEF JobPart, Threads
  <1>b /\ "working" \notin Beyond /\ "selected" \notin Beyond /\ "inserting" \in Beyond /\ "progress" \in Beyond
       /\ "ended" \notin Beyond /\ "rest" \notin Beyond
       /\ "requeuing" \notin Beyond /\ "losing" \notin Beyond /\ "failing" \notin Beyond
       /\ Beyond = Adding \cup Removing \cup {"progress"}
    BY DEF Beyond, Adding, Removing
  <1>c Adding \subseteq Beyond /\ Removing \subseteq Beyond /\ "progress" \notin Adding \cup Removing
       /\ "inserting" \in Adding /\ "filling" \in Adding /\ "renewing" \in Adding /\ "dropping" \in Removing
       /\ "working" \notin Adding \cup Removing
    BY DEF Beyond, Adding, Removing
  <1>d ASSUME manual'[w].pc \in {"rest", "ended"}, manual'[w].job = None, manual'[w] \in ManualState PROVE P
    BY <1>b, <1>c, <1>d DEF HasJob, DayLeft, UpToDate
  <1>1 ASSUME WarmingUp!Rest(w) PROVE P
    <2>1 manual'[w] = [pc |-> "rest", job |-> None, days |-> 0, rows |-> 0]
      BY <1>1, ThreadValues
    <2>2 manual'[w] \in ManualState
      BY <2>1 DEF ManualState
    <2> QED
      BY <1>d, <2>1, <2>2
  <1>2 ASSUME WarmingUp!Selects(w) PROVE P
    <2>1 PICK i \in Job : /\ job[i].status = "QUEUED"
                          /\ manual' = [manual EXCEPT ![w] = [pc |-> "selected", job |-> i, days |-> job[i].days, rows |-> job[i].rows]]
      BY <1>2 DEF WarmingUp!Selects, WarmingUp!Queued
    <2>2 /\ manual'[w] = [pc |-> "selected", job |-> i, days |-> job[i].days, rows |-> job[i].rows]
         /\ UNCHANGED job /\ job[i].owner = None /\ job[i] \in JobState
      BY <1>2, <1>a, <2>1, WarmupFacts DEF WarmingUp!Selects, WarmingUp!jobVars
    <2>3 manual'[w] \in ManualState
      BY <2>1, <2>2 DEF ManualState, JobState
    <2>4 HasJob(w)' /\ DayLeft(w)'
      <3>1 job[i].days \in Nat
        BY <2>2 DEF JobState
      <3> QED
        BY <1>b, <1>c, <2>2, <3>1 DEF HasJob, DayLeft
    <2>5 UpToDate(w)'
      <3>1 Agree(w)'
        BY <2>2 DEF Agree
      <3>2 \A v \in Owner : manual'[v].job = i => ~ WarmingUp!Own(v)'
        BY <2>2, WarmupAssumption DEF WarmingUp!Own
      <3> QED
        BY <1>b, <2>2, <3>1, <3>2 DEF UpToDate
    <2> QED
      BY <2>3, <2>4, <2>5
  <1>3 ASSUME WarmingUp!ManualGoes(w, "ended") /\ manual[w].pc = "rest" PROVE P
    <2>1 /\ manual'[w].pc = "ended" /\ manual'[w].job = manual[w].job /\ manual[w].job = None
         /\ manual' = [manual EXCEPT ![w].pc = "ended"]
      BY <1>3, <1>a, ThreadValues DEF HasJob, WarmingUp!ManualGoes
    <2>2 manual'[w] \in ManualState
      BY <1>a, <2>1 DEF ManualState
    <2> QED
      BY <1>d, <2>1, <2>2
  <1>4 ASSUME /\ WarmingUp!ManualGoes(w, "working") /\ manual[w].pc = "selected"
              /\ job' = [job EXCEPT ![manual[w].job].status = "RUNNING", ![manual[w].job].owner = w]
       PROVE  P
    <2> DEFINE i == manual[w].job
    <2>1 /\ manual'[w].pc = "working" /\ manual'[w].job = i /\ i \in Job
         /\ manual'[w].days = manual[w].days /\ manual'[w].rows = manual[w].rows /\ manual[w].days <= job[i].days
         /\ manual' = [manual EXCEPT ![w].pc = "working"]
      BY <1>4, <1>a, ThreadValues DEF HasJob, WarmingUp!ManualGoes
    <2>2 manual'[w] \in ManualState
      BY <1>a, <2>1 DEF ManualState
    <2>3 job'[i].days = job[i].days /\ job'[i].rows = job[i].rows
      BY <1>4, <1>a, <2>1 DEF JobState
    <2>4 HasJob(w)' /\ DayLeft(w)'
      BY <1>b, <1>c, <2>1, <2>3 DEF HasJob, DayLeft
    <2>5 mark = w => Agree(w)'
      <3>1 mark = w => Agree(w)
        BY <1>4, <1>a DEF UpToDate
      <3> QED
        BY <2>1, <2>3, <3>1 DEF Agree
    <2>6 UpToDate(w)'
      BY <1>a, <1>b, <2>1, <2>5 DEF UpToDate
    <2> QED
      BY <2>2, <2>4, <2>6
  <1>5 ASSUME NEW p \in Beyond \cup {"requeuing", "losing", "failing"}, WarmingUp!ManualGoes(w, p), GoesOn(w, p), UNCHANGED job
       PROVE  P
    <2> DEFINE i == manual[w].job
    <2>1 /\ manual'[w].pc = p /\ manual'[w].job = i
         /\ manual'[w].days = manual[w].days /\ manual'[w].rows = manual[w].rows
         /\ manual' = [manual EXCEPT ![w].pc = p]
      <3>1 manual' = [manual EXCEPT ![w].pc = p]
        BY <1>5 DEF WarmingUp!ManualGoes
      <3>2 p \in Beyond \cup {"ended", "working", "requeuing", "losing", "failing"}
        BY <1>5
      <3> QED
        BY <1>5, <3>1, <3>2, ThreadValues
    <2>2 manual'[w] \in ManualState
      BY <1>a, <1>5, <2>1 DEF ManualState
    <2>3 manual[w].pc \in Beyond \cup {"working", "requeuing"} /\ i \in Job /\ manual[w].days <= job[i].days
      <3>1 manual[w].pc \in Beyond \cup {"working", "requeuing"}
        BY <1>5, <1>b, <1>c DEF GoesOn
      <3> QED
        BY <1>a, <1>b, <3>1 DEF HasJob
    <2>4 HasJob(w)'
      BY <1>5, <1>b, <2>1, <2>3 DEF HasJob
    <2>5 WarmingUp!Added(w)' = WarmingUp!Added(w)
      BY <2>1 DEF WarmingUp!Added
    <2>6 p \in Beyond => manual[w].days < Len(JobDays[i])
      <3>r manual[w].pc = "requeuing" => p \notin Beyond
        BY <1>5, <1>b, <1>c DEF GoesOn, Beyond, Adding, Removing
      <3>1 CASE manual[w].pc \in Beyond
        BY <1>a, <3>1 DEF DayLeft
      <3>2 CASE manual[w].pc = "working"
        <4>1 p \in Beyond => manual[w].days # Len(JobDays[i])
          BY <1>5, <1>b, <1>c, <3>2 DEF GoesOn
        <4>2 job[i].days \in Nat /\ job[i].days <= Len(JobDays[i]) /\ Len(JobDays[i]) \in Nat /\ manual[w].days \in Nat
          <5>1 job[i].days <= Len(JobDays[i])
            <6>1 ASSUME NEW k \in Job PROVE job'[k].days <= Len(JobDays[k])
              <7>1 JobInv(k)'
                BY <6>1 DEF JobPart
              <7> QED
                BY <7>1 DEF JobInv
            <6>2 job'[i].days <= Len(JobDays[i])
              BY <2>3, <6>1
            <6> QED
              BY <1>5, <6>2
          <5>2 job[i].days \in Nat /\ manual[w].days \in Nat
            BY <1>a, <2>3 DEF JobState, ManualState
          <5>3 Len(JobDays[i]) \in Nat
            BY <2>3, WarmupAssumption
          <5> QED
            BY <5>1, <5>2, <5>3
        <4> QED
          BY <2>3, <4>1, <4>2
      <3> QED
        BY <2>3, <3>r, <3>1, <3>2
    <2>7 DayLeft(w)'
      <3>1 p \in Adding => i \in Injects
        BY <1>5, <1>a, <1>b, <1>c DEF GoesOn, DayLeft, Adding, Removing
      <3>2 p \in Removing => i \notin Injects
        BY <1>5, <1>a, <1>b, <1>c DEF GoesOn, DayLeft, Adding, Removing
      <3>3 p = "inserting" => WarmingUp!Added(w) < JobRows
        BY <1>5, <1>b, <1>c DEF GoesOn, Removing
      <3>4 p = "progress" /\ i \in Injects => WarmingUp!Added(w) >= JobRows
        BY <1>5, <1>a, <1>b, <1>c DEF GoesOn, DayLeft
      <3> QED
        BY <2>1, <2>5, <2>6, <3>1, <3>2, <3>3, <3>4 DEF DayLeft
    <2>8 p \in Beyond /\ WarmingUp!Own(w)' => Agree(w)'
      <3>1 WarmingUp!Own(w)' <=> WarmingUp!Own(w)
        BY <1>5, <2>1 DEF WarmingUp!Own
      <3>2 Agree(w)' <=> Agree(w)
        BY <1>5, <2>1 DEF Agree
      <3>r manual[w].pc = "requeuing" => p \notin Beyond
        BY <1>5, <1>b, <1>c DEF GoesOn, Beyond, Adding, Removing
      <3>3 CASE manual[w].pc \in Beyond
        BY <1>a, <3>1, <3>2, <3>3 DEF UpToDate
      <3>4 CASE manual[w].pc = "working" /\ p \in Beyond
        <4>1 mark = w
          BY <1>5, <1>b, <1>c, <3>4 DEF GoesOn
        <4> QED
          BY <1>a, <3>1, <3>2, <3>4, <4>1 DEF UpToDate
      <3> QED
        BY <2>3, <3>r, <3>3, <3>4
    <2>9 UpToDate(w)'
      BY <1>5, <1>b, <2>1, <2>8 DEF UpToDate
    <2> QED
      BY <2>2, <2>4, <2>7, <2>9
  <1>6 ASSUME WarmingUp!ManualInserts(w) /\ WarmingUp!Own(w) /\ manual[w].pc = "inserting" /\ manual'[w].pc = "renewing" PROVE P
    <2> DEFINE i == manual[w].job
               done == manual[w].days * JobRows + WarmingUp!Added(w) + 1
    <2>1 i \in Job /\ i \in Injects /\ manual[w].days < Len(JobDays[i]) /\ manual[w].days <= job[i].days
      BY <1>6, <1>a, <1>b, <1>c DEF HasJob, DayLeft
    <2>2 manual[w].days \in Nat /\ manual[w].rows \in Nat /\ done \in Nat
      <3>1 manual[w].days \in Nat /\ manual[w].rows \in Nat
        BY <1>a DEF ManualState
      <3>2 manual[w].days * JobRows \in Nat
        BY <3>1, JobRowsOfDays
      <3>3 WarmingUp!Added(w) \in Nat
        BY <3>1, <3>2 DEF WarmingUp!Added
      <3> QED
        BY <3>1, <3>2, <3>3
    <2>3 /\ manual' = [manual EXCEPT ![w].pc = "renewing", ![w].rows = done]
         /\ job' = [job EXCEPT ![i].days = manual[w].days, ![i].rows = done]
      <3>1 WarmingUp!HasPartition(WarmingUp!ThisDay(w))
        <4>1 CASE ~ WarmingUp!HasPartition(WarmingUp!ThisDay(w))
          <5>1 WarmingUp!ManualGoes(w, "failing")
            BY <1>6, <4>1 DEF WarmingUp!ManualInserts
          <5> QED
            BY <1>6, <5>1, ThreadValues
        <4> QED
          BY <4>1
      <3> QED
        BY <1>6, <3>1 DEF WarmingUp!ManualInserts, WarmingUp!Progressed
    <2> HIDE DEF done
    <2>4 /\ manual'[w].job = i /\ manual'[w].days = manual[w].days /\ manual'[w].rows = done /\ manual'[w] \in ManualState
         /\ job'[i].days = manual[w].days /\ job'[i].rows = done
      <3>1 job'[i] = [job[i] EXCEPT !.days = manual[w].days, !.rows = done] /\ job[i] \in JobState
        BY <1>a, <2>1, <2>3
      <3>2 job'[i].days = manual[w].days /\ job'[i].rows = done
        BY <3>1 DEF JobState
      <3>3 manual'[w] = [manual[w] EXCEPT !.pc = "renewing", !.rows = done] /\ "renewing" \in Beyond
        BY <1>a, <1>b, <1>c, <2>3
      <3>4 manual'[w].job = i /\ manual'[w].days = manual[w].days /\ manual'[w].rows = done /\ manual'[w] \in ManualState
        BY <1>a, <2>2, <3>3 DEF ManualState
      <3> QED
        BY <3>2, <3>4
    <2>5 HasJob(w)' /\ Agree(w)'
      BY <1>6, <2>1, <2>2, <2>4 DEF HasJob, Agree
    <2>6 DayLeft(w)'
      BY <1>6, <2>1, <2>4 DEF DayLeft, Adding, Removing
    <2>7 UpToDate(w)'
      BY <1>6, <2>5 DEF UpToDate
    <2> QED
      BY <2>4, <2>5, <2>6, <2>7
  <1>7 ASSUME WarmingUp!ManualDayDone(w) /\ WarmingUp!Own(w) /\ manual[w].pc = "progress" /\ manual'[w].pc = "working" PROVE P
    <2> DEFINE i == manual[w].job
               days == manual[w].days + 1
               done == IF manual[w].job \in Injects THEN days * JobRows ELSE 0
    <2>1 i \in Job
      BY <1>7, <1>a DEF HasJob
    <2>2 days \in Nat /\ done \in Nat
      <3>1 days \in Nat
        BY <1>a DEF ManualState
      <3> QED
        BY <3>1, JobRowsOfDays
    <2>3 /\ manual' = [manual EXCEPT ![w].pc = "working", ![w].days = days, ![w].rows = done]
         /\ job' = [job EXCEPT ![i].days = days, ![i].rows = done]
      BY <1>7 DEF WarmingUp!ManualDayDone, WarmingUp!Progressed
    <2> HIDE DEF done, days
    <2>4 /\ manual'[w].job = i /\ manual'[w].days = days /\ manual'[w].rows = done /\ manual'[w] \in ManualState
         /\ job'[i].days = days /\ job'[i].rows = done
      <3>1 job'[i] = [job[i] EXCEPT !.days = days, !.rows = done] /\ job[i] \in JobState
        BY <1>a, <2>1, <2>3
      <3>2 job'[i].days = days /\ job'[i].rows = done
        BY <3>1 DEF JobState
      <3>3 manual'[w] = [manual[w] EXCEPT !.pc = "working", !.days = days, !.rows = done]
        BY <1>a, <2>3
      <3>4 manual'[w].job = i /\ manual'[w].days = days /\ manual'[w].rows = done /\ manual'[w] \in ManualState
        BY <1>a, <2>2, <3>3 DEF ManualState
      <3> QED
        BY <3>2, <3>4
    <2>5 HasJob(w)' /\ Agree(w)'
      BY <1>7, <2>1, <2>2, <2>4 DEF HasJob, Agree
    <2>6 DayLeft(w)'
      BY <1>7, <1>b, <1>c DEF DayLeft
    <2>7 UpToDate(w)'
      BY <1>7, <1>b, <2>5 DEF UpToDate
    <2> QED
      BY <2>4, <2>5, <2>6, <2>7
  <1> HIDE DEF P
  <1>8 P
    <2>1 ThreadPart(w)
      BY ThreadStep
    <2>2 \/ WarmingUp!Rest(w) \/ WarmingUp!Selects(w) \/ (WarmingUp!ManualGoes(w, "ended") /\ manual[w].pc = "rest")
         \/ /\ WarmingUp!ManualGoes(w, "working") /\ manual[w].pc = "selected"
            /\ job' = [job EXCEPT ![manual[w].job].status = "RUNNING", ![manual[w].job].owner = w]
         \/ \E p \in Beyond \cup {"requeuing", "losing", "failing"} : WarmingUp!ManualGoes(w, p) /\ GoesOn(w, p) /\ UNCHANGED job
         \/ WarmingUp!ManualInserts(w) /\ WarmingUp!Own(w) /\ manual[w].pc = "inserting" /\ manual'[w].pc = "renewing"
         \/ WarmingUp!ManualDayDone(w) /\ WarmingUp!Own(w) /\ manual[w].pc = "progress" /\ manual'[w].pc = "working"
      BY <2>1 DEF ThreadPart
    <2> QED
      BY <1>1, <1>2, <1>3, <1>4, <1>5, <1>6, <1>7, <2>2
  <1> QED
    BY <1>8 DEF P

\* The state of a thread stays typed.
LEMMA ManualTyped ==
  ASSUME WarmingUp!TypeOK, WarmingUp!Next, JobPart, Threads, \A u \in Owner : Rested(u)
  PROVE  manual' \in [Owner -> ManualState]
  <1> DEFINE P == manual' = [u \in Owner |-> manual'[u]]
  <1>a manual \in [Owner -> ManualState]
    BY WarmupFacts
  <1>b UNCHANGED manual => P
    BY <1>a
  <1>1 ASSUME NEW w \in Owner, WarmingUp!ManualStep(w) PROVE P
    <2>1 \E x : manual' = [manual EXCEPT ![w] = x]
      BY <1>1 DEF WarmingUp!ManualStep, WarmingUp!ManualEnds, WarmingUp!Selects, WarmingUp!Claims, WarmingUp!Disturbed, WarmingUp!StartsDay, WarmingUp!Excludes, WarmingUp!ManualChecks, WarmingUp!ManualAddsPartition, WarmingUp!ManualDrops,
         WarmingUp!ManualBegins, WarmingUp!ManualInserts, WarmingUp!ManualRenews, WarmingUp!ManualDayDone, WarmingUp!Completes, WarmingUp!Requeues, WarmingUp!FailsJob, WarmingUp!Leaves, WarmingUp!Strands, WarmingUp!Rest, WarmingUp!ManualGoes
    <2> QED
      BY <1>a, <2>1
  <1>2 ASSUME NEW w \in Owner, WarmingUp!Reclaims(w) \/ WarmingUp!Crashes(w) PROVE P
    BY <1>2, <1>a DEF WarmingUp!Reclaims, WarmingUp!Crashes
  <1>3 ASSUME NEW w \in Owner, WarmingUp!QueueStep(w) \/ WarmingUp!Heartbeat(w) \/ WarmingUp!Stops(w) PROVE UNCHANGED manual
    BY <1>3, QueueStepLeaves DEF WarmingUp!Heartbeat, WarmingUp!Stops
  <1>4 (\E j \in Job : WarmingUp!Enqueues(j) \/ WarmingUp!GrowsStale(j)) \/ WarmingUp!LeaseLapses \/ WarmingUp!DayPasses => UNCHANGED manual
    BY DEF WarmingUp!Enqueues, WarmingUp!GrowsStale, WarmingUp!LeaseLapses, WarmingUp!DayPasses
  <1> HIDE DEF P
  <1>5 P
    BY <1>b, <1>1, <1>2, <1>3, <1>4, ServiceStepLeaves DEF WarmingUp!Next
  <1>6 ASSUME NEW w \in Owner PROVE manual'[w] \in ManualState
    <2>1 CASE manual'[w] = manual[w]
      BY <1>a, <2>1
    <2>2 CASE WarmingUp!ManualStep(w)
      BY <2>2, ThreadOwnStep
    <2>3 CASE WarmingUp!Reclaims(w)
      <3>1 manual' = [manual EXCEPT ![w].pc = "rest"]
        BY <2>3 DEF WarmingUp!Reclaims
      <3> QED
        BY <1>a, <3>1 DEF ManualState
    <2>4 CASE WarmingUp!Crashes(w)
      <3>1 manual'[w] = [pc |-> "ended", job |-> None, days |-> 0, rows |-> 0]
        BY <2>4, ThreadValues
      <3> QED
        BY <3>1 DEF ManualState
    <2> QED
      BY <2>1, <2>2, <2>3, <2>4, OwnThread
  <1> QED
    BY <1>5, <1>6 DEF P

\* What holds of every thread is kept by every step.
LEMMA ThreadsStep ==
  ASSUME WarmingUp!TypeOK, WarmingUp!Next, JobPart, Threads, \A u \in Owner : Rested(u)
  PROVE  Threads'
  <1>1 ASSUME NEW w \in Owner PROVE HasJob(w)' /\ DayLeft(w)' /\ UpToDate(w)'
    <2>1 CASE manual'[w] = manual[w]
      BY <2>1, ThreadUntouched
    <2>2 CASE WarmingUp!ManualStep(w)
      BY <2>2, ThreadOwnStep
    <2>3 ASSUME manual'[w].pc \in {"rest", "ended"}, manual'[w].job = None PROVE HasJob(w)' /\ DayLeft(w)' /\ UpToDate(w)'
      BY <2>3 DEF HasJob, DayLeft, UpToDate, Beyond, Adding, Removing
    <2>4 CASE WarmingUp!Reclaims(w)
      <3>1 manual'[w].pc = "rest" /\ manual'[w].job = manual[w].job /\ service[w].pc = "marked"
        BY <2>4, ThreadValues
      <3>2 manual[w].pc = "ended"
        BY <3>1 DEF Rested
      <3>3 manual[w].job = None
        BY <3>2 DEF Threads, HasJob
      <3> QED
        BY <2>3, <3>1, <3>3
    <2>5 CASE WarmingUp!Crashes(w)
      BY <2>3, <2>5, ThreadValues
    <2> QED
      BY <2>1, <2>2, <2>4, <2>5, OwnThread
  <1> QED
    BY <1>1 DEF Threads

\* The lock of the progress row.
LEMMA InsertingMoves ==
  ASSUME WarmingUp!TypeOK, WarmingUp!Next, NEW w \in Owner, manual'[w].pc = "inserting"
  PROVE  manual'[w] = manual[w] \/ (rowLock = None /\ rowLock' = <<"manual", w>>)
  <1> DEFINE P == manual'[w] = manual[w] \/ (rowLock = None /\ rowLock' = <<"manual", w>>)
  <1>a manual \in [Owner -> ManualState]
    BY WarmupFacts
  <1>1 ASSUME WarmingUp!ManualStep(w) PROVE P
    <2>1 ASSUME NEW p \in Beyond \cup {"requeuing", "losing", "failing"}, WarmingUp!ManualGoes(w, p), GoesOn(w, p) PROVE P
      <3>1 p = "inserting"
        BY <2>1, ThreadValues
      <3> QED
        BY <2>1, <3>1 DEF GoesOn, Adding, Removing
    <2>2 CASE WarmingUp!Selects(w)
      <3>1 manual'[w].pc = "selected"
        BY <1>a, <2>2 DEF WarmingUp!Selects
      <3> QED
        BY <3>1
    <2>3 WarmingUp!Rest(w) => manual'[w].pc = "rest"
      BY ThreadValues
    <2>4 WarmingUp!ManualGoes(w, "ended") => manual'[w].pc = "ended"
      BY ThreadValues
    <2>5 WarmingUp!ManualGoes(w, "working") => manual'[w].pc = "working"
      BY ThreadValues
    <2> HIDE DEF P
    <2> QED
      BY <1>1, <2>1, <2>2, <2>3, <2>4, <2>5, ThreadStep DEF ThreadPart
  <1>2 WarmingUp!Reclaims(w) => P
    BY ThreadValues
  <1>3 WarmingUp!Crashes(w) => P
    BY ThreadValues
  <1> QED
    BY <1>1, <1>2, <1>3, OwnThread

\* Whoever has counted the rows of a day has the lock of its progress row.
LEMMA CountedMoves ==
  ASSUME WarmingUp!TypeOK, WarmingUp!Next, NEW w \in Owner, queue'[w].pc = "counted"
  PROVE  \/ queue'[w] = queue[w]
         \/ /\ rowLock = None /\ rowLock' = <<"queue", w>> /\ UNCHANGED rows
            /\ \A d \in 0..LastDay : d = WarmingUp!NextDay(w)' => rows[d].filled < DayRows
  <1> DEFINE P == \/ queue'[w] = queue[w]
                  \/ /\ rowLock = None /\ rowLock' = <<"queue", w>> /\ UNCHANGED rows
                     /\ \A d \in 0..LastDay : d = WarmingUp!NextDay(w)' => rows[d].filled < DayRows
  <1>a queue \in [Owner -> QueueState] /\ rows \in [0..LastDay -> RowState]
    BY WarmupFacts
  <1>b UNCHANGED queue => P
    OBVIOUS
  <1>1 ASSUME NEW v \in Owner, v # w, WarmingUp!QueueStep(v) PROVE P
    <2>0 \E x : queue' = [queue EXCEPT ![v] = x]
      <3>1 WarmingUp!QueueEnds(v) \/ WarmingUp!QueueAddsPartition(v) \/ WarmingUp!QueueInserts(v) \/ WarmingUp!QueueRenews(v) => \E x : queue' = [queue EXCEPT ![v] = x]
        BY DEF WarmingUp!QueueEnds, WarmingUp!QueueAddsPartition, WarmingUp!QueueInserts, WarmingUp!QueueRenews, WarmingUp!Fills, WarmingUp!QueueGoes
      <3>2 WarmingUp!QueueFails(v) \/ WarmingUp!QueueDropsExpired(v) => \E x : queue' = [queue EXCEPT ![v] = x]
        BY DEF WarmingUp!QueueFails, WarmingUp!QueueDropsExpired
      <3>3 WarmingUp!QueueChecks(v) \/ WarmingUp!QueueCounts(v) => \E x : queue' = [queue EXCEPT ![v] = x]
        BY DEF WarmingUp!QueueChecks, WarmingUp!QueueCounts, WarmingUp!Fills, WarmingUp!QueueGoes
      <3> QED
        BY <1>1, <3>1, <3>2, <3>3 DEF WarmingUp!QueueStep
    <2>1 queue'[w] = queue[w]
      BY <1>1, <1>a, <2>0
    <2> QED
      BY <2>1
  <1>2 ASSUME WarmingUp!QueueStep(w) PROVE P
    <2>1 ASSUME NEW p, WarmingUp!QueueGoes(w, p) PROVE queue'[w].pc = p /\ queue'[w].todo = queue[w].todo
      BY <1>a, <2>1 DEF WarmingUp!QueueGoes, QueueState
    <2>2 WarmingUp!Fills(w) => queue'[w].pc = "filling"
      BY <1>a DEF WarmingUp!Fills, QueueState
    <2>3 CASE WarmingUp!QueueEnds(w)
      <3>1 queue'[w] = [pc |-> "ended", todo |-> {}]
        BY <1>a, <2>3 DEF WarmingUp!QueueEnds, WarmingUp!Idle
      <3> QED
        BY <3>1
    <2>4 CASE WarmingUp!QueueFails(w)
      <3>1 [WarmingUp!Idle EXCEPT !.pc = "failed"] = [pc |-> "failed", todo |-> {}]
        BY DEF WarmingUp!Idle
      <3>2 queue'[w] = [pc |-> "failed", todo |-> {}]
        BY <1>a, <2>4, <3>1 DEF WarmingUp!QueueFails
      <3> QED
        BY <3>2
    <2>5 CASE WarmingUp!QueueChecks(w)
      <3>1 WarmingUp!Fills(w) \/ WarmingUp!QueueGoes(w, "partition") \/ WarmingUp!QueueGoes(w, "rest") \/ WarmingUp!QueueGoes(w, "dropping")
        BY <2>5 DEF WarmingUp!QueueChecks
      <3> QED
        BY <2>1, <2>2, <3>1
    <2>6 CASE WarmingUp!QueueAddsPartition(w)
      BY <2>2, <2>6 DEF WarmingUp!QueueAddsPartition
    <2>7 CASE WarmingUp!QueueCounts(w)
      <3> DEFINE e == WarmingUp!NextDay(w)
      <3>1 queue[w].pc = "filling" /\ rowLock = None /\ UNCHANGED rows
        BY <2>7 DEF WarmingUp!QueueCounts, WarmingUp!QueueAt, WarmingUp!MayWrite, WarmingUp!tableVars
      <3>2 CASE queue' = [queue EXCEPT ![w].todo = @ \ {e}]
        <4>1 queue'[w].pc = "filling"
          BY <1>a, <3>1, <3>2 DEF QueueState
        <4> QED
          BY <4>1
      <3>3 CASE ~ (e \in excluded \/ WarmingUp!Rows(e) >= DayRows) /\ WarmingUp!QueueGoes(w, "counted") /\ rowLock' = <<"queue", w>>
        <4>1 queue'[w].todo = queue[w].todo
          BY <2>1, <3>3
        <4>2 WarmingUp!NextDay(w)' = e
          BY <4>1 DEF WarmingUp!NextDay
        <4>3 ASSUME NEW d \in 0..LastDay, d = e PROVE rows[d].filled < DayRows
          <5>1 ~ (rows[d].filled + rows[d].injected >= DayRows)
            BY <3>3, <4>3 DEF WarmingUp!Rows
          <5>2 rows[d].filled \in Nat /\ rows[d].injected \in Nat
            BY <1>a, <4>3 DEF RowState
          <5> QED
            BY <5>1, <5>2, WarmupAssumption
        <4> HIDE DEF e
        <4> QED
          BY <3>1, <3>3, <4>2, <4>3
      <3> QED
        BY <2>7, <3>2, <3>3 DEF WarmingUp!QueueCounts
    <2>8 CASE WarmingUp!QueueInserts(w)
      <3>1 WarmingUp!QueueGoes(w, "renewing")
        BY <2>8 DEF WarmingUp!QueueInserts, WarmingUp!QueueGoes
      <3> QED
        BY <2>1, <3>1
    <2>9 CASE WarmingUp!QueueRenews(w)
      <3>1 WarmingUp!QueueGoes(w, "filling")
        BY <2>9 DEF WarmingUp!QueueRenews
      <3> QED
        BY <2>1, <3>1
    <2>10 CASE WarmingUp!QueueDropsExpired(w)
      <3>1 [WarmingUp!Idle EXCEPT !.pc = "rest"] = [pc |-> "rest", todo |-> {}]
        BY DEF WarmingUp!Idle
      <3>2 queue'[w] = [pc |-> "rest", todo |-> {}]
        BY <1>a, <2>10, <3>1 DEF WarmingUp!QueueDropsExpired
      <3> QED
        BY <3>2
    <2> QED
      BY <1>2, <2>3, <2>4, <2>5, <2>6, <2>7, <2>8, <2>9, <2>10 DEF WarmingUp!QueueStep
  <1>3 ASSUME NEW v \in Owner, WarmingUp!Reclaims(v) \/ WarmingUp!SessionEnds(v) \/ WarmingUp!Crashes(v) PROVE P
    <2>1 v = w => queue'[w].pc \in {"rest", "ended"}
      <3>1 WarmingUp!Reclaims(v) /\ v = w => queue'[w].pc = "rest"
        BY <1>a DEF WarmingUp!Reclaims, QueueState
      <3>2 WarmingUp!SessionEnds(v) \/ WarmingUp!Crashes(v) => queue' = [queue EXCEPT ![v] = [pc |-> "ended", todo |-> {}]]
        BY DEF WarmingUp!SessionEnds, WarmingUp!Crashes, WarmingUp!Idle
      <3> QED
        BY <1>3, <1>a, <3>1, <3>2
    <2>2 v # w => queue'[w] = queue[w]
      BY <1>3, <1>a DEF WarmingUp!Reclaims, WarmingUp!SessionEnds, WarmingUp!Crashes
    <2> QED
      BY <2>1, <2>2
  <1>4 ASSUME NEW v \in Owner, WarmingUp!ServiceStep(v) PROVE P
    BY <1>4, <1>b, <1>3, ServiceStepLeaves
  <1>5 ASSUME NEW v \in Owner, WarmingUp!ManualStep(v) \/ WarmingUp!Heartbeat(v) \/ WarmingUp!Stops(v) PROVE UNCHANGED queue
    BY <1>5, ManualStepLeaves DEF WarmingUp!Heartbeat, WarmingUp!Stops
  <1>6 (\E j \in Job : WarmingUp!Enqueues(j) \/ WarmingUp!GrowsStale(j)) \/ WarmingUp!LeaseLapses \/ WarmingUp!DayPasses => UNCHANGED queue
    BY DEF WarmingUp!Enqueues, WarmingUp!GrowsStale, WarmingUp!LeaseLapses, WarmingUp!DayPasses
  <1> HIDE DEF P
  <1>7 P
    BY <1>b, <1>1, <1>2, <1>3, <1>4, <1>5, <1>6 DEF WarmingUp!Next
  <1> QED
    BY <1>7 DEF P

\* The lock is taken when it is free, and given up by the thread that ends its insertion.
LEMMA LockMoves ==
  ASSUME WarmingUp!TypeOK, WarmingUp!Next, \A u \in Owner : Locked(u)
  PROVE  /\ rowLock' \in ({"queue", "manual"} \X Owner) \cup {None}
         /\ \/ rowLock' = rowLock \/ rowLock = None
            \/ \E u \in Owner : \/ rowLock = <<"queue", u>> /\ queue'[u].pc # "counted"
                                \/ rowLock = <<"manual", u>> /\ manual'[u].pc # "inserting"
  <1> DEFINE Freed == \E u \in Owner : \/ rowLock = <<"queue", u>> /\ queue'[u].pc # "counted"
                                       \/ rowLock = <<"manual", u>> /\ manual'[u].pc # "inserting"
             P == /\ rowLock' \in ({"queue", "manual"} \X Owner) \cup {None}
                  /\ rowLock' = rowLock \/ rowLock = None \/ Freed
  <1>a /\ rowLock \in ({"queue", "manual"} \X Owner) \cup {None}
       /\ queue \in [Owner -> QueueState] /\ manual \in [Owner -> ManualState]
    BY WarmupFacts DEF WarmingUp!TypeOK
  <1>b UNCHANGED rowLock => P
    BY <1>a
  <1>c ASSUME rowLock' \in {rowLock, None}, Freed PROVE P
    BY <1>a, <1>c
  <1>1 ASSUME NEW w \in Owner, WarmingUp!QueueFails(w) PROVE P
    <2>1 [WarmingUp!Idle EXCEPT !.pc = "failed"] = [pc |-> "failed", todo |-> {}]
      BY DEF WarmingUp!Idle
    <2>2 queue'[w].pc = "failed"
      BY <1>a, <1>1, <2>1 DEF WarmingUp!QueueFails
    <2>3 rowLock' = IF rowLock = <<"queue", w>> THEN None ELSE rowLock
      BY <1>1 DEF WarmingUp!QueueFails
    <2> QED
      BY <1>a, <2>2, <2>3
  <1>2 ASSUME NEW w \in Owner, WarmingUp!QueueInserts(w) PROVE P
    <2>1 queue'[w].pc = "renewing"
      BY <1>a, <1>2 DEF WarmingUp!QueueInserts, QueueState
    <2>2 rowLock' = IF rowLock = <<"queue", w>> THEN None ELSE rowLock
      BY <1>2 DEF WarmingUp!QueueInserts
    <2> QED
      BY <1>a, <2>1, <2>2
  <1>3 ASSUME NEW w \in Owner, WarmingUp!QueueCounts(w) PROVE P
    <2>1 rowLock = None /\ rowLock' \in {None, <<"queue", w>>}
      BY <1>3 DEF WarmingUp!QueueCounts, WarmingUp!MayWrite
    <2> QED
      BY <2>1
  <1>4 ASSUME NEW w \in Owner, WarmingUp!ManualBegins(w) PROVE P
    <2>1 UNCHANGED rowLock \/ (rowLock = None /\ rowLock' = <<"manual", w>>)
      BY <1>4 DEF WarmingUp!ManualBegins, WarmingUp!MayWrite
    <2> QED
      BY <1>a, <2>1
  <1>5 ASSUME NEW w \in Owner, WarmingUp!ManualInserts(w) PROVE P
    <2>1 manual[w].pc = "inserting" /\ rowLock' = None
      BY <1>5 DEF WarmingUp!ManualInserts, WarmingUp!ManualAt
    <2>2 rowLock = <<"manual", w>>
      BY <2>1 DEF Locked
    <2>3 manual'[w].pc # "inserting"
      <3>1 \/ \E p \in {"failing", "losing"} : WarmingUp!ManualGoes(w, p)
           \/ \E done : manual' = [manual EXCEPT ![w].pc = "renewing", ![w].rows = done]
        BY <1>5 DEF WarmingUp!ManualInserts
      <3> QED
        BY <1>a, <3>1 DEF WarmingUp!ManualGoes, ManualState
    <2> QED
      BY <2>1, <2>2, <2>3
  <1>6 ASSUME NEW w \in Owner, WarmingUp!Crashes(w) PROVE P
    <2>1 manual'[w].pc = "ended"
      BY <1>6, ThreadValues
    <2>2 queue'[w].pc = "ended"
      BY <1>6, <1>a DEF WarmingUp!Crashes, WarmingUp!Idle
    <2>3 rowLock' = IF rowLock \in {<<"queue", w>>, <<"manual", w>>} THEN None ELSE rowLock
      BY <1>6 DEF WarmingUp!Crashes
    <2> QED
      BY <1>a, <2>1, <2>2, <2>3
  <1>7 ASSUME NEW w \in Owner, WarmingUp!Heartbeat(w) \/ WarmingUp!Stops(w) PROVE UNCHANGED rowLock
    BY <1>7 DEF WarmingUp!Heartbeat, WarmingUp!Stops
  <1>8 (\E j \in Job : WarmingUp!Enqueues(j) \/ WarmingUp!GrowsStale(j)) \/ WarmingUp!LeaseLapses \/ WarmingUp!DayPasses => UNCHANGED rowLock
    BY DEF WarmingUp!Enqueues, WarmingUp!GrowsStale, WarmingUp!LeaseLapses, WarmingUp!DayPasses
  <1> HIDE DEF P
  <1>9 P
    BY <1>b, <1>1, <1>2, <1>3, <1>4, <1>5, <1>6, <1>7, <1>8, ServiceStepLeaves, QueueStepLeaves, ManualStepLeaves DEF WarmingUp!Next
  <1> QED
    BY <1>9 DEF P

\* Locked is kept by every step.
LEMMA LockedStep ==
  ASSUME WarmingUp!TypeOK, WarmingUp!Next, \A u \in Owner : Locked(u), RowsPart, NEW w \in Owner
  PROVE  Locked(w)'
  <1>a None \notin {"queue", "manual"} \X Owner
    BY WarmupAssumption
  <1>b <<"manual", w>> # None /\ <<"queue", w>> # None
    BY <1>a
  <1>1 ASSUME manual'[w].pc = "inserting" PROVE rowLock' = <<"manual", w>>
    <2>1 CASE manual'[w] = manual[w]
      <3>1 rowLock = <<"manual", w>>
        BY <1>1, <2>1 DEF Locked
      <3> QED
        BY <1>1, <1>b, <3>1, LockMoves
    <2> QED
      BY <1>1, <2>1, InsertingMoves
  <1>2 ASSUME queue'[w].pc = "counted"
       PROVE  rowLock' = <<"queue", w>> /\ \A d \in 0..LastDay : d = WarmingUp!NextDay(w)' => rows'[d].filled < DayRows
    <2>1 CASE queue'[w] = queue[w]
      <3>1 rowLock = <<"queue", w>> /\ \A d \in 0..LastDay : d = WarmingUp!NextDay(w) => rows[d].filled < DayRows
        BY <1>2, <2>1 DEF Locked
      <3>2 rowLock' = <<"queue", w>>
        BY <1>2, <1>b, <3>1, LockMoves
      <3>3 WarmingUp!NextDay(w)' = WarmingUp!NextDay(w)
        BY <2>1 DEF WarmingUp!NextDay
      <3>4 ASSUME NEW d \in 0..LastDay, d = WarmingUp!NextDay(w) PROVE rows'[d].filled < DayRows
        <4>1 rows'[d].filled \in Nat /\ rows[d].filled \in Nat /\ rows[d].filled < DayRows
          <5>1 rows' \in [0..LastDay -> RowState] /\ rows \in [0..LastDay -> RowState]
            BY WarmupFacts DEF RowsPart
          <5> QED
            BY <3>1, <3>4, <5>1 DEF RowState
        <4>2 rows'[d].filled <= rows[d].filled
          <5>1 ~ \E u \in Owner : queue[u].pc = "counted" /\ rowLock' = None
            BY <3>2, <1>b
          <5> QED
            BY <3>4, <5>1 DEF RowsPart
        <4> QED
          BY <4>1, <4>2, WarmupAssumption
      <3> QED
        BY <3>2, <3>3, <3>4
    <2>2 CASE /\ rowLock = None /\ rowLock' = <<"queue", w>> /\ UNCHANGED rows
              /\ \A d \in 0..LastDay : d = WarmingUp!NextDay(w)' => rows[d].filled < DayRows
      BY <2>2
    <2> QED
      BY <1>2, <2>1, <2>2, CountedMoves
  <1> QED
    BY <1>1, <1>2 DEF Locked

\* FilledOnce is kept by every step.
LEMMA FilledStep ==
  ASSUME WarmingUp!TypeOK, FilledOnce, RowsPart
  PROVE  FilledOnce'
  <1>1 ASSUME NEW d \in 0..LastDay PROVE rows'[d].filled <= DayRows
    <2>1 rows' \in [0..LastDay -> RowState] /\ rows \in [0..LastDay -> RowState]
      BY WarmupFacts DEF RowsPart
    <2>2 rows'[d].filled \in Nat /\ rows[d].filled \in Nat /\ rows[d].filled <= DayRows
      BY <1>1, <2>1 DEF RowState, FilledOnce
    <2>3 rows'[d].filled <= rows[d].filled \/ (rows'[d].filled = rows[d].filled + 1 /\ rows[d].filled < DayRows)
      BY <1>1 DEF RowsPart
    <2> QED
      BY <2>2, <2>3, WarmupAssumption
  <1> QED
    BY <1>1 DEF FilledOnce

\* What a crash or a failing statement has left running stays so until it is reclaimed.
LEMMA LeftMoves ==
  ASSUME WarmingUp!TypeOK, WarmingUp!Next, Threads
  PROVE  /\ left' \subseteq Job /\ stale' \subseteq Job
         /\ \A j \in left : j \in left' \/ job'[j].status # "RUNNING"
  <1> DEFINE P == left' \subseteq Job /\ \A j \in left : j \in left' \/ job'[j].status # "RUNNING"
             Q == stale' \subseteq Job
  <1>a left \subseteq Job /\ stale \subseteq Job /\ job \in [Job -> JobState]
    BY WarmupFacts
  <1>b UNCHANGED left => P
    BY <1>a
  <1>c UNCHANGED stale => Q
    BY <1>a
  <1>1 ASSUME NEW w \in Owner, WarmingUp!Reclaims(w) PROVE P /\ Q
    <2>1 /\ job' = [j \in Job |-> IF j \in stale THEN [job[j] EXCEPT !.status = "QUEUED", !.owner = None] ELSE job[j]]
         /\ left' = left \ stale /\ stale' = {}
      BY <1>1 DEF WarmingUp!Reclaims, WarmingUp!Requeued
    <2>2 ASSUME NEW j \in Job, j \in stale PROVE job'[j].status # "RUNNING"
      <3>1 job'[j] = [job[j] EXCEPT !.status = "QUEUED", !.owner = None] /\ job[j] \in JobState
        BY <1>a, <2>1, <2>2
      <3> QED
        BY <3>1 DEF JobState
    <2> QED
      BY <1>a, <2>1, <2>2
  <1>2 ASSUME NEW w \in Owner, WarmingUp!Completes(w) \/ WarmingUp!Requeues(w) \/ WarmingUp!FailsJob(w) PROVE P /\ Q
    <2>1 manual[w].job \in Job
      BY <1>2 DEF WarmingUp!Completes, WarmingUp!Requeues, WarmingUp!FailsJob, WarmingUp!ManualAt, Threads, HasJob
    <2>2 /\ UNCHANGED left \/ left' = left \cup {manual[w].job}
         /\ UNCHANGED stale \/ stale' = stale \ {manual[w].job}
      <3>1 \/ WarmingUp!Strands(w)
           \/ \E status \in {"QUEUED", "COMPLETED", "FAILED"} : WarmingUp!Leaves(w, status)
        BY <1>2 DEF WarmingUp!Completes, WarmingUp!Requeues, WarmingUp!FailsJob
      <3> QED
        BY <3>1 DEF WarmingUp!Leaves, WarmingUp!Strands, WarmingUp!NoFault
    <2> QED
      BY <1>a, <2>1, <2>2
  <1>3 ASSUME NEW w \in Owner, WarmingUp!ManualStep(w) PROVE P /\ Q
    <2>1 WarmingUp!Claims(w) => UNCHANGED stale
      BY DEF WarmingUp!Claims
    <2>2 WarmingUp!ManualInserts(w) \/ WarmingUp!ManualDayDone(w) => Q
      <3>1 WarmingUp!ManualInserts(w) => UNCHANGED stale \/ stale' = stale \ {manual[w].job}
        BY DEF WarmingUp!ManualInserts, WarmingUp!Progressed
      <3>2 WarmingUp!ManualDayDone(w) => UNCHANGED stale \/ stale' = stale \ {manual[w].job}
        BY DEF WarmingUp!ManualDayDone, WarmingUp!Progressed
      <3> QED
        BY <1>a, <3>1, <3>2
    <2> HIDE DEF P, Q
    <2> QED
      BY <1>3, <1>b, <1>c, <1>2, <2>1, <2>2, ManualStepLeaves
  <1>4 ASSUME NEW w \in Owner, WarmingUp!Crashes(w) PROVE P /\ Q
    BY <1>4, <1>a DEF WarmingUp!Crashes
  <1>5 ASSUME NEW w \in Owner, WarmingUp!Heartbeat(w) \/ WarmingUp!Stops(w) PROVE UNCHANGED <<left, stale>>
    BY <1>5 DEF WarmingUp!Heartbeat, WarmingUp!Stops, WarmingUp!Fault, WarmingUp!NoFault
  <1>6 ASSUME NEW j \in Job, WarmingUp!Enqueues(j) PROVE UNCHANGED <<left, stale>>
    BY <1>6 DEF WarmingUp!Enqueues
  <1>7 ASSUME NEW j \in Job, WarmingUp!GrowsStale(j) PROVE P /\ Q
    BY <1>7, <1>a DEF WarmingUp!GrowsStale
  <1>8 WarmingUp!LeaseLapses \/ WarmingUp!DayPasses => UNCHANGED <<left, stale>>
    BY DEF WarmingUp!LeaseLapses, WarmingUp!DayPasses, WarmingUp!jobVars, WarmingUp!Fault, WarmingUp!NoFault
  <1>9 ASSUME NEW w \in Owner, WarmingUp!ServiceStep(w) \/ WarmingUp!QueueStep(w) PROVE P /\ Q
    BY <1>9, <1>b, <1>c, <1>1, ServiceStepLeaves, QueueStepLeaves
  <1> HIDE DEF P, Q
  <1>10 P /\ Q
    BY <1>b, <1>c, <1>3, <1>4, <1>5, <1>6, <1>7, <1>8, <1>9 DEF WarmingUp!Next
  <1> QED
    BY <1>10 DEF P, Q

\* A thread that has done a day of its own job keeps the job.
LEMMA DayDoneKeepsJob ==
  ASSUME WarmingUp!TypeOK, NEW w \in Owner, WarmingUp!ManualDayDone(w), WarmingUp!Own(w)
  PROVE  manual'[w].job = manual[w].job
  <1>1 \E days, done : manual' = [manual EXCEPT ![w].pc = "working", ![w].days = days, ![w].rows = done]
    BY DEF WarmingUp!ManualDayDone
  <1>2 manual \in [Owner -> ManualState]
    BY WarmupFacts
  <1> QED
    BY <1>1, <1>2 DEF ManualState

\* A thread keeps a running job until it says what becomes of it.
LEMMA JobKept ==
  ASSUME WarmingUp!TypeOK, WarmingUp!Next, Threads, NEW w \in Owner, WarmingUp!ManualStep(w), NEW j \in Job,
         manual[w].job = j, manual[w].pc # "selected", job[j].owner = w,
         job'[j].status = "RUNNING", j \notin left'
  PROVE  manual'[w].job = j /\ manual'[w].pc # "selected"
  <1> DEFINE P == manual'[w].job = j /\ manual'[w].pc # "selected"
  <1>a manual \in [Owner -> ManualState] /\ job \in [Job -> JobState] /\ j # None /\ HasJob(w)
    BY WarmupFacts, WarmupAssumption DEF Threads
  <1>1 ASSUME WarmingUp!Completes(w) \/ WarmingUp!Requeues(w) \/ WarmingUp!FailsJob(w) PROVE FALSE
    <2>1 WarmingUp!Own(w)
      BY DEF WarmingUp!Own
    <2>2 ~ WarmingUp!Strands(w)
      BY <2>1 DEF WarmingUp!Strands
    <2>3 PICK status \in {"QUEUED", "COMPLETED", "FAILED"} : WarmingUp!Leaves(w, status)
      BY <1>1, <2>2 DEF WarmingUp!Completes, WarmingUp!Requeues, WarmingUp!FailsJob
    <2>4 job' = [job EXCEPT ![j].status = status, ![j].owner = None]
      BY <2>1, <2>3 DEF WarmingUp!Leaves
    <2>5 job'[j].status = status
      BY <1>a, <2>4 DEF JobState
    <2> QED
      BY <2>5
  <1>2 ~ WarmingUp!Claims(w) /\ ~ WarmingUp!Selects(w) /\ manual[w].pc # "rest"
    BY <1>a DEF WarmingUp!Claims, WarmingUp!Selects, WarmingUp!ManualAt, HasJob
  <1>3 ASSUME NEW p \in Beyond \cup {"requeuing", "losing", "failing"}, WarmingUp!ManualGoes(w, p) PROVE P
    <2>1 manual'[w].pc = p /\ manual'[w].job = j
      BY <1>3, ThreadValues
    <2>2 "selected" \notin Beyond
      BY DEF Beyond, Adding, Removing
    <2> QED
      BY <2>1, <2>2
  <1>4 ASSUME WarmingUp!ManualInserts(w), manual'[w].pc = "renewing" PROVE P
    <2>1 \/ \E p \in {"failing", "losing"} : WarmingUp!ManualGoes(w, p)
         \/ \E done : manual' = [manual EXCEPT ![w].pc = "renewing", ![w].rows = done]
      BY <1>4 DEF WarmingUp!ManualInserts
    <2> QED
      BY <1>a, <1>3, <1>4, <2>1 DEF ManualState
  <1>5 ASSUME WarmingUp!ManualDayDone(w), manual'[w].pc = "working" PROVE P
    <2>1 WarmingUp!Own(w)
      BY DEF WarmingUp!Own
    <2> QED
      BY <1>5, <2>1, DayDoneKeepsJob
  <1> HIDE DEF P
  <1>6 P
    BY <1>1, <1>2, <1>3, <1>4, <1>5, ThreadStep DEF ThreadPart
  <1> QED
    BY <1>6 DEF P

\* NoJobStranded is kept by every step.
LEMMA StrandedStep ==
  ASSUME WarmingUp!TypeOK, WarmingUp!Next, Threads, JobPart, WarmingUp!NoJobStranded
  PROVE  WarmingUp!NoJobStranded'
  <1>1 ASSUME NEW j \in Job, job'[j].status = "RUNNING", j \notin left'
       PROVE  manual'[job'[j].owner].job = j /\ manual'[job'[j].owner].pc # "selected"
    <2> DEFINE w == job'[j].owner
    <2>a /\ job \in [Job -> JobState] /\ job' \in [Job -> JobState] /\ manual \in [Owner -> ManualState] /\ None \notin Owner
         /\ \A i \in Job : job[i].owner # None <=> job[i].status = "RUNNING"
         /\ \A i \in Job : job'[i].owner # None <=> job'[i].status = "RUNNING"
         /\ JobMoved(j)
      BY <1>1, WarmupFacts, WarmupAssumption DEF JobPart
    <2>1 w \in Owner
      BY <1>1, <2>a DEF JobState
    <2> HIDE DEF w
    <2>2 job'[j].owner = w /\ w # None
      BY <2>1, <2>a DEF w
    <2>3 \/ job[j].owner = w
         \/ \E v \in Owner : w = v /\ manual'[v].pc = "working" /\ manual'[v].job = j
      BY <2>a, <2>2 DEF JobMoved
    <2>4 CASE job[j].owner = w
      <3>1 job[j].status = "RUNNING" /\ j \notin left
        BY <1>1, <2>a, <2>2, <2>4, LeftMoves
      <3>2 manual[w].job = j /\ manual[w].pc # "selected"
        BY <2>4, <3>1 DEF WarmingUp!NoJobStranded
      <3>3 CASE manual'[w] = manual[w]
        BY <2>2, <3>2, <3>3
      <3>4 CASE WarmingUp!ManualStep(w)
        BY <1>1, <2>1, <2>2, <2>4, <3>2, <3>4, JobKept
      <3>5 CASE WarmingUp!Reclaims(w)
        BY <2>1, <2>2, <3>2, <3>5, ThreadValues
      <3>6 CASE WarmingUp!Crashes(w)
        BY <1>1, <2>4, <3>6 DEF WarmingUp!Crashes
      <3> QED
        BY <2>1, <3>3, <3>4, <3>5, <3>6, OwnThread
    <2> QED
      BY <2>2, <2>3, <2>4
  <1> QED
    BY <1>1 DEF WarmingUp!NoJobStranded

\* The sets of states by the names that the proof gives them.
LEMMA StateSets ==
  /\ [pc : {"contending", "acquired", "renewed", "marked", "session", "failing", "failingLost", "off", "dead"},
      held : BOOLEAN, stopped : BOOLEAN] = ServiceState
  /\ [pc : {"rest", "partition", "filling", "counted", "renewing", "dropping", "ended", "failed"},
      todo : SUBSET (0..LastDay)] = QueueState
  /\ [pc : {"rest", "selected", "working", "unexcluding", "prepared", "partition",
       "filling", "inserting", "renewing", "progress", "excluding", "excluded", "dropping",
       "requeuing", "losing", "failing", "ended"}, job : Job \cup {None}, days : Nat, rows : Nat] = ManualState
  /\ [status : {"NONE", "QUEUED", "RUNNING", "COMPLETED", "FAILED"},
      owner : Owner \cup {None}, days : Nat, rows : Nat] = JobState
  /\ [filled : Nat, injected : Nat] = RowState
  <1>1 {"rest", "selected", "working", "unexcluding", "prepared", "partition",
       "filling", "inserting", "renewing", "progress", "excluding", "excluded", "dropping",
       "requeuing", "losing", "failing", "ended"} = Beyond \cup {"rest", "selected", "working", "requeuing", "losing", "failing", "ended"}
    BY DEF Beyond, Adding, Removing
  <1> QED
    BY <1>1 DEF ServiceState, QueueState, ManualState, JobState, RowState

\* The invariant of the warm-up is inductive.
LEMMA WarmupStep ==
  ASSUME WarmupInv, WarmingUp!Next
  PROVE  WarmupInv'
  <1>a /\ WarmingUp!TypeOK /\ \A j \in Job : JobInv(j)
       /\ Threads /\ \A u \in Owner : Rested(u) /\ Locked(u)
       /\ FilledOnce /\ WarmingUp!NoJobStranded
    BY DEF WarmupInv, Threads
  <1>1 JobPart
    BY <1>a, JobStep
  <1>2 RowsPart
    BY <1>a, RowsStep
  <1>3 Threads'
    BY <1>a, <1>1, ThreadsStep
  <1>4 FilledOnce'
    BY <1>a, <1>2, FilledStep
  <1>5 WarmingUp!NoJobStranded'
    BY <1>a, <1>1, StrandedStep
  <1>6 ASSUME NEW w \in Owner PROVE Rested(w)' /\ Locked(w)'
    BY <1>a, <1>2, RestedStep, LockedStep
  <1>7 WarmingUp!TypeOK'
    <2>1 service' \in [Owner -> ServiceState] /\ queue' \in [Owner -> QueueState] /\ manual' \in [Owner -> ManualState]
      BY <1>a, <1>1, ServiceTyped, QueueTyped, ManualTyped
    <2>2 /\ job' \in [Job -> JobState] /\ inserted' \in [Job -> Nat]
         /\ \A j \in Job : job'[j].owner # None <=> job'[j].status = "RUNNING"
      BY <1>1 DEF JobPart
    <2>3 rows' \in [0..LastDay -> RowState] /\ partitions' \subseteq 0..LastDay /\ excluded' \subseteq 0..LastDay
      BY <1>2 DEF RowsPart
    <2>4 /\ today' \in 0..LastDay /\ lease' \in Owner \cup {None} /\ mark' \in Owner \cup {None}
         /\ faults' \in 0..MaxFaults /\ rowLock' \in ({"queue", "manual"} \X Owner) \cup {None}
         /\ stale' \subseteq Job /\ left' \subseteq Job
      BY <1>a, LeaseTyped, WarmupFaultsTyped, LockMoves, LeftMoves
    <2> QED
      BY <2>1, <2>2, <2>3, <2>4, StateSets DEF WarmingUp!TypeOK, WarmingUp!Day
  <1>8 \A j \in Job : JobInv(j)'
    BY <1>1 DEF JobPart
  <1> QED
    BY <1>3, <1>4, <1>5, <1>6, <1>7, <1>8 DEF WarmupInv, Threads

\* No job has been begun and nothing has been added.
NothingDone ==
  /\ today \in 0..LastDay /\ lease \in Owner \cup {None} /\ mark = None /\ rowLock = None
  /\ service \in [Owner -> ServiceState]
  /\ queue = [w \in Owner |-> WarmingUp!Idle] /\ manual = [w \in Owner |-> WarmingUp!NoJob]
  /\ job \in [Job -> JobState]
  /\ \A j \in Job : /\ job[j].status \in {"NONE", "FAILED"} /\ job[j].owner = None
                    /\ job[j].days = 0 /\ job[j].rows = 0
  /\ stale = {} /\ left = {}
  /\ rows = [d \in 0..LastDay |-> [filled |-> 0, injected |-> 0]]
  /\ partitions \subseteq 0..LastDay /\ excluded = {}
  /\ inserted = [j \in Job |-> 0] /\ faults = 0

\* That is so when the services start, and once the first of them has the lease.
LEMMA NothingDoneYet ==
  ASSUME WarmupInit \/ WarmingUp!Init
  PROVE  NothingDone
  <1>a /\ first \in Owner /\ LastDay \in Nat \ {0} /\ WindowDays \in Nat \ {0}
    BY WarmupAssumption
  <1>1 CASE WarmupInit
    <2>1 service \in [Owner -> ServiceState]
      BY <1>1, <1>a DEF WarmupInit, ServiceState
    <2>2 /\ job \in [Job -> JobState]
         /\ \A j \in Job : /\ job[j].status \in {"NONE", "FAILED"} /\ job[j].owner = None
                           /\ job[j].days = 0 /\ job[j].rows = 0
      BY <1>1 DEF WarmupInit, JobState
    <2>3 today \in 0..LastDay /\ partitions \subseteq 0..LastDay /\ lease \in Owner \cup {None}
      BY <1>1, <1>a DEF WarmupInit
    <2> QED
      BY <1>1, <2>1, <2>2, <2>3 DEF WarmupInit, NothingDone
  <1>2 CASE WarmingUp!Init
    <2>1 service \in [Owner -> ServiceState]
      BY <1>2 DEF WarmingUp!Init, ServiceState
    <2>2 /\ job \in [Job -> JobState]
         /\ \A j \in Job : /\ job[j].status \in {"NONE", "FAILED"} /\ job[j].owner = None
                           /\ job[j].days = 0 /\ job[j].rows = 0
      BY <1>2 DEF WarmingUp!Init, JobState
    <2>3 today \in 0..LastDay /\ partitions \subseteq 0..LastDay /\ lease \in Owner \cup {None}
      BY <1>2, <1>a DEF WarmingUp!Init
    <2> QED
      BY <1>2, <2>1, <2>2, <2>3 DEF WarmingUp!Init, WarmingUp!Day, NothingDone
  <1> QED
    BY <1>1, <1>2

\* The invariant holds then.
LEMMA WarmupStart ==
  ASSUME NothingDone
  PROVE  WarmupInv
  <1>a /\ first \in Owner /\ None \notin Owner /\ LastDay \in Nat \ {0} /\ JobRows \in Nat /\ DayRows \in Nat /\ MaxFaults \in Nat
    BY WarmupAssumption
  <1>1 WarmingUp!TypeOK
    <2>1 /\ service \in [Owner -> ServiceState] /\ \A w \in Owner : manual[w] = [pc |-> "ended", job |-> None, days |-> 0, rows |-> 0]
      BY <1>a DEF NothingDone, ServiceState, WarmingUp!NoJob
    <2>2 queue \in [Owner -> QueueState]
      BY DEF NothingDone, QueueState, WarmingUp!Idle
    <2>3 manual \in [Owner -> ManualState]
      BY DEF NothingDone, ManualState, WarmingUp!NoJob
    <2>4 job \in [Job -> JobState] /\ \A j \in Job : job[j].owner # None <=> job[j].status = "RUNNING"
      BY DEF NothingDone, JobState
    <2>5 /\ rows \in [0..LastDay -> RowState] /\ inserted \in [Job -> Nat] /\ excluded \subseteq 0..LastDay
         /\ stale \subseteq Job /\ left \subseteq Job
      BY DEF NothingDone, RowState
    <2>6 /\ today \in 0..LastDay /\ partitions \subseteq 0..LastDay /\ lease \in Owner \cup {None} /\ mark \in Owner \cup {None}
         /\ rowLock \in ({"queue", "manual"} \X Owner) \cup {None} /\ faults \in 0..MaxFaults
      BY <1>a DEF NothingDone
    <2> QED
      BY <2>1, <2>2, <2>3, <2>4, <2>5, <2>6, StateSets DEF WarmingUp!TypeOK, WarmingUp!Day
  <1>2 ASSUME NEW j \in Job PROVE JobInv(j)
    <2>1 job[j].days = 0 /\ job[j].rows = 0 /\ job[j].status \in {"NONE", "FAILED"} /\ inserted[j] = 0
      BY <1>2 DEF NothingDone
    <2>2 Len(JobDays[j]) \in Nat
      BY <1>2, WarmupAssumption
    <2>3 0 * JobRows = 0 /\ (0 + 1) * JobRows = JobRows
      BY <1>a
    <2> QED
      BY <1>a, <2>1, <2>2, <2>3 DEF JobInv
  <1>3 ASSUME NEW w \in Owner PROVE HasJob(w) /\ DayLeft(w) /\ UpToDate(w) /\ Rested(w) /\ Locked(w)
    <2>1 manual[w].pc = "ended" /\ manual[w].job = None /\ queue[w].pc = "ended"
      BY <1>3 DEF NothingDone, WarmingUp!NoJob, WarmingUp!Idle
    <2> QED
      BY <2>1 DEF HasJob, DayLeft, UpToDate, Rested, Locked, Beyond, Adding, Removing
  <1>4 FilledOnce
    BY <1>a DEF NothingDone, FilledOnce
  <1>5 WarmingUp!NoJobStranded
    BY DEF NothingDone, WarmingUp!NoJobStranded
  <1> QED
    BY <1>1, <1>2, <1>3, <1>4, <1>5 DEF WarmupInv

\* The invariant is about the state of the warm-up alone.
LEMMA WarmupStutters ==
  ASSUME UNCHANGED warmupVars, WarmupInv
  PROVE  WarmupInv'
  <1>1 WarmingUp!TypeOK' <=> WarmingUp!TypeOK
    BY DEF warmupVars, WarmingUp!TypeOK
  <1>2 ASSUME NEW j \in Job PROVE JobInv(j)' <=> JobInv(j)
    BY <1>2 DEF warmupVars, JobInv
  <1>3 (FilledOnce' <=> FilledOnce) /\ (WarmingUp!NoJobStranded' <=> WarmingUp!NoJobStranded)
    BY DEF warmupVars, FilledOnce, WarmingUp!NoJobStranded
  <1>4 ASSUME NEW w \in Owner
       PROVE  (HasJob(w)' <=> HasJob(w)) /\ (DayLeft(w)' <=> DayLeft(w)) /\ (Rested(w)' <=> Rested(w))
    BY <1>4 DEF warmupVars, HasJob, DayLeft, Rested, WarmingUp!Added
  <1>5 ASSUME NEW w \in Owner PROVE UpToDate(w)' <=> UpToDate(w)
    BY <1>5 DEF warmupVars, UpToDate, Agree, WarmingUp!Own
  <1>6 ASSUME NEW w \in Owner PROVE Locked(w)' <=> Locked(w)
    BY <1>6 DEF warmupVars, Locked, WarmingUp!NextDay
  <1> QED
    BY <1>1, <1>2, <1>3, <1>4, <1>5, <1>6 DEF WarmupInv

WarmupHolds == focus = "warmup" => WarmupInv

\* It holds whenever the warm-up is the part that takes steps.
LEMMA WarmupInvariant == MCSpec => []WarmupHolds
  <1>1 MCInit => WarmupHolds
    BY NothingDoneYet, WarmupStart DEF MCInit, WarmupHolds
  <1>2 ASSUME WarmupHolds, [MCNext]_<<focus, replenishmentVars, warmupVars, runnerVars, processVars>>
       PROVE  WarmupHolds'
    <2>1 CASE WarmsUp
      BY <1>2, <2>1, WarmupStep DEF WarmsUp, WarmupHolds
    <2>2 CASE ~ WarmsUp
      <3>1 UNCHANGED <<focus, warmupVars>>
        BY <1>2, <2>2 DEF MCNext, Replenishes, Runs, Works
      <3> QED
        BY <1>2, <3>1, WarmupStutters DEF WarmupHolds
    <2> QED
      BY <2>1, <2>2
  <1> QED
    BY <1>1, <1>2, PTL DEF MCSpec

\* What the invariant says to a reader of the tables.
LEMMA WarmupSound ==
  ASSUME WarmupInv
  PROVE  WarmingUp!RowsExact /\ WarmingUp!NoJobStranded
  <1>1 ASSUME NEW j \in Job
       PROVE  /\ job[j].rows = inserted[j]
              /\ job[j].status = "COMPLETED" /\ j \in Injects => inserted[j] = Len(JobDays[j]) * JobRows
    BY <1>1 DEF WarmupInv, JobInv
  <1> QED
    BY <1>1 DEF WarmupInv, FilledOnce, WarmingUp!RowsExact, WarmingUp!Day

\* For any processes, jobs, days and faults: what a job has added is what its progress
\* says, a day is filled no further than its rows, and a running job that no crash and no
\* failing statement has left has its thread (data-warmup.ts: insertManualWarmupBatch,
\* insertDailyWarmupRows, processManualWarmupJobs).
THEOREM WarmupSafe == MCSpec => []WarmupIsSafe
  <1>1 WarmupHolds => WarmupIsSafe
    BY WarmupSound DEF WarmupHolds, WarmupIsSafe
  <1> QED
    BY <1>1, WarmupInvariant, PTL

\* The same of DataWarmup by itself, from the start of the services on, when none of them
\* has the lease: the run begins a few steps later (start and runLoop of data-warmup.ts).
THEOREM WarmupSafeFromStart ==
  WarmingUp!Spec => [](WarmingUp!RowsExact /\ WarmingUp!NoJobStranded)
  <1>1 WarmingUp!Init => WarmupInv
    BY NothingDoneYet, WarmupStart
  <1>2 UNCHANGED WarmingUp!warmupVars => UNCHANGED warmupVars
    BY DEF WarmingUp!warmupVars, WarmingUp!leaseVars, WarmingUp!tableVars, WarmingUp!jobVars, warmupVars
  <1>3 WarmupInv /\ [WarmingUp!Next]_(WarmingUp!warmupVars) => WarmupInv'
    BY <1>2, WarmupStep, WarmupStutters
  <1> QED
    BY <1>1, <1>3, WarmupSound, PTL DEF WarmingUp!Spec

-----------------------------------------------------------------------------
\* Of all four parts together: the state of the part that takes steps is well typed, for
\* any values of the constants (Replenishment, DataWarmup, TrafficRunner, WorkerProcess).
THEOREM JobsTyped == MCSpec => []TypeOK
  <1>1 ReplenishmentHolds /\ WarmupHolds /\ RunnerHolds /\ ProcessHolds => TypeOK
    BY DEF ReplenishmentHolds, ReplenishmentInv, WarmupHolds, WarmupInv, RunnerHolds, RunnerInv, ProcessHolds, ProcessInv, TypeOK
  <1> QED
    BY <1>1, ReplenishmentInvariant, WarmupInvariant, RunnerInvariant, ProcessInvariant, PTL
=============================================================================
