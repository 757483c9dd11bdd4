---------------------------- MODULE FaultRunProofs ----------------------------
\* What holds of FaultRun for any set of runs and keys and any bounds. The types
\* come first; then StoreMove, the shape of every change of the store, from which
\* the tokens, the single active run and the lifecycle follow; then the invariants
\* of evidence, activation and ownership, one case per action that could break them.
EXTENDS FaultRun, FiniteSetTheorems, TLAPS

\* A transition of the store keeps it well typed.
LEMMA TransitionTypes ==
  ASSUME StoreTypeOK, NEW r \in Run, NEW S, NEW n \in States, NEW e \in Results,
         Transition(r, S, n, e)
  PROVE  StoreTypeOK'
  BY DEF Transition, StoreTypeOK

\* An insertion keeps the store well typed.
LEMMA InsertTypes ==
  ASSUME StoreTypeOK, NEW r \in Run, NEW k \in Key, NEW d \in Kinds, Insert(r, k, d)
  PROVE  StoreTypeOK'
  BY DEF Insert, StoreTypeOK, NextToken, States, ActiveStates, EndedStates

\* A create request that moves on or ends is well typed.
LEMMA CallTypes ==
  ASSUME call \in [Run -> Calls], NEW r \in Run,
         \/ \E pc \in {"existing", "insert", "start", "confirm", "arm", "compensate", "fail"} :
              Goto(r, pc)
         \/ CallDone(r)
  PROVE  call' \in [Run -> Calls]
  <1>1 ASSUME NEW pc \in {"existing", "insert", "start", "confirm", "arm", "compensate", "fail"},
              Goto(r, pc)
       PROVE  call' \in [Run -> Calls]
     BY <1>1 DEF Goto, Calls
  <1>2 ASSUME CallDone(r) PROVE call' \in [Run -> Calls]
     <2>1 [IdleCall(r) EXCEPT !.pc = "done"] \in Calls
       BY DEF IdleCall, Calls
     <2> QED
       BY <1>2, <2>1 DEF CallDone
  <1> QED
    BY <1>1, <1>2

\* A recovery that begins, moves on or ends is well typed.
LEMMA RecoverTypes ==
  ASSUME rec \in [Proc -> [Run -> Recovers]], NEW r \in Run, NEW p \in Proc, 
         \/ \E pc \in {"drain", "release", "finish", "fail"} : GotoRecovery(p, r, pc)
         \/ RecoveryDone(p, r)
         \/ \E reason \in Reasons : Recover(p, r, reason)
  PROVE  rec' \in [Proc -> [Run -> Recovers]]
  <1>1 ASSUME NEW pc \in {"drain", "release", "finish", "fail"}, GotoRecovery(p, r, pc)
       PROVE  rec' \in [Proc -> [Run -> Recovers]]
    <2>1 [rec[p][r] EXCEPT !.pc = pc] \in Recovers
      BY DEF Recovers
    <2>2 rec' = [rec EXCEPT ![p][r] = [rec[p][r] EXCEPT !.pc = pc]]
      BY <1>1 DEF GotoRecovery
    <2> QED
      BY <2>1, <2>2
  <1>2 ASSUME RecoveryDone(p, r) PROVE rec' \in [Proc -> [Run -> Recovers]]
    BY <1>2 DEF RecoveryDone, IdleRecovery, Recovers, Reasons
  <1>3 ASSUME NEW reason \in Reasons, Recover(p, r, reason)
       PROVE  rec' \in [Proc -> [Run -> Recovers]]
    <2>1 CASE StopProceeds(p, r)
      <3> DEFINE started == [pc |-> IF state[r] = "RECOVERING" THEN "drain" ELSE "mark",
                             reason |-> IF r \in expired THEN "EXPIRED" ELSE reason]
      <3>1 started \in Recovers
        BY DEF Recovers, Reasons
      <3>2 rec' = [rec EXCEPT ![p][r] = started]
        BY <1>3, <2>1 DEF Recover
      <3> HIDE DEF started
      <3> QED
        BY <3>1, <3>2
    <2>2 CASE ~StopProceeds(p, r)
      BY <1>3, <2>2 DEF Recover
    <2> QED
      BY <2>1, <2>2
  <1> QED
    BY <1>1, <1>2, <1>3

\* Timers that are armed or cleared are well typed.
LEMMA TimerTypes ==
  ASSUME timer \in [Proc -> SUBSET Run], NEW r \in Run, NEW p \in Proc, NEW seen,
         Cleared(p, r) \/ Scheduled(p, r, seen) 
  PROVE  timer' \in [Proc -> SUBSET Run]
  BY DEF Cleared, Scheduled

\* A release, confirmed or not, keeps the target well typed.
LEMMA ReleaseTypes ==
  ASSUME TargetTypeOK, NEW r \in Run, ReleaseConfirmed(r) \/ ReleaseFailed(r)
  PROVE  TargetTypeOK'
  BY DEF ReleaseConfirmed, ReleaseFailed, TargetReleases, TargetTypeOK

\* The beginning of a stop leaves recoveries and timers well typed.
LEMMA StopBeginsTypes ==
  ASSUME ProcessTypeOK, NEW r \in Run, NEW p \in Proc, NEW reason \in Reasons,
         StopBegins(p, r, reason)
  PROVE  rec' \in [Proc -> [Run -> Recovers]] /\ timer' \in [Proc -> SUBSET Run]
  BY RecoverTypes, TimerTypes DEF StopBegins, ProcessTypeOK
\* A purge keeps the store well typed.
LEMMA PurgeTypes ==
  ASSUME StoreTypeOK, NEW r \in Run, Purge(r)
  PROVE  StoreTypeOK'
  BY DEF Purge, StoreTypeOK

\* The count of faults stays within its bound.
LEMMA FaultTypes == faults \in 0..MaxFaults /\ Fault => faults' \in 0..MaxFaults
  BY FaultRunAssumption DEF Fault

\* What is left alone stays well typed.
LEMMA Unchanged ==
  /\ StoreTypeOK /\ UNCHANGED storeVars => StoreTypeOK'
  /\ ProcessTypeOK /\ UNCHANGED processVars => ProcessTypeOK'
  /\ TargetTypeOK /\ UNCHANGED targetVars => TargetTypeOK'
  BY DEF StoreTypeOK, storeVars, ProcessTypeOK, processVars, TargetTypeOK, targetVars

\* Every step keeps the state well typed.
LEMMA TypeStep == TypeOK /\ [Next]_vars => TypeOK'
  <1> SUFFICES ASSUME TypeOK, [Next]_vars PROVE TypeOK'
    OBVIOUS
  <1> USE Unchanged DEF TypeOK, ProcessTypeOK
  <1>1 ASSUME NEW r \in Run, NEW k \in Key, NEW d \in UsedKinds, CreateInserts(r, k, d)
       PROVE  TypeOK'
    BY <1>1, InsertTypes, CallTypes, FaultRunAssumption DEF CreateInserts
  <1>2 ASSUME NEW r \in Run, NEW s \in Run, CreateFindsRun(r, s) PROVE TypeOK'
    <2>1 state[s] \in States /\ call[r] \in Calls
      BY <1>2 DEF CreateFindsRun, HasRow
    <2>2 [call[r] EXCEPT !.pc = "existing", !.run = s, !.seen = state[s]] \in Calls
      BY <2>1 DEF Calls
    <2> QED
      BY <1>2, <2>2 DEF CreateFindsRun
  <1>3 ASSUME NEW r \in Run, CreateRefused(r) PROVE TypeOK'
    BY <1>3, CallTypes DEF CreateRefused
  <1>4 ASSUME NEW r \in Run, ExistingScheduled(r) PROVE TypeOK'
    <2>1 call[r].run \in Run
      BY DEF Calls
    <2> QED
      BY <1>4, <2>1, CallTypes, TimerTypes DEF ExistingScheduled, Proc
  <1>5 ASSUME NEW r \in Run, InsertReadbackFails(r) PROVE TypeOK'
    BY <1>5, CallTypes, FaultTypes DEF InsertReadbackFails
  <1>6 ASSUME NEW r \in Run, TargetStarts(r) PROVE TypeOK'
    BY <1>6, CallTypes DEF TargetStarts, TargetTypeOK
  <1>7 ASSUME NEW r \in Run, StartAnswered(r) PROVE TypeOK'
    BY <1>7, CallTypes DEF StartAnswered
  <1>8 ASSUME NEW r \in Run, StartTimesOut(r) PROVE TypeOK'
    BY <1>8, CallTypes DEF StartTimesOut
  <1>9 ASSUME NEW r \in Run, Confirm(r) PROVE TypeOK'
    BY <1>9, CallTypes, TransitionTypes DEF Confirm, States, ActiveStates, EndedStates, Results
  <1>10 ASSUME NEW r \in Run, ConfirmErrors(r) PROVE TypeOK'
    BY <1>10, CallTypes, TransitionTypes, FaultTypes
    DEF ConfirmErrors, States, ActiveStates, EndedStates, Results
  <1>11 ASSUME NEW r \in Run, Arm(r) PROVE TypeOK'
    BY <1>11, CallTypes, TimerTypes DEF Arm, Proc
  <1>12 ASSUME NEW r \in Run, Compensate(r) PROVE TypeOK'
    <2>1 CASE ReleaseFailed(r) /\ Goto(r, "fail")
      BY <1>12, <2>1, CallTypes, ReleaseTypes DEF Compensate
    <2>2 CASE /\ ReleaseConfirmed(r)
              /\ call' = [call EXCEPT ![r].pc = "fail", ![r].compensated = TRUE]
      <3>1 \A c \in Calls : [c EXCEPT !.pc = "fail", !.compensated = TRUE] \in Calls
        BY DEF Calls
      <3>2 call' = [call EXCEPT ![r] = [call[r] EXCEPT !.pc = "fail", !.compensated = TRUE]]
        BY <2>2
      <3>3 call' \in [Run -> Calls]
        BY <3>1, <3>2
      <3> QED
        BY <1>12, <2>2, <3>3, ReleaseTypes DEF Compensate
    <2> QED
      BY <1>12, <2>1, <2>2 DEF Compensate
  <1>13 ASSUME NEW r \in Run, RecordCreateFailure(r) PROVE TypeOK'
    BY <1>13, CallTypes, TransitionTypes
    DEF RecordCreateFailure, States, ActiveStates, EndedStates, Results
  <1>14 ASSUME NEW r \in Run, CompensationEventLost(r) PROVE TypeOK'
    BY <1>14, CallTypes, ReleaseTypes, FaultTypes DEF CompensationEventLost
  <1>15 ASSUME NEW r \in Run, CompensationErrors(r) PROVE TypeOK'
    BY <1>15, CallTypes, FaultTypes DEF CompensationErrors
  <1>16 ASSUME NEW r \in Run, ManualStop(r) PROVE TypeOK'
    BY <1>16, StopBeginsTypes DEF ManualStop, Proc, Reasons
  <1>17 ASSUME NEW r \in Run, ServiceRecovered(r) PROVE TypeOK'
    BY <1>17, TransitionTypes, TimerTypes
    DEF ServiceRecovered, States, ActiveStates, EndedStates, Results, TargetTypeOK, Proc
  <1>18 ASSUME NEW p \in Proc, NEW r \in Run, TimerFires(p, r) PROVE TypeOK'
    BY <1>18, TimerTypes, RecoverTypes DEF TimerFires, Reasons
  <1>19 ASSUME NEW p \in Proc, NEW r \in Run, MarkRecovering(p, r) PROVE TypeOK'
    BY <1>19, TransitionTypes, RecoverTypes
    DEF MarkRecovering, States, ActiveStates, EndedStates, Results
  <1>20 ASSUME NEW p \in Proc, NEW r \in Run, Drain(p, r) PROVE TypeOK'
    BY <1>20, RecoverTypes DEF Drain
  <1>21 ASSUME NEW p \in Proc, NEW r \in Run, Release(p, r) PROVE TypeOK'
    BY <1>21, RecoverTypes, ReleaseTypes DEF Release
  <1>22 ASSUME NEW p \in Proc, NEW r \in Run, RecordRecovery(p, r) PROVE TypeOK'
    BY <1>22, RecoverTypes, TransitionTypes
    DEF RecordRecovery, States, ActiveStates, EndedStates, Results
  <1>23 ASSUME NEW p \in Proc, NEW r \in Run, RecordRecoveryFailure(p, r) PROVE TypeOK'
    BY <1>23, RecoverTypes, TransitionTypes
    DEF RecordRecoveryFailure, States, ActiveStates, EndedStates, Results
  <1>24 ASSUME NEW p \in Proc, NEW r \in Run, RecoveryErrors(p, r) PROVE TypeOK'
    BY <1>24, RecoverTypes, FaultTypes DEF RecoveryErrors
  <1>25 ASSUME NEW r \in Run, PollExpired(r) PROVE TypeOK'
    BY <1>25, StopBeginsTypes DEF PollExpired, Proc, Reasons
  <1>26 ASSUME NEW r \in Run, BootCompensates(r) PROVE TypeOK'
    BY <1>26, ReleaseTypes, FaultTypes DEF BootCompensates, Boots, Booting
  <1>27 ASSUME NEW r \in Run, BootRecordsFailure(r) PROVE TypeOK'
    BY <1>27, TransitionTypes
    DEF BootRecordsFailure, States, ActiveStates, EndedStates, Results, Boots, Booting
  <1>28 ASSUME NEW r \in Run, ServiceUnavailable(r) PROVE TypeOK'
    BY <1>28, TransitionTypes, TimerTypes
    DEF ServiceUnavailable, States, ActiveStates, EndedStates, Results, Proc
  <1>29 ASSUME NEW r \in Run, RunRetention(r) PROVE TypeOK'
    BY <1>29, PurgeTypes DEF RunRetention
  <1>30 ASSUME NEW r \in Run, Expire(r) PROVE TypeOK'
    BY <1>30 DEF Expire
  <1>31 ASSUME NEW r \in Run, TargetPrepares(r) PROVE TypeOK'
    <2>1 prep' \in [Run -> {"none", "sent", "ok", "error"}]
      BY <1>31 DEF TargetPrepares, TargetTypeOK
    <2>2 fence' \in Nat /\ held' \subseteq Run
      BY <1>31 DEF TargetPrepares, TargetTypeOK, StoreTypeOK
    <2> QED
      BY <1>31, <2>1, <2>2 DEF TargetPrepares, TargetTypeOK
  <1>32 ASSUME NEW r \in Run, StrayRelease(r) PROVE TypeOK'
    BY <1>32 DEF StrayRelease, TargetTypeOK, TargetReleases
  <1>33 ASSUME NEW r \in Run, TargetCleansUp(r) PROVE TypeOK'
    BY <1>33 DEF TargetCleansUp, TargetTypeOK, TargetReleases
  <1>34 ASSUME NEW r \in Run, FenceLapses(r) PROVE TypeOK'
    BY <1>34 DEF FenceLapses, TargetTypeOK
  <1>35 ASSUME WorkerStarts PROVE TypeOK'
    <2>1 boot' \in Boots
      BY <1>35 DEF WorkerStarts, Booting, Boots, ActiveRuns
    <2>2 rec' \in [Proc -> [Run -> Recovers]] /\ timer' \in [Proc -> SUBSET Run]
      <3>1 CASE UNCHANGED <<timer, rec>>
        BY <3>1
      <3>2 ASSUME NEW r \in Run, StopBegins("worker", r, "EXPIRED")
           PROVE  rec' \in [Proc -> [Run -> Recovers]] /\ timer' \in [Proc -> SUBSET Run]
        BY <3>2, StopBeginsTypes DEF Proc, Reasons
      <3>3 ASSUME NEW r \in Run, Scheduled("worker", r, state[r]), UNCHANGED rec
           PROVE  rec' \in [Proc -> [Run -> Recovers]] /\ timer' \in [Proc -> SUBSET Run]
        BY <3>3, TimerTypes DEF Proc
      <3> QED
        BY <1>35, <3>1, <3>2, <3>3 DEF WorkerStarts, ActiveRuns
    <2> QED
      BY <1>35, <2>1, <2>2 DEF WorkerStarts
  <1>36 ASSUME WorkerReady PROVE TypeOK'
    BY <1>36 DEF WorkerReady, Boots, Booting
  <1>37 ASSUME TargetCrashes PROVE TypeOK'
    BY <1>37, FaultTypes DEF TargetCrashes, TargetTypeOK
  <1>38 ASSUME ApiCrashes PROVE TypeOK'
    <2>1 call' \in [Run -> Calls]
      <3>1 \A r \in Run : [IdleCall(r) EXCEPT !.pc = "done"] \in Calls
        BY DEF IdleCall, Calls
      <3> QED
        BY <1>38, <3>1 DEF ApiCrashes
    <2>2 rec' \in [Proc -> [Run -> Recovers]] /\ timer' \in [Proc -> SUBSET Run]
      BY <1>38 DEF ApiCrashes, IdleRecovery, Recovers, Reasons
    <2> QED
      BY <1>38, <2>1, <2>2, FaultTypes DEF ApiCrashes
  <1>39 ASSUME WorkerCrashes PROVE TypeOK'
    <2>1 rec' \in [Proc -> [Run -> Recovers]] /\ timer' \in [Proc -> SUBSET Run]
      BY <1>39 DEF WorkerCrashes, IdleRecovery, Recovers, Reasons
    <2> QED
      BY <1>39, <2>1, FaultTypes DEF WorkerCrashes, Booting, Boots
  <1>40 CASE UNCHANGED vars
    BY <1>40 DEF vars, processVars, targetVars
  <1> QED
    BY <1>1, <1>2, <1>3, <1>4, <1>5, <1>6, <1>7, <1>8, <1>9, <1>10, <1>11, <1>12, <1>13,
       <1>14, <1>15, <1>16, <1>17, <1>18, <1>19, <1>20, <1>21, <1>22, <1>23, <1>24, <1>25,
       <1>26, <1>27, <1>28, <1>29, <1>30, <1>31, <1>32, <1>33, <1>34, <1>35, <1>36, <1>37,
       <1>38, <1>39, <1>40
    DEF Next, ControlStep, Creating, Recovering, WorkerStep, Surroundings

\* Every state that FaultRun reaches is well typed: each column, process record and
\* target variable stays in its set whatever steps interleave.
THEOREM TypeCorrect == Spec => []TypeOK
  <1>1 Init => TypeOK
    BY FaultRunAssumption
    DEF Init, TypeOK, StoreInit, StoreTypeOK, ProcessTypeOK, TargetTypeOK, IdleCall, Calls,
        IdleRecovery, Recovers, Reasons, Booting, Boots, Kinds, Results
  <1> QED
    BY <1>1, TypeStep, PTL DEF Spec

-----------------------------------------------------------------------------
\* What a step may do to the store, and what follows from that alone

\* The four transactions of the repository, a transition being restricted to the
\* moves that the abstract lifecycle lists, and an insertion that of a new request.
StoreMove ==
  \/ UNCHANGED storeVars
  \/ \E r \in Run, k \in Key, d \in Kinds :
       Insert(r, k, d) /\ call[r].pc = "idle" /\ UNCHANGED prep
  \/ \E r \in Run, expected \in SUBSET States, next \in States, evidence \in Results :
       /\ \A from \in expected : <<from, next>> \in Abstract!Moves
       /\ Transition(r, expected, next, evidence)
  \/ \E r \in Run : Purge(r)

\* A transition between states that the lifecycle joins is a move of it.
LEMMA TransitionIsMove ==
  ASSUME NEW r \in Run, NEW expected \in SUBSET States, NEW next \in States,
         NEW evidence \in Results, Transition(r, expected, next, evidence),
         \A from \in expected : <<from, next>> \in Abstract!Moves
  PROVE  StoreMove
  BY DEF StoreMove

\* To the store every step is an insertion, a transition of the lifecycle, a purge or nothing.
LEMMA StoreStep == TypeOK /\ [Next]_vars => StoreMove
  <1> SUFFICES ASSUME TypeOK, [Next]_vars PROVE StoreMove
    OBVIOUS
  <1>1 ASSUME NEW r \in Run, NEW k \in Key, NEW d \in UsedKinds, CreateInserts(r, k, d)
       PROVE StoreMove
    BY <1>1, FaultRunAssumption DEF CreateInserts, StoreMove, targetVars
  <1> USE TransitionIsMove DEF States, ActiveStates, EndedStates, Results, Abstract!Moves
  <1>2 ASSUME NEW r \in Run, Confirm(r) \/ RecordCreateFailure(r) PROVE StoreMove
    BY <1>2 DEF Confirm, RecordCreateFailure
  <1>3 ASSUME NEW r \in Run, ConfirmErrors(r) PROVE StoreMove
    BY <1>3 DEF ConfirmErrors, StoreMove
  <1>4 ASSUME NEW r \in Run, NEW p \in Proc,
              MarkRecovering(p, r) \/ RecordRecovery(p, r) \/ RecordRecoveryFailure(p, r)
       PROVE  StoreMove
    BY <1>4 DEF MarkRecovering, RecordRecovery, RecordRecoveryFailure
  <1>5 ASSUME NEW r \in Run,
              BootRecordsFailure(r) \/ ServiceUnavailable(r) \/ ServiceRecovered(r)
       PROVE  StoreMove
    BY <1>5 DEF BootRecordsFailure, ServiceUnavailable, ServiceRecovered
  <1>6 ASSUME NEW r \in Run, RunRetention(r) PROVE StoreMove
    BY <1>6 DEF RunRetention, StoreMove
  <1>7 ASSUME NEW r \in Run,
              \/ \E s \in Run : CreateFindsRun(r, s)
              \/ CreateRefused(r) \/ ExistingScheduled(r) \/ InsertReadbackFails(r)
              \/ TargetStarts(r) \/ StartAnswered(r) \/ StartTimesOut(r) \/ Arm(r)
              \/ Compensate(r) \/ CompensationEventLost(r) \/ CompensationErrors(r)
              \/ ManualStop(r) \/ PollExpired(r) \/ BootCompensates(r)
              \/ Surroundings(r)
       PROVE  UNCHANGED storeVars
    BY <1>7
    DEF CreateFindsRun, CreateRefused, ExistingScheduled, InsertReadbackFails, TargetStarts,
        StartAnswered, StartTimesOut, Arm, Compensate, CompensationEventLost,
        CompensationErrors, ManualStop, PollExpired, BootCompensates, Surroundings, Expire,
        TargetPrepares, StrayRelease, TargetCleansUp, FenceLapses
  <1>8 ASSUME NEW r \in Run, NEW p \in Proc,
              TimerFires(p, r) \/ Drain(p, r) \/ Release(p, r) \/ RecoveryErrors(p, r)
       PROVE  UNCHANGED storeVars
    BY <1>8 DEF TimerFires, Drain, Release, RecoveryErrors
  <1>9 WorkerStarts \/ WorkerReady \/ TargetCrashes \/ ApiCrashes \/ WorkerCrashes
         \/ UNCHANGED vars => UNCHANGED storeVars
    BY DEF WorkerStarts, WorkerReady, TargetCrashes, ApiCrashes, WorkerCrashes, vars
  <1>10 UNCHANGED storeVars => StoreMove
    BY DEF StoreMove
  <1> QED
    BY <1>1, <1>2, <1>3, <1>4, <1>5, <1>6, <1>7, <1>8, <1>9, <1>10
    DEF Next, ControlStep, Creating, Recovering, WorkerStep

\* Tokens are handed out once, in order, and the active run has the last of them.
TokenInv ==
  /\ \A r \in Run : token[r] <= lastToken
  /\ \A r, s \in Run : r # s /\ token[r] = token[s] => token[r] = 0
  /\ \A r \in Run : IsActive(r) => token[r] = lastToken /\ lastToken > 0

\* No move of the lifecycle makes an ended run active again.
LEMMA MovesKeepActive ==
  ASSUME NEW from, NEW to \in ActiveStates, <<from, to>> \in Abstract!Moves
  PROVE  from \in ActiveStates
  BY DEF Abstract!Moves, Abstract!EndedStates, ActiveStates

\* What a step may do to the store keeps the tokens in order.
LEMMA TokenStep == StoreTypeOK /\ TokenInv /\ StoreMove => TokenInv'
  <1> SUFFICES ASSUME StoreTypeOK, TokenInv, StoreMove PROVE TokenInv'
    OBVIOUS
  <1>1 CASE UNCHANGED storeVars
    BY <1>1 DEF storeVars, TokenInv, IsActive
  <1>2 ASSUME NEW r \in Run, NEW k \in Key, NEW d \in Kinds, Insert(r, k, d)
       PROVE  TokenInv'
    BY <1>2 DEF Insert, StoreTypeOK, TokenInv, NextToken, ActiveRuns, IsActive
  <1>3 ASSUME NEW r \in Run, NEW expected \in SUBSET States, NEW next \in States,
              NEW evidence \in Results,
              \A from \in expected : <<from, next>> \in Abstract!Moves,
              Transition(r, expected, next, evidence)
       PROVE  TokenInv'
    <2>1 \A s \in Run : IsActive(s)' => IsActive(s)
      BY <1>3, MovesKeepActive DEF Transition, StoreTypeOK, IsActive
    <2> QED
      BY <1>3, <2>1 DEF Transition, TokenInv
  <1>4 ASSUME NEW r \in Run, Purge(r) PROVE TokenInv'
    BY <1>4 DEF Purge, StoreTypeOK, TokenInv, IsActive, ActiveStates
  <1> QED
    BY <1>1, <1>2, <1>3, <1>4 DEF StoreMove

\* Tokens never repeat, none lies above the sequence, and the active run has its
\* last value: deleting rows does not bring a token back.
THEOREM TokensOrdered == Spec => []TokenInv
  <1>1 Init => TokenInv
    BY DEF Init, StoreInit, TokenInv, IsActive, ActiveStates
  <1>2 TypeOK /\ TokenInv /\ [Next]_vars => TokenInv'
    BY StoreStep, TokenStep DEF TypeOK
  <1> QED
    BY <1>1, <1>2, TypeCorrect, PTL DEF Spec

\* At most one run is active, whatever creates, stops, polls and restarts interleave.
THEOREM OneRunAtATime == Spec => []SingleActive
  <1>1 TypeOK /\ TokenInv => SingleActive
    <2> SUFFICES ASSUME TypeOK, TokenInv, ActiveRuns # {} PROVE Cardinality(ActiveRuns) <= 1
      BY FS_EmptySet DEF SingleActive
    <2>1 PICK r \in Run : r \in ActiveRuns
      BY DEF ActiveRuns
    <2>2 ActiveRuns = {r}
      BY <2>1 DEF ActiveRuns, TokenInv, TypeOK, StoreTypeOK
    <2> QED
      BY <2>2, FS_Singleton
  <1> QED
    BY <1>1, TypeCorrect, TokensOrdered, PTL

\* The active run has the newest fencing token of all runs, those whose rows
\* retention deleted included.
THEOREM ActiveIsNewest == Spec => []NewestTokenActive
  <1>1 TypeOK /\ TokenInv => NewestTokenActive
    BY DEF TypeOK, StoreTypeOK, TokenInv, NewestTokenActive
  <1> QED
    BY <1>1, TypeCorrect, TokensOrdered, PTL

\* The processes together implement the lifecycle that the control plane promises.
THEOREM ImplementsLifecycle == Spec => Lifecycle
  <1>1 Init => Abstract!LifecycleInit
    BY DEF Init, StoreInit, Abstract!LifecycleInit
  <1>2 TypeOK /\ [Next]_vars => [Abstract!LifecycleNext]_(Abstract!lifecycleVars)
    <2> SUFFICES ASSUME StoreTypeOK, StoreMove
                 PROVE  [Abstract!LifecycleNext]_(Abstract!lifecycleVars)
      BY StoreStep DEF TypeOK
    <2>1 CASE UNCHANGED storeVars
      BY <2>1 DEF storeVars, Abstract!lifecycleVars
    <2>2 ASSUME NEW r \in Run, NEW k \in Key, NEW d \in Kinds, Insert(r, k, d)
         PROVE  Abstract!Admit(r)
      BY <2>2 DEF Insert, NextToken, ActiveRuns, IsActive, ActiveStates, Abstract!Admit,
                  Abstract!IsActive, Abstract!ActiveStates
    <2>3 ASSUME NEW r \in Run, NEW expected \in SUBSET States, NEW next \in States,
                NEW evidence \in Results,
                \A from \in expected : <<from, next>> \in Abstract!Moves,
                Transition(r, expected, next, evidence)
         PROVE  Abstract!Advance(r, next) \/ UNCHANGED Abstract!lifecycleVars
      BY <2>3 DEF Transition, Abstract!Advance, Abstract!lifecycleVars
    <2>4 ASSUME NEW r \in Run, Purge(r) PROVE Abstract!Advance(r, "PURGED")
      BY <2>4 DEF Purge, IsEnded, EndedStates, Abstract!Advance, Abstract!Moves,
                  Abstract!EndedStates
    <2>5 States \subseteq Abstract!States
      BY DEF States, ActiveStates, EndedStates, Abstract!States, Abstract!ActiveStates,
             Abstract!EndedStates
    <2> QED
      BY <2>1, <2>2, <2>3, <2>4, <2>5 DEF StoreMove, Abstract!LifecycleNext
  <1> QED
    BY <1>1, <1>2, TypeCorrect, PTL DEF Spec, Lifecycle, Abstract!LifecycleSpec

-----------------------------------------------------------------------------
\* Evidence: between the answer of a target and the write of recovery_result the
\* answer is remembered in a process record, and a confirmed release stays confirmed.
EvidenceInv ==
  /\ EvidenceHonest
  /\ \A p \in Proc, r \in Run : rec[p][r].pc = "finish" => released[r] = "confirmed"
  /\ \A r \in Run : call[r].compensated => released[r] = "confirmed"
  /\ \A r \in boot.runs : boot.pc = "fail" => released[r] = "confirmed"

\* Steps that release nothing and record nothing.
Inert ==
  /\ UNCHANGED <<result, released>>
  /\ \A p \in Proc, r \in Run : rec'[p][r].pc = "finish" => rec[p][r].pc = "finish"
  /\ \A r \in Run : call'[r].compensated => call[r].compensated
  /\ boot'.pc # "fail" \/ UNCHANGED boot

\* A step that records and claims no success keeps the evidence honest.
LEMMA InertKeepsEvidence == EvidenceInv /\ Inert => EvidenceInv'
  BY DEF EvidenceInv, EvidenceHonest, Inert

\* A create request that moves on claims no compensation that it did not have.
LEMMA CallIsInert ==
  ASSUME call \in [Run -> Calls], NEW r \in Run,
         \/ \E pc \in {"existing", "insert", "start", "confirm", "arm", "compensate", "fail"} :
              Goto(r, pc)
         \/ CallDone(r)
  PROVE  \A s \in Run : call'[s].compensated => call[s].compensated
  <1>1 CASE CallDone(r)
    BY <1>1 DEF CallDone, IdleCall
  <1>2 ASSUME NEW pc, Goto(r, pc)
       PROVE  \A s \in Run : call'[s].compensated => call[s].compensated
    BY <1>2 DEF Goto, Calls
  <1> QED
    BY <1>1, <1>2

\* A recovery that moves on without a confirmed release is not about to record one.
LEMMA RecoveryIsInert ==
  ASSUME rec \in [Proc -> [Run -> Recovers]], NEW r \in Run, NEW p \in Proc,
         \/ \E pc \in {"drain", "release", "fail"} : GotoRecovery(p, r, pc)
         \/ RecoveryDone(p, r)
         \/ \E reason \in Reasons : Recover(p, r, reason)
  PROVE  \A q \in Proc, s \in Run : rec'[q][s].pc = "finish" => rec[q][s].pc = "finish"
  <1>1 ASSUME NEW pc \in {"drain", "release", "fail"}, GotoRecovery(p, r, pc)
       PROVE  \A q \in Proc, s \in Run : rec'[q][s].pc = "finish" => rec[q][s].pc = "finish"
    <2>1 [rec[p][r] EXCEPT !.pc = pc].pc = pc
      BY DEF Recovers
    <2>2 rec' = [rec EXCEPT ![p][r] = [rec[p][r] EXCEPT !.pc = pc]]
      BY <1>1 DEF GotoRecovery
    <2> QED
      BY <2>1, <2>2
  <1>2 CASE RecoveryDone(p, r)
    BY <1>2 DEF RecoveryDone, IdleRecovery
  <1>3 ASSUME NEW reason \in Reasons, Recover(p, r, reason)
       PROVE  \A q \in Proc, s \in Run : rec'[q][s].pc = "finish" => rec[q][s].pc = "finish"
    BY <1>3 DEF Recover
  <1> QED
    BY <1>1, <1>2, <1>3

\* What a transition writes as evidence must be covered by a confirmed release.
LEMMA TransitionEvidence ==
  ASSUME StoreTypeOK, EvidenceHonest, NEW r \in Run, NEW S, NEW n, NEW e \in Results,
         Transition(r, S, n, e), UNCHANGED released,
         e \in {"stopped", "compensated"} => released[r] = "confirmed"
  PROVE  EvidenceHonest'
  BY DEF Transition, StoreTypeOK, EvidenceHonest, Results

\* A confirmed release stays confirmed.
LEMMA ReleaseMonotone ==
  ASSUME TargetTypeOK, NEW r \in Run, ReleaseConfirmed(r) \/ ReleaseFailed(r)
  PROVE  /\ \A s \in Run : released[s] = "confirmed" => released'[s] = "confirmed"
         /\ ReleaseConfirmed(r) => released'[r] = "confirmed"
  BY DEF ReleaseConfirmed, ReleaseFailed, TargetTypeOK

\* Every step keeps the evidence honest.
LEMMA EvidenceStep == TypeOK /\ EvidenceInv /\ [Next]_vars => EvidenceInv'
  <1> SUFFICES ASSUME TypeOK, EvidenceInv, [Next]_vars PROVE EvidenceInv'
    OBVIOUS
  <1> USE DEF TypeOK, ProcessTypeOK
  <1>1 ASSUME NEW r \in Run,
              \/ \E k \in Key, d \in UsedKinds : CreateInserts(r, k, d)
              \/ CreateRefused(r) \/ ExistingScheduled(r) \/ InsertReadbackFails(r)
              \/ StartAnswered(r) \/ StartTimesOut(r) \/ Arm(r) \/ CompensationErrors(r)
       PROVE  Inert
    BY <1>1, CallIsInert
    DEF Inert, CreateInserts, Insert, CreateRefused, ExistingScheduled, InsertReadbackFails,
        StartAnswered, StartTimesOut, Arm, CompensationErrors, storeVars, targetVars
  <1>2 ASSUME NEW r \in Run, TargetStarts(r) PROVE Inert
    BY <1>2, CallIsInert DEF Inert, TargetStarts, storeVars
  <1>3 ASSUME NEW r \in Run, NEW s \in Run, CreateFindsRun(r, s) PROVE Inert
    <2>1 [call[r] EXCEPT !.pc = "existing", !.run = s, !.seen = state[s]].compensated
           = call[r].compensated
      BY DEF Calls
    <2> QED
      BY <1>3, <2>1 DEF Inert, CreateFindsRun, storeVars, targetVars
  <1>4 ASSUME NEW r \in Run, Confirm(r) \/ ConfirmErrors(r) PROVE Inert
    BY <1>4, CallIsInert DEF Inert, Confirm, ConfirmErrors, Transition, storeVars, targetVars
  <1>5 ASSUME NEW r \in Run, NEW p \in Proc,
              TimerFires(p, r) \/ MarkRecovering(p, r) \/ Drain(p, r) \/ RecoveryErrors(p, r)
       PROVE  Inert
    BY <1>5, RecoveryIsInert
    DEF Inert, TimerFires, MarkRecovering, Transition, Drain, RecoveryErrors, Reasons, storeVars,
        targetVars
  <1>6 ASSUME NEW r \in Run, ManualStop(r) \/ PollExpired(r) PROVE Inert
    BY <1>6, RecoveryIsInert
    DEF Inert, ManualStop, PollExpired, StopBegins, Reasons, Proc, storeVars, targetVars
  <1>7 ASSUME NEW r \in Run, ServiceUnavailable(r) \/ RunRetention(r) \/ Surroundings(r)
       PROVE  Inert
    BY <1>7
    DEF Inert, ServiceUnavailable, Transition, RunRetention, Purge, Surroundings, Expire,
        TargetPrepares, StrayRelease, TargetCleansUp, FenceLapses, storeVars, processVars,
        targetVars
  <1>8 WorkerStarts => Inert
    BY RecoveryIsInert
    DEF Inert, WorkerStarts, StopBegins, Booting, Reasons, Proc, ActiveRuns, storeVars, targetVars
  <1>9 WorkerReady \/ TargetCrashes \/ WorkerCrashes => Inert
    BY DEF Inert, WorkerReady, TargetCrashes, WorkerCrashes, Booting, IdleRecovery, storeVars,
           processVars, targetVars
  <1>10 ApiCrashes => Inert
    BY DEF Inert, ApiCrashes, IdleCall, IdleRecovery, storeVars, targetVars
  <1>11 UNCHANGED vars => Inert
    BY DEF Inert, vars, storeVars, processVars, targetVars
  <1>12 ASSUME NEW r \in Run, Compensate(r) \/ CompensationEventLost(r) PROVE EvidenceInv'
    <2>1 \A s \in Run : released[s] = "confirmed" => released'[s] = "confirmed"
      BY <1>12, ReleaseMonotone DEF Compensate, CompensationEventLost
    <2>2 \A s \in Run : call'[s].compensated => released'[s] = "confirmed"
      <3>1 CASE Goto(r, "fail")
        BY <2>1, <3>1, CallIsInert DEF EvidenceInv
      <3>2 CASE /\ ReleaseConfirmed(r)
                /\ call' = [call EXCEPT ![r].pc = "fail", ![r].compensated = TRUE]
        <4>1 released'[r] = "confirmed"
          BY <3>2, ReleaseMonotone
        <4> QED
          BY <2>1, <3>2, <4>1 DEF EvidenceInv
      <3> QED
        BY <1>12, <3>1, <3>2 DEF Compensate, CompensationEventLost
    <2>3 UNCHANGED <<result, rec, boot>>
      BY <1>12 DEF Compensate, CompensationEventLost, storeVars
    <2>4 boot.runs \subseteq Run
      BY DEF Boots
    <2> QED
      BY <2>1, <2>2, <2>3, <2>4 DEF EvidenceInv, EvidenceHonest
  <1>13 ASSUME NEW r \in Run, RecordCreateFailure(r) PROVE EvidenceInv'
    <2>1 EvidenceHonest'
      BY <1>13, TransitionEvidence DEF RecordCreateFailure, EvidenceInv, Results, targetVars
    <2> QED
      BY <1>13, <2>1, CallIsInert DEF RecordCreateFailure, EvidenceInv, targetVars
  <1>14 ASSUME NEW r \in Run, NEW p \in Proc, Release(p, r) PROVE EvidenceInv'
    <2>1 \A s \in Run : released[s] = "confirmed" => released'[s] = "confirmed"
      BY <1>14, ReleaseMonotone DEF Release
    <2>2 \A q \in Proc, s \in Run : rec'[q][s].pc = "finish" => released'[s] = "confirmed"
      <3>1 CASE GotoRecovery(p, r, "fail")
        BY <2>1, <3>1, RecoveryIsInert DEF EvidenceInv
      <3>2 CASE ReleaseConfirmed(r) /\ GotoRecovery(p, r, "finish")
        <4>1 released'[r] = "confirmed"
          BY <3>2, ReleaseMonotone
        <4>2 \A q \in Proc, s \in Run : <<q, s>> # <<p, r>> => rec'[q][s] = rec[q][s]
          BY <3>2 DEF GotoRecovery
        <4> QED
          BY <2>1, <4>1, <4>2 DEF EvidenceInv
      <3> QED
        BY <1>14, <3>1, <3>2 DEF Release
    <2>3 UNCHANGED <<result, call, boot>>
      BY <1>14 DEF Release, storeVars
    <2>4 boot.runs \subseteq Run
      BY DEF Boots
    <2> QED
      BY <2>1, <2>2, <2>3, <2>4 DEF EvidenceInv, EvidenceHonest
  <1>15 ASSUME NEW r \in Run, NEW p \in Proc,
               RecordRecovery(p, r) \/ RecordRecoveryFailure(p, r)
        PROVE  EvidenceInv'
    <2>1 EvidenceHonest'
      BY <1>15, TransitionEvidence
      DEF RecordRecovery, RecordRecoveryFailure, EvidenceInv, Results, targetVars
    <2> QED
      BY <1>15, <2>1, RecoveryIsInert
      DEF RecordRecovery, RecordRecoveryFailure, EvidenceInv, targetVars
  <1>16 ASSUME NEW r \in Run, BootCompensates(r) PROVE EvidenceInv'
    <2>1 \A s \in Run : released[s] = "confirmed" => released'[s] = "confirmed"
      BY <1>16, ReleaseMonotone DEF BootCompensates
    <2>2 \A s \in boot'.runs : boot'.pc = "fail" => released'[s] = "confirmed"
      BY <1>16, ReleaseMonotone DEF BootCompensates, Booting
    <2> QED
      BY <1>16, <2>1, <2>2 DEF EvidenceInv, EvidenceHonest, BootCompensates, storeVars
  <1>17 ASSUME NEW r \in Run, BootRecordsFailure(r) PROVE EvidenceInv'
    <2>1 EvidenceHonest'
      BY <1>17, TransitionEvidence DEF BootRecordsFailure, EvidenceInv, Results, targetVars
    <2> QED
      BY <1>17, <2>1 DEF BootRecordsFailure, EvidenceInv, Booting, targetVars
  <1>18 ASSUME NEW r \in Run, ServiceRecovered(r) PROVE EvidenceInv'
    <2>1 EvidenceHonest'
      BY <1>18, TransitionEvidence DEF ServiceRecovered, EvidenceInv, Results
    <2> QED
      BY <1>18, <2>1 DEF ServiceRecovered, EvidenceInv
  <1> QED
    BY <1>1, <1>2, <1>3, <1>4, <1>5, <1>6, <1>7, <1>8, <1>9, <1>10, <1>11, <1>12, <1>13,
       <1>14, <1>15, <1>16, <1>17, <1>18, InertKeepsEvidence
    DEF Next, ControlStep, Creating, Recovering, WorkerStep

\* No recovery_result claims a stop or a compensation that the target did not
\* confirm, whatever timeouts, crashes and retries come between.
THEOREM EvidenceIsHonest == Spec => []EvidenceHonest
  <1>1 Init => EvidenceInv
    BY DEF Init, StoreInit, EvidenceInv, EvidenceHonest, IdleCall, IdleRecovery, Booting
  <1>2 EvidenceInv => EvidenceHonest
    BY DEF EvidenceInv
  <1> QED
    BY <1>1, <1>2, EvidenceStep, TypeCorrect, PTL DEF Spec

-----------------------------------------------------------------------------
\* Preparation: the acceptance of the target precedes the state ACTIVE.
PreparedInv ==
  /\ ActiveWasPrepared
  /\ \A r \in Run : call[r].pc \in {"idle", "existing", "insert"}
                      => state[r] # "ACTIVE" /\ prep[r] = "none"
  /\ \A r \in Run : call[r].pc = "confirm" => kind[r] = "SURGE" \/ prep[r] = "ok"

\* Steps that neither activate a run nor touch a prepare request.
NotPreparing ==
  /\ \A r \in Run : state'[r] = "ACTIVE" => state[r] = "ACTIVE"
  /\ UNCHANGED <<kind, prep>>
  /\ \A r \in Run : \/ call'[r].pc \notin {"idle", "existing", "insert", "confirm"}
                    \/ call'[r].pc = call[r].pc
                    \/ call[r].pc = "idle" /\ call'[r].pc = "existing"

\* A step that activates and confirms nothing keeps active runs prepared.
LEMMA NotPreparingKeeps == PreparedInv /\ NotPreparing => PreparedInv'
  BY DEF PreparedInv, NotPreparing, ActiveWasPrepared

\* After Goto and CallDone exactly the step of one call has changed.
LEMMA CallSteps ==
  ASSUME call \in [Run -> Calls], NEW r \in Run
  PROVE  /\ CallDone(r) => /\ call'[r].pc = "done"
                           /\ \A s \in Run \ {r} : call'[s] = call[s]
         /\ \A pc : Goto(r, pc) => /\ call'[r].pc = pc
                                   /\ \A s \in Run \ {r} : call'[s] = call[s]
  BY DEF CallDone, Goto, IdleCall, Calls

\* A transition to any other state than ACTIVE activates no run.
LEMMA NoActivation ==
  ASSUME StoreTypeOK, NEW r \in Run, NEW S, NEW n, NEW e, n # "ACTIVE", Transition(r, S, n, e)
  PROVE  /\ \A s \in Run : state'[s] = "ACTIVE" => state[s] = "ACTIVE"
         /\ UNCHANGED kind
  BY DEF StoreTypeOK, Transition

\* Every step keeps active runs prepared.
LEMMA PreparedStep == TypeOK /\ PreparedInv /\ [Next]_vars => PreparedInv'
  <1> SUFFICES ASSUME TypeOK, PreparedInv, [Next]_vars PROVE PreparedInv'
    OBVIOUS
  <1> USE DEF TypeOK, ProcessTypeOK
  <1>1 ASSUME NEW r \in Run, NEW k \in Key, NEW d \in UsedKinds, CreateInserts(r, k, d)
       PROVE  PreparedInv'
    BY <1>1, CallSteps
    DEF CreateInserts, Insert, PreparedInv, ActiveWasPrepared, StoreTypeOK, targetVars
  <1>2 ASSUME NEW r \in Run, NEW s \in Run, CreateFindsRun(r, s) PROVE NotPreparing
    <2>1 [call[r] EXCEPT !.pc = "existing", !.run = s, !.seen = state[s]].pc = "existing"
      BY DEF Calls
    <2> QED
      BY <1>2, <2>1 DEF NotPreparing, CreateFindsRun, storeVars, targetVars
  <1>3 ASSUME NEW r \in Run,
              \/ CreateRefused(r) \/ ExistingScheduled(r) \/ InsertReadbackFails(r)
              \/ StartTimesOut(r) \/ Arm(r) \/ CompensationErrors(r)
       PROVE  NotPreparing
    BY <1>3, CallSteps
    DEF NotPreparing, CreateRefused, ExistingScheduled, InsertReadbackFails, StartTimesOut, Arm,
        CompensationErrors, storeVars, targetVars
  <1>4 ASSUME NEW r \in Run, TargetStarts(r) PROVE PreparedInv'
    <2>1 \A s \in Run \ {r} : call'[s] = call[s]
      BY <1>4, CallSteps DEF TargetStarts
    <2>2 state[r] # "ACTIVE" /\ call'[r].pc \in {"confirm", "start"}
      BY <1>4, CallSteps DEF TargetStarts, PreparedInv
    <2>3 call'[r].pc = "confirm" => kind[r] = "SURGE"
      BY <1>4, CallSteps DEF TargetStarts
    <2>4 \A s \in Run \ {r} : prep'[s] = prep[s]
      BY <1>4 DEF TargetStarts, TargetTypeOK
    <2>5 UNCHANGED <<state, kind>>
      BY <1>4 DEF TargetStarts, storeVars
    <2> QED
      BY <2>1, <2>2, <2>3, <2>4, <2>5 DEF PreparedInv, ActiveWasPrepared
  <1>5 ASSUME NEW r \in Run, StartAnswered(r) PROVE PreparedInv'
    BY <1>5, CallSteps DEF StartAnswered, PreparedInv, ActiveWasPrepared, storeVars, targetVars
  <1>6 ASSUME NEW r \in Run, Confirm(r) \/ ConfirmErrors(r) PROVE PreparedInv'
    BY <1>6, CallSteps
    DEF Confirm, ConfirmErrors, Transition, PreparedInv, ActiveWasPrepared, StoreTypeOK,
        storeVars, targetVars
  <1>7 ASSUME NEW r \in Run, Compensate(r) \/ CompensationEventLost(r) PROVE NotPreparing
    <2>1 call'[r].pc = "fail" /\ \A s \in Run \ {r} : call'[s] = call[s]
      BY <1>7, CallSteps DEF Compensate, CompensationEventLost, Calls
    <2> QED
      BY <1>7, <2>1
      DEF NotPreparing, Compensate, CompensationEventLost, ReleaseConfirmed, ReleaseFailed,
          storeVars
  <1>8 ASSUME NEW r \in Run, RecordCreateFailure(r) PROVE NotPreparing
    BY <1>8, CallSteps, NoActivation DEF NotPreparing, RecordCreateFailure, targetVars
  <1>9 ASSUME NEW r \in Run, NEW p \in Proc,
              MarkRecovering(p, r) \/ RecordRecovery(p, r) \/ RecordRecoveryFailure(p, r)
       PROVE  NotPreparing
    BY <1>9, NoActivation
    DEF NotPreparing, MarkRecovering, RecordRecovery, RecordRecoveryFailure, targetVars
  <1>10 ASSUME NEW r \in Run,
               BootRecordsFailure(r) \/ ServiceUnavailable(r) \/ ServiceRecovered(r)
        PROVE  NotPreparing
    BY <1>10, NoActivation
    DEF NotPreparing, BootRecordsFailure, ServiceUnavailable, ServiceRecovered, targetVars
  <1>11 ASSUME NEW r \in Run, NEW p \in Proc,
               TimerFires(p, r) \/ Drain(p, r) \/ Release(p, r) \/ RecoveryErrors(p, r)
        PROVE  NotPreparing
    BY <1>11
    DEF NotPreparing, TimerFires, Drain, Release, ReleaseConfirmed, ReleaseFailed,
        RecoveryErrors, storeVars, targetVars
  <1>12 ASSUME NEW r \in Run,
               ManualStop(r) \/ PollExpired(r) \/ BootCompensates(r) \/ RunRetention(r)
        PROVE  NotPreparing
    BY <1>12
    DEF NotPreparing, ManualStop, PollExpired, BootCompensates, ReleaseConfirmed, ReleaseFailed,
        RunRetention, Purge, StoreTypeOK, storeVars, processVars, targetVars
  <1>13 ASSUME NEW r \in Run,
               Expire(r) \/ StrayRelease(r) \/ TargetCleansUp(r) \/ FenceLapses(r)
        PROVE  NotPreparing
    BY <1>13
    DEF NotPreparing, Expire, StrayRelease, TargetCleansUp, FenceLapses, storeVars, processVars,
        targetVars
  <1>14 ASSUME NEW r \in Run, TargetPrepares(r) PROVE PreparedInv'
    BY <1>14
    DEF TargetPrepares, PreparedInv, ActiveWasPrepared, TargetTypeOK, storeVars, processVars
  <1>15 WorkerStarts \/ WorkerReady \/ TargetCrashes \/ WorkerCrashes \/ UNCHANGED vars
          => NotPreparing
    BY
    DEF NotPreparing, WorkerStarts, WorkerReady, TargetCrashes, WorkerCrashes, vars, storeVars,
           processVars, targetVars
  <1>16 ApiCrashes => NotPreparing
    BY DEF NotPreparing, ApiCrashes, IdleCall, storeVars, targetVars
  <1> QED
    BY <1>1, <1>2, <1>3, <1>4, <1>5, <1>6, <1>7, <1>8, <1>9, <1>10, <1>11, <1>12, <1>13,
       <1>14, <1>15, <1>16, NotPreparingKeeps
    DEF Next, ControlStep, Creating, Recovering, WorkerStep, Surroundings

\* A run is ACTIVE only after its target accepted the prepare request.
THEOREM ActiveIsPrepared == Spec => []ActiveWasPrepared
  <1>1 Init => PreparedInv
    BY DEF Init, StoreInit, PreparedInv, ActiveWasPrepared, IdleCall
  <1>2 PreparedInv => ActiveWasPrepared
    BY DEF PreparedInv
  <1> QED
    BY <1>1, <1>2, PreparedStep, TypeCorrect, PTL DEF Spec

-----------------------------------------------------------------------------
\* Ownership: from the answer to its prepare request until it expires or is first
\* released, the active run keeps the fence at its token, which no older token passes.
Owning(r) == IsActive(r) /\ prep[r] = "ok" /\ r \notin expired /\ released[r] = "none"

OwnershipInv ==
  /\ \A r \in Run : Owning(r) => fence = token[r] /\ held \subseteq {r}
  /\ \A r \in stray : released[r] # "none"

\* A step activates no prepared run that was not active before.
LEMMA PreparedRunsAge ==
  ASSUME StoreTypeOK, PreparedInv, StoreMove, NEW r \in Run, IsActive(r)', prep'[r] = "ok"
  PROVE  IsActive(r) /\ token'[r] = token[r]
  <1>1 CASE UNCHANGED storeVars
    BY <1>1 DEF storeVars, IsActive
  <1>2 ASSUME NEW s \in Run, NEW k \in Key, NEW d \in Kinds, Insert(s, k, d),
              call[s].pc = "idle", UNCHANGED prep
       PROVE  IsActive(r) /\ token'[r] = token[r]
    BY <1>2 DEF Insert, StoreTypeOK, PreparedInv, ActiveRuns, IsActive
  <1>3 ASSUME NEW s \in Run, NEW expected \in SUBSET States, NEW next \in States,
              NEW evidence \in Results,
              \A from \in expected : <<from, next>> \in Abstract!Moves,
              Transition(s, expected, next, evidence)
       PROVE  IsActive(r) /\ token'[r] = token[r]
    BY <1>3, MovesKeepActive DEF Transition, StoreTypeOK, IsActive
  <1>4 ASSUME NEW s \in Run, Purge(s) PROVE IsActive(r) /\ token'[r] = token[r]
    BY <1>4 DEF Purge, StoreTypeOK, IsActive, ActiveStates
  <1> QED
    BY <1>1, <1>2, <1>3, <1>4 DEF StoreMove

\* The tokens of two runs differ once one of them is active.
LEMMA OtherTokensLower ==
  ASSUME StoreTypeOK, TokenInv, NEW r \in Run, NEW s \in Run, r # s, IsActive(r)
  PROVE  token[s] < token[r] /\ token[r] > 0
  BY DEF StoreTypeOK, TokenInv

\* Steps that leave fence and effects alone and make no run owning.
Unowned ==
  /\ UNCHANGED <<fence, held, stray, released>>
  /\ \A r \in Run : Owning(r)' => Owning(r) /\ token'[r] = token[r]

\* A step that gives nobody a claim to the target and takes nothing from it keeps its owner.
LEMMA UnownedKeeps == OwnershipInv /\ Unowned => OwnershipInv'
  BY DEF OwnershipInv, Unowned

\* Steps of the store that leave the target alone are of that kind.
LEMMA UnownedSteps ==
  ASSUME StoreTypeOK, PreparedInv, StoreMove, expired \subseteq expired',
         UNCHANGED <<fence, held, stray, released>>,
         \A r \in Run : prep'[r] = "ok" => prep[r] = "ok"
  PROVE  Unowned
  BY PreparedRunsAge DEF Unowned, Owning

\* A release of r, or what undoes it, disturbs no other owner.
LEMMA ReleaseSparesOthers ==
  ASSUME StoreTypeOK, TokenInv, OwnershipInv, NEW r \in Run, NEW s \in Run, r # s, Owning(s),
         TargetReleases(r) \/ UNCHANGED <<held, fence>>
  PROVE  fence' = token[s] /\ held' \subseteq {s}
  BY DEF OwnershipInv, TargetReleases

\* Every step leaves the target to its owner.
LEMMA OwnershipStep ==
  TypeOK /\ TokenInv /\ PreparedInv /\ OwnershipInv /\ [Next]_vars => OwnershipInv'
  <1> SUFFICES ASSUME TypeOK, TokenInv, PreparedInv, OwnershipInv, [Next]_vars
               PROVE  OwnershipInv'
    OBVIOUS
  <1>0 StoreMove
    BY StoreStep
  <1> USE DEF TypeOK
  <1>1 ASSUME NEW r \in Run,
              \/ \E k \in Key, d \in UsedKinds : CreateInserts(r, k, d)
              \/ \E s \in Run : CreateFindsRun(r, s)
              \/ CreateRefused(r) \/ ExistingScheduled(r) \/ InsertReadbackFails(r)
              \/ StartAnswered(r) \/ StartTimesOut(r) \/ Confirm(r)
              \/ ConfirmErrors(r) \/ Arm(r) \/ RecordCreateFailure(r) \/ CompensationErrors(r)
              \/ ManualStop(r) \/ PollExpired(r) \/ BootRecordsFailure(r)
              \/ ServiceUnavailable(r) \/ RunRetention(r) \/ Expire(r)
       PROVE  Unowned
    BY <1>0, <1>1, UnownedSteps
    DEF CreateInserts, CreateFindsRun, CreateRefused, ExistingScheduled, InsertReadbackFails,
        StartAnswered, StartTimesOut, Confirm, ConfirmErrors, Arm, RecordCreateFailure,
        CompensationErrors, ManualStop, PollExpired, BootRecordsFailure, ServiceUnavailable,
        RunRetention, Expire, targetVars
  <1>2 ASSUME NEW r \in Run, TargetStarts(r) PROVE Unowned
    BY <1>0, <1>2, UnownedSteps DEF TargetStarts, TargetTypeOK
  <1>3 ASSUME NEW r \in Run, NEW p \in Proc,
              \/ TimerFires(p, r) \/ MarkRecovering(p, r) \/ Drain(p, r)
              \/ RecordRecovery(p, r) \/ RecordRecoveryFailure(p, r) \/ RecoveryErrors(p, r)
       PROVE  Unowned
    BY <1>0, <1>3, UnownedSteps
    DEF TimerFires, MarkRecovering, Drain, RecordRecovery, RecordRecoveryFailure, RecoveryErrors,
        targetVars
  <1>4 WorkerStarts \/ WorkerReady \/ ApiCrashes \/ WorkerCrashes \/ UNCHANGED vars => Unowned
    BY <1>0, UnownedSteps
    DEF WorkerStarts, WorkerReady, ApiCrashes, WorkerCrashes, vars, targetVars
  <1>5 ASSUME NEW r \in Run, ReleaseConfirmed(r) \/ ReleaseFailed(r),
              UNCHANGED <<storeVars, expired>>
       PROVE  OwnershipInv'
    <2>1 released'[r] # "none" /\ \A s \in Run : released[s] # "none" => released'[s] # "none"
      BY <1>5 DEF ReleaseConfirmed, ReleaseFailed, TargetTypeOK
    <2>2 TargetReleases(r) \/ UNCHANGED <<held, fence>>
      BY <1>5 DEF ReleaseConfirmed, ReleaseFailed
    <2>3 \A s \in Run : Owning(s)' => Owning(s) /\ s # r /\ token'[s] = token[s]
      BY <1>5, <2>1 DEF Owning, IsActive, storeVars, ReleaseConfirmed, ReleaseFailed
    <2>4 stray' \subseteq stray \cup {r}
      BY <1>5 DEF ReleaseConfirmed, ReleaseFailed
    <2>5 \A s \in stray' : released'[s] # "none"
      BY <2>1, <2>4 DEF OwnershipInv, TargetTypeOK
    <2> QED
      BY <2>2, <2>3, <2>5, ReleaseSparesOthers DEF OwnershipInv
  <1>6 ASSUME NEW r \in Run, Compensate(r) \/ CompensationEventLost(r) \/ BootCompensates(r)
       PROVE  OwnershipInv'
    BY <1>5, <1>6 DEF Compensate, CompensationEventLost, BootCompensates
  <1>7 ASSUME NEW r \in Run, NEW p \in Proc, Release(p, r) PROVE OwnershipInv'
    BY <1>5, <1>7 DEF Release
  <1>8 ASSUME NEW r \in Run, StrayRelease(r) \/ TargetCleansUp(r) PROVE OwnershipInv'
    <2>1 /\ TargetReleases(r)
         /\ stray' \subseteq stray
         /\ UNCHANGED <<storeVars, expired, prep, released>>
      BY <1>8 DEF StrayRelease, TargetCleansUp
    <2>2 ~Owning(r)
      BY <1>8 DEF StrayRelease, TargetCleansUp, Owning, OwnershipInv
    <2>3 \A s \in Run : Owning(s)' => Owning(s) /\ s # r /\ token'[s] = token[s]
      BY <2>1, <2>2 DEF Owning, IsActive, storeVars
    <2> QED
      BY <2>1, <2>3, ReleaseSparesOthers DEF OwnershipInv
  <1>9 ASSUME NEW r \in Run, FenceLapses(r) PROVE OwnershipInv'
    <2>1 \A s \in Run : ~Owning(s)
      BY <1>9, OtherTokensLower DEF FenceLapses, Owning, OwnershipInv, StoreTypeOK
    <2> QED
      BY <1>9, <2>1 DEF FenceLapses, Owning, IsActive, OwnershipInv, storeVars
  <1>10 ASSUME NEW r \in Run, TargetPrepares(r) PROVE OwnershipInv'
    <2>1 UNCHANGED <<state, token, expired, stray, released>>
      BY <1>10 DEF TargetPrepares, storeVars
    <2>2 CASE r \in expired \/ fence > token[r]
      <3>1 \A s \in Run : Owning(s)' => Owning(s)
        BY <1>10, <2>1, <2>2 DEF TargetPrepares, Owning, IsActive, TargetTypeOK
      <3> QED
        BY <1>10, <2>1, <2>2, <3>1 DEF TargetPrepares, OwnershipInv
    <2>3 CASE ~(r \in expired \/ fence > token[r])
      <3>1 \A s \in Run : s # r => ~Owning(s)
        BY <2>3, OtherTokensLower DEF Owning, OwnershipInv, StoreTypeOK
      <3>2 \A s \in Run : Owning(s)' => s = r
        BY <1>10, <2>1, <3>1 DEF TargetPrepares, Owning, IsActive, TargetTypeOK
      <3>3 fence' = token'[r] /\ (prep'[r] = "ok" => held' \subseteq {r})
        BY <1>10, <2>1, <2>3 DEF TargetPrepares, TargetTypeOK
      <3> QED
        BY <2>1, <3>2, <3>3 DEF OwnershipInv, Owning
    <2> QED
      BY <2>2, <2>3
  <1>11 ASSUME NEW r \in Run, ServiceRecovered(r) PROVE OwnershipInv'
    <2>1 \A s \in Run : Owning(s)' => Owning(s) /\ token'[s] = token[s]
      BY <1>0, <1>11, PreparedRunsAge DEF ServiceRecovered, Owning
    <2> QED
      BY <1>11, <2>1 DEF ServiceRecovered, OwnershipInv
  <1>12 CASE TargetCrashes
    BY <1>12 DEF TargetCrashes, Owning, IsActive, OwnershipInv, storeVars
  <1> QED
    BY <1>1, <1>2, <1>3, <1>4, <1>6, <1>7, <1>8, <1>9, <1>10, <1>11, <1>12, UnownedKeeps
    DEF Next, ControlStep, Creating, Recovering, WorkerStep, Surroundings

\* An unreleased run that is ACTIVE and not expired has the target for itself,
\* however late the prepare and release requests of other runs arrive.
THEOREM ActiveOwnsItsTarget == Spec => []ActiveOwnsTarget
  <1>1 Init => PreparedInv /\ OwnershipInv
    BY DEF Init, StoreInit, PreparedInv, ActiveWasPrepared, IdleCall, OwnershipInv, Owning
  <1>2 TypeOK /\ PreparedInv /\ OwnershipInv => ActiveOwnsTarget
    BY DEF TypeOK, StoreTypeOK, PreparedInv, OwnershipInv, ActiveWasPrepared, ActiveOwnsTarget,
           Owning, IsActive, ActiveStates
  <1> QED
    BY <1>1, <1>2, PreparedStep, OwnershipStep, TypeCorrect, TokensOrdered, PTL DEF Spec
=============================================================================
