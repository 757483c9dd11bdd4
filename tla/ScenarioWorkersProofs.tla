------------------------- MODULE ScenarioWorkersProofs -------------------------
\* Theorems about ScenarioWorkers: beside the workload the control plane is still
\* that of FaultRun, so that what FaultRunProofs proves holds of both together.
EXTENDS ScenarioWorkers, FaultRunProofs

\* Every behaviour of the control plane with its load is one of FaultRun.
THEOREM WorkloadKeepsControl == WorkloadSpec => Spec
  <1>1 WorkloadInit => Init
    BY DEF WorkloadInit
  <1>2 [WorkloadNext]_allVars => [Next]_vars
    BY DEF WorkloadNext, Beside, WorkerProcessCrashes, ScanReads, ScanApplies,
           ScenarioWorkerEnds, Next, allVars
  <1> QED
    BY <1>1, <1>2, PTL DEF WorkloadSpec, Spec

\* A run without a row has never had a token, and the scenario of a run is settled
\* by its insertion.
UnbornInv == \A r \in Run : state[r] = "NONE" => token[r] = 0

\* A run without a row has no token, whatever the store does.
LEMMA UnbornStep == StoreTypeOK /\ UnbornInv /\ StoreMove => UnbornInv'
  <1> SUFFICES ASSUME StoreTypeOK, UnbornInv, StoreMove PROVE UnbornInv'
    OBVIOUS
  <1>1 CASE UNCHANGED storeVars
    BY <1>1 DEF storeVars, UnbornInv
  <1>2 ASSUME NEW r \in Run, NEW k \in Key, NEW d \in Kinds, Insert(r, k, d)
       PROVE  UnbornInv'
    BY <1>2 DEF Insert, StoreTypeOK, UnbornInv
  <1>3 ASSUME NEW r \in Run, NEW expected, NEW next \in States, NEW evidence,
              Transition(r, expected, next, evidence)
       PROVE  UnbornInv'
    BY <1>3 DEF Transition, StoreTypeOK, UnbornInv, States, ActiveStates, EndedStates
  <1>4 ASSUME NEW r \in Run, Purge(r) PROVE UnbornInv'
    BY <1>4 DEF Purge, StoreTypeOK, UnbornInv
  <1> QED
    BY <1>1, <1>2, <1>3, <1>4 DEF StoreMove

\* A run keeps its kind and its token from its admission on.
LEMMA BornRunsKeepKind ==
  ASSUME StoreTypeOK, UnbornInv, StoreMove, NEW r \in Run, token[r] # 0
  PROVE  kind'[r] = kind[r] /\ token'[r] = token[r]
  BY DEF StoreMove, storeVars, Insert, Transition, Purge, StoreTypeOK, UnbornInv

\* The worker process drives only runs that exist and whose scenario has a worker,
\* from whichever scan their list stems.
THEOREM WorkloadTyped == WorkloadSpec => []WorkloadTypeOK
  <1>1 WorkloadInit => WorkloadTypeOK /\ UnbornInv
    BY DEF WorkloadInit, NoScan, WorkloadTypeOK, Init, StoreInit, UnbornInv
  <1>2 TypeOK /\ TokenInv /\ UnbornInv /\ WorkloadTypeOK /\ [WorkloadNext]_allVars
         => UnbornInv' /\ WorkloadTypeOK'
    <2> SUFFICES ASSUME TypeOK, TokenInv, UnbornInv, WorkloadTypeOK, [WorkloadNext]_allVars
                 PROVE  UnbornInv' /\ WorkloadTypeOK'
      OBVIOUS
    <2>1 StoreMove
      <3>1 [Next]_vars
        BY DEF WorkloadNext, Beside, WorkerProcessCrashes, ScanReads, ScanApplies,
               ScenarioWorkerEnds, Next, allVars
      <3> QED
        BY <3>1, StoreStep
    <2>2 UnbornInv'
      BY <2>1, UnbornStep DEF TypeOK
    <2> SUFFICES WorkloadTypeOK'
      BY <2>2
    <2>3 \A r \in Run : token[r] # 0 => kind'[r] = kind[r] /\ token'[r] = token[r]
      BY <2>1, BornRunsKeepKind DEF TypeOK
    <2>10 scan.runs \subseteq Run
      BY DEF WorkloadTypeOK
    <2>4 CASE UNCHANGED workloadVars
      BY <2>3, <2>10, <2>4 DEF WorkloadTypeOK, workloadVars
    <2>5 CASE ScanReads
      <3>1 UNCHANGED storeVars
        BY <2>5 DEF ScanReads, vars
      <3>2 \A r \in Run : state[r] = "ACTIVE" => token[r] # 0
        BY DEF TokenInv, IsActive, ActiveStates, TypeOK, StoreTypeOK
      <3> QED
        <4>1 scan' \in [pending : BOOLEAN, runs : SUBSET Run]
          BY <2>5 DEF ScanReads
        <4>2 \A r \in scan'.runs : token'[r] # 0 /\ kind'[r] = "TARGET"
          BY <2>5, <3>1, <3>2 DEF ScanReads, storeVars
        <4> QED
          BY <2>3, <2>5, <4>1, <4>2 DEF ScanReads, WorkloadTypeOK
    <2>6 CASE ScanApplies
      <3>1 scan'.runs = scan.runs /\ scan' \in [pending : BOOLEAN, runs : SUBSET Run]
        BY <2>6 DEF ScanApplies, WorkloadTypeOK
      <3> QED
        BY <2>3, <2>10, <2>6, <3>1 DEF ScanApplies, WorkloadTypeOK
    <2>7 ASSUME NEW r \in Run, ScenarioWorkerEnds(r) PROVE WorkloadTypeOK'
      BY <2>3, <2>10, <2>7 DEF ScenarioWorkerEnds, WorkloadTypeOK
    <2>8 CASE WorkerProcessCrashes
      BY <2>8 DEF WorkerProcessCrashes, NoScan, WorkloadTypeOK
    <2>9 UNCHANGED allVars => UNCHANGED workloadVars
      BY DEF allVars, workloadVars
    <2> QED
      BY <2>2, <2>4, <2>5, <2>6, <2>7, <2>8, <2>9 DEF WorkloadNext, Beside
  <1> QED
    BY <1>1, <1>2, WorkloadKeepsControl, TypeCorrect, TokensOrdered, PTL DEF WorkloadSpec
=============================================================================
