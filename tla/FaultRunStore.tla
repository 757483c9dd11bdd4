---------------------------- MODULE FaultRunStore ----------------------------
\* The SQL store of fault runs: tables fault_run_sequence and fault_runs, and the
\* statements of traffic-control-plane/src/lib/fault-run-repository.ts. Each
\* operator below is one committed transaction of that file; the processes that
\* issue them are in FaultRun.
EXTENDS Naturals, FiniteSets

CONSTANTS
  Run,                  \* identities of runs: the UUID a create request draws
  Key,                  \* idempotency keys of create requests
  NoKey                 \* key of a run that has no row

ASSUME NoKeyAssumption == NoKey \notin Key

VARIABLES
  state,                \* column state; "NONE": not inserted, "PURGED": deleted
  token,                \* column fencing_token
  keyOf,                \* column idempotency_key
  kind,                 \* column scenario, reduced to what the coordinator tells apart
  result,               \* column recovery_result
  lastToken             \* fault_run_sequence.last_token

storeVars == <<state, token, keyOf, kind, result, lastToken>>

ActiveStates == {"CREATING", "ACTIVE", "RECOVERING"}
EndedStates == {"RECOVERED", "STOPPED", "FAILED"}
States == ActiveStates \cup EndedStates \cup {"SERVICE_UNAVAILABLE"}

\* SURGE: BROWSE_SURGE and ORDER_QUERY_SURGE, whose target is the worker itself;
\* HEAP: NOTIFICATION_HEAP_PRESSURE; TARGET: every other scenario.
Kinds == {"SURGE", "HEAP", "TARGET"}
Results == {"none", "compensated", "notCompensated", "stopped", "notStopped", "restarted"}

StoreTypeOK ==
  /\ state \in [Run -> States \cup {"NONE", "PURGED"}]
  /\ token \in [Run -> Nat]
  /\ keyOf \in [Run -> Key \cup {NoKey}]
  /\ kind \in [Run -> Kinds]
  /\ result \in [Run -> Results]
  /\ lastToken \in Nat

StoreInit ==
  /\ state = [r \in Run |-> "NONE"]
  /\ token = [r \in Run |-> 0]
  /\ keyOf = [r \in Run |-> NoKey]
  /\ kind = [r \in Run |-> "TARGET"]
  /\ result = [r \in Run |-> "none"]
  /\ lastToken = 0

HasRow(r) == state[r] \in States
IsActive(r) == state[r] \in ActiveStates
IsEnded(r) == state[r] \in EndedStates
Holders(k) == {r \in Run : HasRow(r) /\ keyOf[r] = k}
ActiveRuns == {r \in Run : IsActive(r)}

\* Defect: tokens counted from the rows, which retention deletes.
NextTokenOfRows == Cardinality({r \in Run : HasRow(r)}) + 1

NextToken == lastToken + 1

\* Defect: no unique index on the active run.
InsertBesideActive(r, k, d) ==
  /\ state[r] = "NONE"
  /\ Holders(k) = {}
  /\ lastToken' = NextToken
  /\ state' = [state EXCEPT ![r] = "CREATING"]
  /\ token' = [token EXCEPT ![r] = NextToken]
  /\ keyOf' = [keyOf EXCEPT ![r] = k]
  /\ kind' = [kind EXCEPT ![r] = d]
  /\ UNCHANGED result

\* createFaultRun, the transaction that commits: no row has the key
\* (uq_fault_run_idempotency) and no row is active (uq_fault_run_active).
Insert(r, k, d) ==
  /\ state[r] = "NONE"
  /\ Holders(k) = {}
  /\ ActiveRuns = {}
  /\ lastToken' = NextToken
  /\ state' = [state EXCEPT ![r] = "CREATING"]
  /\ token' = [token EXCEPT ![r] = NextToken]
  /\ keyOf' = [keyOf EXCEPT ![r] = k]
  /\ kind' = [kind EXCEPT ![r] = d]
  /\ UNCHANGED result

\* transitionFaultRun: a compare-and-set on the state column. When the run is in
\* none of the expected states nothing is written and the caller gets the
\* current row. "none" stands for an absent recoveryResult, which leaves the
\* column alone.
Transition(r, expected, next, evidence) ==
  /\ IF state[r] \in expected
       THEN /\ state' = [state EXCEPT ![r] = next]
            /\ result' = IF evidence = "none" THEN result
                         ELSE [result EXCEPT ![r] = evidence]
       ELSE UNCHANGED <<state, result>>
  /\ UNCHANGED <<token, keyOf, kind, lastToken>>

\* deleteExpiredFaultRuns: only an ended run with its evidence is deleted.
Purge(r) ==
  /\ IsEnded(r)
  /\ result[r] # "none"
  /\ state' = [state EXCEPT ![r] = "PURGED"]
  /\ keyOf' = [keyOf EXCEPT ![r] = NoKey]
  /\ UNCHANGED <<token, kind, result, lastToken>>
=============================================================================
