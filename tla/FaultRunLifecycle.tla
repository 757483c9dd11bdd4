-------------------------- MODULE FaultRunLifecycle --------------------------
\* What the control plane promises about fault runs, whatever its processes do:
\* one run at a time, fencing tokens that order the runs, and the moves of a
\* run between the states of traffic-control-plane/src/lib/fault-run-repository.ts.
\* FaultRun implements this specification.
EXTENDS Naturals

CONSTANT Run            \* identities of runs (fault_run_id)

VARIABLES
  state,                \* state[r]: column fault_runs.state, or "NONE" / "PURGED"
  token,                \* token[r]: column fault_runs.fencing_token, 0 without a row
  lastToken             \* fault_run_sequence.last_token

lifecycleVars == <<state, token, lastToken>>

\* The states that the generated column active_run_guard marks.
ActiveStates == {"CREATING", "ACTIVE", "RECOVERING"}
EndedStates == {"RECOVERED", "STOPPED", "FAILED"}
States == ActiveStates \cup EndedStates \cup {"SERVICE_UNAVAILABLE"}

IsActive(r) == state[r] \in ActiveStates

\* The moves that transitionFaultRun is ever asked for.
Moves ==
  {<<"CREATING", "ACTIVE">>, <<"CREATING", "RECOVERING">>, <<"CREATING", "FAILED">>,
   <<"ACTIVE", "RECOVERING">>, <<"ACTIVE", "SERVICE_UNAVAILABLE">>,
   <<"RECOVERING", "STOPPED">>, <<"RECOVERING", "RECOVERED">>, <<"RECOVERING", "FAILED">>,
   <<"RECOVERING", "SERVICE_UNAVAILABLE">>, <<"SERVICE_UNAVAILABLE", "RECOVERED">>}
  \cup {<<s, "PURGED">> : s \in EndedStates}

LifecycleInit ==
  /\ state = [r \in Run |-> "NONE"]
  /\ token = [r \in Run |-> 0]
  /\ lastToken = 0

\* A run is admitted only while no other is active, with a fresh token.
Admit(r) ==
  /\ state[r] = "NONE"
  /\ ~\E s \in Run : IsActive(s)
  /\ state' = [state EXCEPT ![r] = "CREATING"]
  /\ lastToken' = lastToken + 1
  /\ token' = [token EXCEPT ![r] = lastToken + 1]

Advance(r, to) ==
  /\ <<state[r], to>> \in Moves
  /\ state' = [state EXCEPT ![r] = to]
  /\ UNCHANGED <<token, lastToken>>

LifecycleNext ==
  \E r \in Run :
    \/ Admit(r)
    \/ \E to \in States \cup {"PURGED"} : Advance(r, to)

LifecycleSpec == LifecycleInit /\ [][LifecycleNext]_lifecycleVars
=============================================================================
