---------------------------- MODULE ScenarioWorkers ----------------------------
\* The scenario workers of the worker process
\* (traffic-control-plane/src/worker/scenario-workers.ts and
\* controlled-scenario-worker.ts) beside the coordinators of FaultRun: they load
\* the target of an ACTIVE run with requests and register a drain with the
\* coordinator of their own process.
EXTENDS FaultRun

VARIABLES
  scan,                 \* the last list of runs, and whether it is still to be applied
  busy                  \* runs with a ControlledScenarioWorker and a registered drain

workloadVars == <<scan, busy>>
allVars == <<vars, scan, busy>>

NoScan == [pending |-> FALSE, runs |-> {}]

\* Besides the types: workers exist only for runs of scenarios that have one.
WorkloadTypeOK ==
  /\ scan \in [pending : BOOLEAN, runs : SUBSET Run]
  /\ busy \subseteq Run
  /\ \A r \in scan.runs \cup busy : token[r] # 0 /\ kind[r] = "TARGET"

WorkloadInit == Init /\ scan = NoScan /\ busy = {}

\* scan() up to its await: what listActiveFaultRuns answers.
ScanReads ==
  /\ boot.pc = "up"
  /\ ~scan.pending
  /\ scan' = [pending |-> TRUE,
              runs |-> {r \in Run : state[r] = "ACTIVE" /\ kind[r] = "TARGET"}]
  /\ UNCHANGED <<vars, busy>>

\* scan() after its await: workers start for the runs of a list that may be old.
ScanApplies ==
  /\ scan.pending
  /\ scan' = [scan EXCEPT !.pending = FALSE]
  /\ busy' = busy \cup scan.runs
  /\ UNCHANGED vars

\* Defect: only a drain ends a worker.
EndsOnlyByDrain(r) ==
  /\ r \in busy
  /\ rec["worker"][r].pc = "drain"
  /\ busy' = busy \ {r}
  /\ UNCHANGED <<vars, scan>>

\* A worker leaves its loop when a scan or a drain aborted it, or at expiresAt.
ScenarioWorkerEnds(r) ==
  /\ r \in busy
  /\ \/ ~scan.pending /\ r \notin scan.runs
     \/ rec["worker"][r].pc = "drain"
     \/ r \in expired
  /\ busy' = busy \ {r}
  /\ UNCHANGED <<vars, scan>>

\* drainRun awaits the drain registered in its own process; the api process has
\* none. Retention finds no worker of a run that ended a week ago.
DrainAwaited ==
  \A r \in busy :
    /\ ~(rec["worker"][r].pc = "drain" /\ rec'["worker"][r].pc = "release")
    /\ state'[r] # "PURGED"

Beside(control) == control /\ DrainAwaited /\ UNCHANGED workloadVars

WorkerProcessCrashes == WorkerCrashes /\ scan' = NoScan /\ busy' = {}

WorkloadNext ==
  \/ Beside(ControlStep)
  \/ WorkerProcessCrashes
  \/ ScanReads
  \/ ScanApplies
  \/ \E r \in Run : ScenarioWorkerEnds(r)

WorkloadSpec == WorkloadInit /\ [][WorkloadNext]_allVars

\* The steps of FaultRun's Fairness, beside the workload; the scan timer goes on
\* and an aborted worker ends, since its requests carry the abort signal.
WorkloadFairness ==
  /\ WF_allVars(Beside(WorkerStarts))
  /\ WF_allVars(Beside(WorkerReady))
  /\ WF_allVars(ScanReads)
  /\ WF_allVars(ScanApplies)
  /\ \A r \in Run :
       /\ WF_allVars(ScenarioWorkerEnds(r))
       /\ WF_allVars(Beside(Expire(r)))
       /\ WF_allVars(Beside(PollExpired(r)))
       /\ WF_allVars(Beside(BootCompensates(r)))
       /\ WF_allVars(Beside(BootRecordsFailure(r)))
       /\ WF_allVars(Beside(MarkRecovering("worker", r)))
       /\ SF_allVars(Beside(Drain("worker", r)))
       /\ WF_allVars(Beside(Release("worker", r)))
       /\ WF_allVars(Beside(RecordRecovery("worker", r)))
       /\ WF_allVars(Beside(RecordRecoveryFailure("worker", r)))

FairWorkloadSpec == WorkloadSpec /\ WorkloadFairness

-----------------------------------------------------------------------------
\* The load on a target ceases for good once its run has ended, although scans
\* start workers from lists that are out of date.
WorkloadQuiesces == \A r \in Run : IsEnded(r) ~> [](r \notin busy)

\* docs/architecture-overview.md:457: recovery first drains the worker, then
\* releases the target, so that no request writes to a released resource.
DrainBeforeRelease ==
  \A p \in Proc, r \in Run : rec[p][r].pc = "release" => r \notin busy
=============================================================================
