------------------------------ MODULE WorkerProcess ------------------------------
\* The worker process from its start to its shutdown (traffic-control-plane/src/worker/
\* index.ts), with the two executors that have no drain: the traffic surges
\* (traffic-surge-executor.ts) and the slow reports (report-scenario-worker.ts), which
\* load their target for a fault run until it has ended or is overdue. Statistics and
\* events are left out but for the effect of one that cannot be written.
EXTENDS Integers

CONSTANTS
  Run,                  \* fault runs, one open at a time
  ScenarioOf            \* the scenario of each

Report == {"BROWSE_REPORT_SQL", "ORDER_REPORT_SQL"}
Executor == {"surge", "report"}
Slot == 1..2            \* scans under way at once, and senders told apart per run

VARIABLES
  open, ended, overdue, \* the fault runs
  process,              \* stage of the process, senders that its shutdown waits for
  scan,                 \* by executor: the lists that scans have read and not yet used
  registered,           \* runs in the map of their executor
  sender                \* by run: the worker or task, its session, whether it is aborted

vars == <<open, ended, overdue, process, scan, registered, sender>>
runVars == <<open, ended, overdue>>

NoScan == [pending |-> FALSE, runs |-> {}]
NoSender == [pc |-> "none", session |-> FALSE, aborted |-> FALSE]
ExecutorOf(r) == IF ScenarioOf[r] \in Report THEN "report" ELSE "surge"
WithSession(r) == ScenarioOf[r] \in {"ORDER_QUERY_SURGE", "ORDER_REPORT_SQL"}
Senders == Run \X Slot
In(pc) == {s \in Senders : sender[s[1]][s[2]].pc = pc}
Of(e) == {s \in Senders : ExecutorOf(s[1]) = e}

TypeOK ==
  /\ open \cup ended \cup overdue \subseteq Run /\ open \cap ended = {}
  /\ process \in [at : {"booting", "up", "reports", "surges", "rest", "exited"},
                  awaits : SUBSET Senders]
  /\ scan \in [Executor \X Slot -> [pending : BOOLEAN, runs : SUBSET Run]]
  /\ registered \subseteq Run
  /\ sender \in [Run -> [Slot -> [pc : {"none", "setup", "loop", "closing"},
                                  session : BOOLEAN, aborted : BOOLEAN]]]
  /\ \A r \in Run, i \in Slot : sender[r][i].session => WithSession(r)

NoScans == [k \in Executor \X Slot |-> NoScan]
NoSenders == [r \in Run |-> [i \in Slot |-> NoSender]]

Init ==
  /\ open = {} /\ ended = {} /\ overdue = {}
  /\ process = [at |-> "booting", awaits |-> {}]
  /\ scan = NoScans /\ registered = {} /\ sender = NoSenders

Alive == process.at \notin {"booting", "exited"}
Becomes(r, i, s) == sender' = [sender EXCEPT ![r][i] = s]

-----------------------------------------------------------------------------
\* The fault runs: open is CREATING, ACTIVE or RECOVERING, which is what the scans ask
\* for; the coordinators of FaultRun end them.

RunOpens(r) ==
  /\ open = {} /\ r \notin ended
  /\ open' = {r}
  /\ UNCHANGED <<ended, overdue, process, scan, registered, sender>>

RunExpires(r) ==
  /\ r \in open \cup ended /\ r \notin overdue
  /\ overdue' = overdue \cup {r}
  /\ UNCHANGED <<open, ended, process, scan, registered, sender>>

RunEnds(r) ==
  /\ r \in open
  /\ open' = {} /\ ended' = ended \cup {r}
  /\ UNCHANGED <<overdue, process, scan, registered, sender>>

-----------------------------------------------------------------------------
\* main() and its end. It starts the executors after the replenishment schedulers,
\* whose start() ends with a first execution and its retries.

Boots ==
  /\ process.at = "booting"
  /\ process' = [process EXCEPT !.at = "up"]
  /\ UNCHANGED <<runVars, scan, registered, sender>>

\* The container starts the process again. Sessions are not closed.
Forgets == scan' = NoScans /\ registered' = {} /\ sender' = NoSenders
Restarts == process' = [at |-> "booting", awaits |-> {}] /\ Forgets

Crashes ==
  /\ Alive /\ Restarts
  /\ UNCHANGED runVars

\* shutdown() awaits the reports, which nothing aborts,
Terminates ==
  /\ process.at = "up"
  /\ process' = [at |-> "reports", awaits |-> (Senders \ In("none")) \cap Of("report")]
  /\ UNCHANGED <<runVars, scan, registered, sender>>

\* then the surges that are in their loop; one that still sets up is only aborted,
ReportsStopped ==
  /\ process.at = "reports" /\ process.awaits \subseteq In("none")
  /\ process' = [at |-> "surges", awaits |-> In("loop") \cap Of("surge")]
  /\ sender' = [r \in Run |-> [i \in Slot |->
       [sender[r][i] EXCEPT !.aborted = @ \/ (r \in registered /\ ExecutorOf(r) = "surge")]]]
  /\ UNCHANGED <<runVars, scan, registered>>

SurgesStopped ==
  /\ process.at = "surges" /\ process.awaits \cap In("loop") = {}
  /\ process' = [at |-> "rest", awaits |-> {}]
  /\ UNCHANGED <<runVars, scan, registered, sender>>

\* and, after the other parts of the process, exits with what is left.
Exits ==
  /\ process.at = "rest"
  /\ process' = [process EXCEPT !.at = "exited"] /\ Forgets
  /\ UNCHANGED <<runVars>>

-----------------------------------------------------------------------------
\* scan(), at every second although the one before may wait for its list.

Scanning(e) ==
  \/ process.at = "up"
  \/ process.at = "reports" /\ e = "surge"

ScanReads(e, i) ==
  /\ Scanning(e) /\ ~ scan[<<e, i>>].pending
  /\ scan' = [scan EXCEPT ![<<e, i>>] = [pending |-> TRUE, runs |-> {r \in open : ExecutorOf(r) = e}]]
  /\ UNCHANGED <<runVars, process, registered, sender>>

Unused(r) == CHOOSE i \in Slot : sender[r][i].pc = "none"

\* The list is used also after a stop(). Surges of other runs are aborted; every run
\* that is not in the map gets a sender and is in the map before that is set up.
ScanApplies(e, i) ==
  LET listed == scan[<<e, i>>].runs
      starts == listed \ registered
  IN /\ Alive /\ scan[<<e, i>>].pending
     /\ scan' = [scan EXCEPT ![<<e, i>>] = NoScan]
     /\ registered' = registered \cup starts
     /\ sender' = [r \in Run |-> [k \in Slot |->
          IF r \in starts /\ k = Unused(r) THEN [NoSender EXCEPT !.pc = "setup"]
          ELSE [sender[r][k] EXCEPT !.aborted =
                  @ \/ (e = "surge" /\ r \in registered \ listed /\ ExecutorOf(r) = e)]]]
     /\ UNCHANGED <<runVars, process>>

-----------------------------------------------------------------------------
\* A sender: its session, its loop and its end.

IsIn(r, i, pc) == Alive /\ sender[r][i].pc = pc
SurgesStopping == process.at \in {"surges", "rest"}

\* Defect: a surge that was set up starts in any case.
SetsUpUnasked(r, i) ==
  /\ IsIn(r, i, "setup")
  /\ Becomes(r, i, [sender[r][i] EXCEPT !.pc = "loop", !.session = WithSession(r)])
  /\ UNCHANGED <<runVars, process, scan, registered>>

\* A surge that was set up looks for a stop() meanwhile, and for nothing else.
SetsUp(r, i) ==
  /\ IsIn(r, i, "setup")
  /\ LET stays == ExecutorOf(r) = "report" \/ ~ SurgesStopping
     IN Becomes(r, i, [sender[r][i] EXCEPT !.pc = IF stays THEN "loop" ELSE "closing",
                                           !.session = WithSession(r)])
  /\ UNCHANGED <<runVars, process, scan, registered>>

\* No account or login, or an event cannot be written: a surge reports it and ends.
SurgeFails(r, i) ==
  /\ IsIn(r, i, "setup") /\ ExecutorOf(r) = "surge"
  /\ \E opened \in {FALSE, WithSession(r)} :
       Becomes(r, i, [sender[r][i] EXCEPT !.pc = "closing", !.session = opened])
  /\ UNCHANGED <<runVars, process, scan, registered>>

\* The promise of a report is handled by nobody but the shutdown: its failure is the
\* end of the process, in the loop as well.
ReportFails(r, i) ==
  /\ (IsIn(r, i, "setup") \/ IsIn(r, i, "loop")) /\ ExecutorOf(r) = "report"
  /\ IF <<r, i>> \in process.awaits
     THEN /\ Becomes(r, i, [sender[r][i] EXCEPT !.pc = "closing"])
          /\ UNCHANGED <<process, scan, registered>>
     ELSE Restarts
  /\ UNCHANGED runVars

\* A surge heeds its signal; a report goes on for a run that was stopped.
LeavesLoop(r, i) ==
  /\ IsIn(r, i, "loop")
  /\ r \in overdue \/ (ExecutorOf(r) = "surge" /\ sender[r][i].aborted)
  /\ Becomes(r, i, [sender[r][i] EXCEPT !.pc = "closing"])
  /\ UNCHANGED <<runVars, process, scan, registered>>

Ends(r, i) ==
  /\ IsIn(r, i, "closing")
  /\ Becomes(r, i, NoSender)
  /\ registered' = registered \ {r}
  /\ UNCHANGED <<runVars, process, scan>>

Next ==
  \/ \E r \in Run : RunOpens(r) \/ RunExpires(r) \/ RunEnds(r)
  \/ Boots \/ Crashes \/ Terminates \/ ReportsStopped \/ SurgesStopped \/ Exits
  \/ \E e \in Executor, i \in Slot : ScanReads(e, i) \/ ScanApplies(e, i)
  \/ \E r \in Run, i \in Slot :
       SetsUp(r, i) \/ SurgeFails(r, i) \/ ReportFails(r, i) \/ LeavesLoop(r, i) \/ Ends(r, i)

Spec == Init /\ [][Next]_vars

-----------------------------------------------------------------------------
\* A run has one sender at a time, however scans overlap, and a session only with it;
\* once the shutdown has stopped the surges none of them sends, also none that was set
\* up meanwhile or that an old list asks for.
SendersEnd ==
  /\ \A r \in Run, i, k \in Slot :
       sender[r][i].pc # "none" /\ sender[r][k].pc # "none" => i = k
  /\ \A r \in Run, i \in Slot : sender[r][i].session => r \in registered
  /\ process.at \in {"rest", "exited"} => In("loop") \cap Of("surge") = {}
=============================================================================
