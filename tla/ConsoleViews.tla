------------------------------ MODULE ConsoleViews ------------------------------
\* What the pages of the operator's console show of the server (traffic-control-plane/
\* src/app: page.tsx, operations/page.tsx, runner/page.tsx). Each page keeps copies of
\* what it has loaded, here views; a view shares nothing with another one, so that one
\* of them is followed at a time. Of what the server keeps, only how often it has
\* changed is told apart.
EXTENDS Integers, FiniteSets

CONSTANTS
  FetchSlot,            \* bound on requests under way
  MaxChanges,           \* bound on changes at the server
  MaxVisits,            \* bound on visits of the page
  MaxFaults             \* bound on requests that fail or lose their answer

\* Views loaded at intervals, those that have one load under way at most, those that
\* the answer to a change replaces, and those loaded again after a change.
Polled == {"status", "inventory", "progress", "jobs", "runs"}
Guarded == {"progress", "jobs"}
Answered == {"inventory", "accounts"}
Reloaded == {"jobs", "runs", "config"}
View == Polled \cup Answered \cup Reloaded
\* The page offers no second change while one is under way.
OneAtATime == {"inventory", "jobs", "runs"}
\* A change is made out of what is shown: a row of the list, a field of the profile.
FromShown == {"accounts", "config"}

VARIABLES
  view,
  truth,                \* changes at the server so far
  shown,                \* the one that the page shows, -1 for none
  busy,                 \* warmupRequestInFlight, warmupJobsRequestInFlight
  visit,
  request,              \* per slot
  viewFaults,           \* requests that have failed
  quiet                 \* history: nobody else has changed it, a change has overlapped nothing,
                        \* no request has failed

viewVars == <<view, truth, shown, busy, visit, request, quiet, viewFaults>>

NoRequest == [at |-> "free", kind |-> "load", value |-> 0, visit |-> 0]
Mine(s) == request[s].visit = visit
Under(kind) == {s \in FetchSlot : request[s].at # "free" /\ request[s].kind = kind}
Still == \A s \in FetchSlot : request[s].at = "free"

TypeOK ==
  /\ view \in View /\ truth \in 0..MaxChanges /\ shown \in -1..truth /\ busy \in BOOLEAN
  /\ visit \in 1..MaxVisits /\ quiet \in BOOLEAN /\ viewFaults \in 0..MaxFaults
  /\ \A s \in FetchSlot :
       /\ request[s].at \in {"free", "sent", "answered"} /\ request[s].kind \in {"load", "change"}
       /\ request[s].value \in 0..truth /\ request[s].visit \in 0..visit

Init ==
  /\ view \in View /\ truth = 0 /\ shown = -1 /\ visit = 1 /\ quiet = TRUE /\ viewFaults = 0
  /\ busy = (view \in Guarded)
  /\ \E s \in FetchSlot :
       request = [r \in FetchSlot |-> IF r = s THEN [NoRequest EXCEPT !.at = "sent", !.visit = 1]
                                 ELSE NoRequest]

Sends(kind, of) ==
  \E s \in FetchSlot :
    /\ request[s].at = "free"
    /\ request' = [request EXCEPT ![s] = [NoRequest EXCEPT !.at = "sent", !.kind = kind, !.visit = of]]
Over(s) == request' = [request EXCEPT ![s] = NoRequest]
\* A load of this visit ends: the finally of the guarded loads.
Frees(s) == busy' = (busy /\ ~ (Mine(s) /\ request[s].kind = "load"))

-----------------------------------------------------------------------------
\* The page is left and opened again: its state is new, its requests go on.
Opens ==
  /\ visit < MaxVisits
  /\ visit' = visit + 1 /\ shown' = -1 /\ busy' = (view \in Guarded)
  /\ Sends("load", visit + 1)
  /\ quiet' = (quiet /\ Under("change") = {})
  /\ UNCHANGED <<view, truth, viewFaults>>

\* An interval, or the operator asks for it.
Loads ==
  /\ view \in Polled /\ ~ busy
  /\ Sends("load", visit) /\ busy' = (view \in Guarded)
  /\ UNCHANGED <<view, truth, shown, visit, quiet, viewFaults>>

\* triggerReplenishment, toggleAccount, queueWarmupJob, toggleEnabled, saveConfig, and
\* the confirmed actions of the scenario page
Asks ==
  /\ view \in Answered \cup Reloaded /\ (view \in FromShown => shown # -1)
  /\ view \in OneAtATime => \A s \in Under("change") : ~ Mine(s)
  /\ Sends("change", visit)
  /\ quiet' = (quiet /\ Still)
  /\ UNCHANGED <<view, truth, shown, busy, visit, viewFaults>>

Serves(s) ==
  /\ request[s].at = "sent"
  /\ request[s].kind = "change" => truth < MaxChanges
  /\ truth' = IF request[s].kind = "change" THEN truth + 1 ELSE truth
  /\ request' = [request EXCEPT ![s].at = "answered", ![s].value = truth']
  /\ UNCHANGED <<view, shown, busy, visit, quiet, viewFaults>>

\* A worker, a clock or another operator
ChangesElsewhere ==
  /\ truth < MaxChanges /\ truth' = truth + 1 /\ quiet' = FALSE
  /\ UNCHANGED <<view, shown, busy, visit, request, viewFaults>>

\* A page that was left shows nothing.
Shows(s) ==
  /\ request[s].at = "answered" /\ (request[s].kind = "load" \/ view \in Answered)
  /\ shown' = IF Mine(s) THEN request[s].value ELSE shown
  /\ Over(s) /\ Frees(s)
  /\ UNCHANGED <<view, truth, visit, quiet, viewFaults>>

\* A load under way takes the place of the one that should follow the change.
LoadsAgain(s) ==
  /\ request[s].at = "answered" /\ request[s].kind = "change" /\ view \in Reloaded
  /\ IF busy /\ Mine(s)
     THEN Over(s) /\ UNCHANGED busy
     ELSE /\ request' = [request EXCEPT ![s].at = "sent", ![s].kind = "load", ![s].value = 0]
          /\ busy' = (busy \/ (view \in Guarded /\ Mine(s)))
  /\ UNCHANGED <<view, truth, shown, visit, quiet, viewFaults>>

\* Defect: the flag is freed while the request goes on.
AbortsNothing(s) ==
  /\ view \in Guarded /\ request[s].at # "free" /\ request[s].kind = "load"
  /\ Frees(s) /\ quiet' = FALSE
  /\ UNCHANGED <<view, truth, shown, visit, request, viewFaults>>

\* Ten seconds have passed.
Aborts(s) ==
  /\ view \in Guarded /\ request[s].at # "free" /\ request[s].kind = "load"
  /\ Over(s) /\ Frees(s) /\ quiet' = FALSE
  /\ UNCHANGED <<view, truth, shown, visit, viewFaults>>

\* The server refuses the request or is not reached, or its answer is lost.
Fails(s) ==
  /\ request[s].at # "free" /\ viewFaults < MaxFaults
  /\ viewFaults' = viewFaults + 1 /\ quiet' = FALSE
  /\ Over(s) /\ Frees(s)
  /\ UNCHANGED <<view, truth, shown, visit>>

Next ==
  \/ Opens \/ Loads \/ Asks \/ ChangesElsewhere
  \/ \E s \in FetchSlot : Serves(s) \/ Shows(s) \/ LoadsAgain(s) \/ Aborts(s) \/ Fails(s)

Spec == Init /\ [][Next]_viewVars

\* The progress and the jobs of the warm-up never go back to what was shown before,
\* whatever is late, aborted or asked for in between (loadWarmupProgress, loadWarmupJobs).
GuardedAdvances == visit' = visit /\ view \in Guarded => shown' >= shown

\* Their flag stands for the one load of this visit that is under way, so that it neither
\* lets in a second one nor keeps the view from being loaded for ever.
BusyStandsForLoad ==
  view \in Guarded => Cardinality({s \in Under("load") : Mine(s)}) = IF busy THEN 1 ELSE 0

\* Accounts and profile are loaded once and then after each change only: once nothing is
\* under way the page shows what the server has (toggleAccount, saveConfig).
UnpolledIsCurrent == view \notin Polled /\ Still /\ quiet => shown = truth
=============================================================================
