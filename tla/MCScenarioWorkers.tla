--------------------------- MODULE MCScenarioWorkers ---------------------------
\* Model values for checking ScenarioWorkers.
EXTENDS ScenarioWorkers

CONSTANTS r1, k1

OneRun == {r1}
OneKey == {k1}
AllKinds == {"SURGE", "HEAP", "TARGET"}
=============================================================================
