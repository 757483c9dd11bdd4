------------------------------ MODULE MCFaultRun ------------------------------
\* Model values and symmetry for checking FaultRun.
EXTENDS FaultRun, TLC

CONSTANTS r1, r2, k1, k2

TwoRuns == {r1, r2}
TwoKeys == {k1, k2}
TargetOnly == {"TARGET"}
AllKinds == {"SURGE", "HEAP", "TARGET"}

\* Two runs meet each other without faults, or one run of any kind meets faults; the last
\* fault is never used, which tells the one from the other.
NoFaults == INSTANCE FaultRun WITH MaxFaults <- 0
MCInit == Init \/ NoFaults!Init
MCSpec == MCInit /\ [][Next]_vars
PairOrFaults ==
  \/ faults = 0 /\ \A r \in Run : kind[r] = "TARGET"
  \/ faults > 0 /\ stray = {} /\ Cardinality({r \in Run : token[r] # 0}) <= 1
LastFaultUnused == faults' = 0 => faults = 0

RunSymmetry == Permutations(TwoRuns) \cup Permutations(TwoKeys)
=============================================================================
