SPECIFICATION FairWorkloadSpec
CONSTANTS
  r1 = r1
  k1 = k1
  Run <- OneRun
  Key <- OneKey
  NoKey = NoKey
  MaxFaults = 2
  MaxRecoveries = 2
  MaxStray = 0
  UsedKinds <- AllKinds
INVARIANTS EvidenceHonest ActiveWasPrepared
PROPERTIES WorkloadQuiesces EveryRunEnds
CHECK_DEADLOCK FALSE
