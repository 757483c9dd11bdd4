SPECIFICATION WorkloadSpec
CONSTANTS
  r1 = r1
  k1 = k1
  Run <- OneRun
  Key <- OneKey
  NoKey = NoKey
  MaxFaults = 0
  MaxRecoveries = 1
  MaxStray = 0
  UsedKinds <- AllKinds
INVARIANTS DrainBeforeRelease
CHECK_DEADLOCK FALSE
