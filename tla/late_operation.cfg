SPECIFICATION Spec
CONSTANTS
  r1 = r1
  r2 = r2
  k1 = k1
  k2 = k2
  Run <- TwoRuns
  Key <- TwoKeys
  NoKey = NoKey
  MaxFaults = 0
  MaxRecoveries = 1
  MaxStray = 0
  UsedKinds <- TargetOnly
PROPERTIES LateOperationsRefused
CHECK_DEADLOCK FALSE
