SPECIFICATION MCSpec
CONSTANTS
  r1 = r1
  r2 = r2
  k1 = k1
  k2 = k2
  Run <- TwoRuns
  Key <- TwoKeys
  NoKey = NoKey
  MaxFaults = 2
  MaxRecoveries = 1
  MaxStray = 1
  UsedKinds <- AllKinds
CONSTRAINT PairOrFaults
ACTION_CONSTRAINT LastFaultUnused
SYMMETRY RunSymmetry
INVARIANTS SingleActive NewestTokenActive ActiveOwnsTarget
PROPERTIES Lifecycle
CHECK_DEADLOCK FALSE
