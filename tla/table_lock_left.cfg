SPECIFICATION Spec
CONSTANTS
  Run <- TwoTokens
  MaxFaults = 0
  MaxReleases = 1
INVARIANTS LockEndsWithConnection
CHECK_DEADLOCK FALSE
