SPECIFICATION FairSpec
CONSTANTS
  Run <- TwoTokens
  MaxFaults = 2
  MaxReleases = 2
INVARIANTS HeldIsGuarded ActiveHasResource FenceKept
PROPERTIES OnlyOwnEnd ResourceFreed
CHECK_DEADLOCK FALSE
