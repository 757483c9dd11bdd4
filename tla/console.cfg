SPECIFICATION MCSpec
CONSTANTS
  None = None
  MaxFaults = 1
  Operator = {o1, o2}
  SourceEditor = {o2}
  Rule = {1, 2}
  Source <- MCSource
  MaxVersion = 3
  Client = {c1, c2}
  Account = {1, 2}
  MaxUpdates = 2
  MaxProfiles = 2
  Caller = {1, 2}
  MaxTokens = 3
  FetchSlot = {1, 2, 3}
  MaxChanges = 3
  MaxVisits = 2
  FaultRuns = {1, 2}
  HeapChoices <- MCHeapChoices
INVARIANTS TypeOK  TargetFollows SessionsHold
PROPERTIES EditsAreSeen ControlFollows ViewsAdvance
CHECK_DEADLOCK FALSE
