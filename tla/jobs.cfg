SPECIFICATION MCSpec
CONSTANTS
  Scheduler = {s1}
  Manual = {m1}
  MaxAttempts = 2
  LastWindow = 1
  MaxStops = 1
  MaxFailures = 2
  Owner = {w1, w2}
  first = w1
  Job = {1, 2}
  Injects = {1}
  JobDays <- MCJobDays
  JobRows = 2
  DayRows = 1
  WindowDays = 1
  LastDay = 1
  MaxFaults = 1
  None = None
  MaxLifecycles = 2
  StorageTarget = 2
  FaultRuns = {1, 2}
  ScenarioOf <- MCScenarioOf
INVARIANTS TypeOK ReplenishmentIsSafe StatusSettles WarmupIsSafe RunnerIsSafe SendersEnd
CHECK_DEADLOCK FALSE
