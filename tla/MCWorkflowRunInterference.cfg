SPECIFICATION Spec
CONSTANTS
  Steps = {1, 2}
  DependsOn <- Chain
  ContOnFail = {2}
  Gated = {2}
  Timed = {2}
  MaxJobs = 2
  MaxAttempts = 2
  MaxTasks = 2
  MaxCrashes = 0
  MaxErrors = 1
  MayCancel = TRUE
  MayAbort = TRUE
INVARIANTS
  GateHolds
CHECK_DEADLOCK FALSE
