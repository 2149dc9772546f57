SPECIFICATION Spec
CONSTANTS
  Steps = {1, 2}
  DependsOn <- Parallel
  ContOnFail = {}
  Gated = {1, 2}
  Timed = {}
  MaxJobs = 3
  MaxAttempts = 1
  MaxTasks = 3
  MaxCrashes = 0
  MaxErrors = 0
  MayCancel = FALSE
  MayAbort = FALSE
INVARIANTS
  GateHolds
CHECK_DEADLOCK FALSE
