SPECIFICATION FairSpec
CONSTANTS
  Steps = {1, 2, 3}
  DependsOn <- Join
  ContOnFail = {}
  Gated = {}
  Timed = {}
  MaxJobs = 1
  MaxAttempts = 2
  MaxTasks = 3
  MaxCrashes = 1
  MaxErrors = 1
  MayCancel = FALSE
  MayAbort = FALSE
INVARIANTS
  TypeOK
  SettledRunAccountsForItsSteps
  RetryReattaches
PROPERTIES
  NothingSubmittedAfterSettle
  DependenciesFirst
  RunComesToRest
CHECK_DEADLOCK FALSE
