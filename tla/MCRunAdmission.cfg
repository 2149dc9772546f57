SPECIFICATION FairSpec
CONSTANTS
  Starters = {p1, u1}
  PullRequests = {p1}
  MaxQueueErrors = 1
  MaxDBErrors = 1
  MaxHubErrors = 1
  MayCancel = TRUE
INVARIANTS
  OnlyOverlappingStartsCollide
  CheckAgrees
PROPERTIES
  PendingRunStarts
  CheckGetsCompleted
CHECK_DEADLOCK FALSE
