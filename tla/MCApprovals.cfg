SPECIFICATION FairSpec
CONSTANTS
  Users <- People
  Gates = {g1}
  Requests = {r1, r2}
  StartedBy = "ann"
  Policies <- SomePolicies
  MayCancel = TRUE
  MaxJobs = 2
  Failures = 1
INVARIANTS
  OpensOnlyByQuorum
  OnlyOverlappingApprovalsAreLost
PROPERTIES
  DecisionIsFinal
  ParkedRunEnds
CHECK_DEADLOCK FALSE
