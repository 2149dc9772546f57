SPECIFICATION FairSpec
CONSTANTS
  Requests = {r1}
  Pages = {s1}
  MaxJobs = 2
  MaxAttempts = 2
  MaxFaults = 1
INVARIANTS
  EnabledHasTekton
PROPERTIES
  StatusConverges
CHECK_DEADLOCK FALSE
