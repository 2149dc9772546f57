SPECIFICATION FairSpec
CONSTANTS
  N = 3
  Concurrency = 2
INVARIANTS
  RunsOnlyWhenReady
  NoGoroutineLeaks
  ReturnsWhenDone
PROPERTIES
  ImplementsDagRun
  Terminates
CHECK_DEADLOCK FALSE
