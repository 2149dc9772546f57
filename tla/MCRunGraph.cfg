SPECIFICATION Spec
CONSTANTS
  Components = {a, b, c}
  Gateable = {a}
  Stages = 3
  NoUnit = NoUnit
SYMMETRY Symmetry
INVARIANTS
  StagesInOrder
  OutcomeExplained
  DependenciesAreInTheRun
  BoardTellsTheTruth
  DerivedStagesAgree
PROPERTIES
  ChangesWaitForApproval
CHECK_DEADLOCK FALSE
