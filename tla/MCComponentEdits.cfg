\* Three applications and two editors: a component may be moved twice at once.
CONSTANTS
  Apps = {web, api, ops}
  Components = {infra}
  Rows = {s1, s2}
  Runs = {r1, r2}
  Editors = {e1, e2}
  NoApp = NoApp
  NoComp = NoComp
  NoRun = NoRun
  NoRow = NoRow
SPECIFICATION Spec
SYMMETRY Symmetry
INVARIANTS StateStaysWithComponent
PROPERTIES LockedStateStays DeletionTrustsTheRecord
CHECK_DEADLOCK FALSE
