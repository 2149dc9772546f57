\* Whether the state guard asks before it deletes the state of a component
\* whose last apply failed after its last recorded state was empty.
CONSTANTS
  Apps = {web}
  Components = {infra}
  Rows = {s1, s2}
  Runs = {r1, r2}
  Editors = {e1}
  NoApp = NoApp
  NoComp = NoComp
  NoRun = NoRun
  NoRow = NoRow
SPECIFICATION Spec
SYMMETRY Symmetry
PROPERTIES DeletionIsConfirmed
CHECK_DEADLOCK FALSE
