SPECIFICATION Spec
CONSTANTS
  Users = {ann, bob, cat}
  Roles = {"editor", "admin"}
  Emails = {e1}
  Invites = {i1, i2}
  Requests = {r1, r2}
  MaxRows = 1
SYMMETRY Symmetry
INVARIANTS
  OrphanedOnlyByOverlap
  OnlyOverlappingInvitesCoexist
CHECK_DEADLOCK FALSE
