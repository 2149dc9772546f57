SPECIFICATION Spec
CONSTANTS
  Reqs = {r1, r2}
  Steps = {w, p}
  Writers = {w}
  LockIDs = {k1, k2}
  Lineages = {la}
  Digests = {x, y}
  MaxSerial = 1
  NoLock = NoLock
  NoReq = NoReq
  NoLineage = NoLineage
SYMMETRY Symmetry
INVARIANTS HistoryIsLinear AcknowledgedWriteIsStored ReadIsFresh
PROPERTIES WritesOnlyUnderLock NoTakeover ImplementsRegister
CHECK_DEADLOCK FALSE
