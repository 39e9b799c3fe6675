\* A peer that is announced again while it is being evicted is forgotten.
SPECIFICATION Spec
CONSTANTS
  Peer = {p1}
  Permits = {k1}
  Batch = 1
  EpochLimit = 16
  Recurring = {}
  Scenarios <- ReturnScenarios
INVARIANT RecordHasSlot
CHECK_DEADLOCK FALSE
