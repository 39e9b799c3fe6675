\* Safety of one engine with three concurrent callers of the handle.
SPECIFICATION Spec
CONSTANTS
  Writers = {w1, w2, w3}
  NoWriter = NoWriter
SYMMETRY Symmetry
INVARIANTS TypeOK NoStrandedDirt UnsentIsOwed RetryOwesWork RepliesAreDurable ShutdownIsDurable
PROPERTY DiskNeverRegresses
CHECK_DEADLOCK FALSE
