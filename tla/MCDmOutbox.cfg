\* The outbox with a message or an invitation for two recipients and one permit.
SPECIFICATION FairSpec
CONSTANTS
  Msg = {m, i}
  Invites = {i}
  Peer = {p, q}
  Slots = {s1}
  NoUnit = NoUnit
  Expiry = 2
  Stuck = 1
  BackoffBase = 1
  BackoffCap = 2
  MaxExponent = 8
  NoAckWindows = 1
  Horizon = 2
  Scenarios <- SafetyScenarios
INVARIANTS TypeOK TombstonesHold OneHolder MarkersAccounted SendsAreDue UnsavedIsOwed OneStraggler
PROPERTY DiskMovesForward EventuallySettled
CHECK_DEADLOCK FALSE
