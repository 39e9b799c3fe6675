\* Safety of the supervisor with two peers and two dial permits.
SPECIFICATION Spec
CONSTANTS
  Peer = {p1, p2}
  Permits = {k1, k2}
  Batch = 1
  EpochLimit = 8
  Recurring = {}
  Scenarios <- SafetyScenarios
SYMMETRY Symmetry
INVARIANTS TypeOK InFlightIsReal ExemptionUsedUp NoLostKick StayersHaveSlots
PROPERTY ConnectedHeld
CHECK_DEADLOCK FALSE
