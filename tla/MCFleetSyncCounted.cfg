\* A sibling counted as synced lacks a mutation.
SPECIFICATION Spec
CONSTANTS
  Device = {d1, d2}
  Ops = {o1, o2}
  AdoptCap = 1
  StartWalls = {1}
  Scenarios <- OverlapScenarios
INVARIANT CountedMeansHeld
CHECK_DEADLOCK FALSE
