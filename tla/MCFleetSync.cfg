\* Safety of two devices with two mutations and one group of troubles at a time.
SPECIFICATION Spec
CONSTANTS
  Device = {d1, d2}
  Ops = {o1, o2}
  AdoptCap = 1
  StartWalls = {1}
  Scenarios <- SafetyScenarios
SYMMETRY Symmetry
INVARIANTS TypeOK WatermarkCovered DiskCovered AckCarriesContent SessionFramesGrow DuplicateMeansHeld
PROPERTY ReplicatesSet
CHECK_DEADLOCK FALSE
