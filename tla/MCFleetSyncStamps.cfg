\* A device whose mints lead its clock crashes before it persists, and goes back
\* behind a stamp it has published.
SPECIFICATION Spec
CONSTANTS
  Device = {d1, d2}
  Ops = {o1, o2}
  AdoptCap = 2
  StartWalls = {1, 3}
  Scenarios <- CrashScenarios
INVARIANT StampsIncrease
CHECK_DEADLOCK FALSE
