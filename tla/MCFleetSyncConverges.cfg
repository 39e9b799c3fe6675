\* Two devices end up with the same dataset after every single trouble.
SPECIFICATION FairSpec
CONSTANTS
  Device = {d1, d2}
  Ops = {o1, o2}
  AdoptCap = 1
  StartWalls = {1}
  Scenarios <- RecoveryScenarios
PROPERTY Converges
CHECK_DEADLOCK FALSE
