\* One device, room for two deposits, three of them, and no trouble at all.
SPECIFICATION TimedSpec
CONSTANTS
  Dev = {d}
  Butlers = {d}
  Msg = {m1, m2, m3}
  alice = alice
  Sender <- OneSender
  None = None
  TTL = 1
  Skew = 0
  Lag = 0
  Ahead <- FastButler
  SenderCap = 2
  GlobalCap = 2
  Scenarios <- FullScenarios
PROPERTY CapIsTemporary
CHECK_DEADLOCK FALSE
