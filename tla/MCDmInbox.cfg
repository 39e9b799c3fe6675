\* Two devices, one of them a butler, and one key.
SPECIFICATION FairSpec
CONSTANTS
  Dev = {d, e}
  Butlers = {d}
  Msg = {m}
  alice = alice
  Sender <- OneSender
  None = None
  TTL = 1
  Skew = 1
  Lag = 0
  Ahead <- FastButler
  SenderCap = 2
  GlobalCap = 2
  Scenarios <- SafetyScenarios
INVARIANTS TypeOK NoLiveTombstone AckedSurvivesCrash TtlNeverRestarts ExpiryHolds
PROPERTY DurableCustody DeliveredEventually
CHECK_DEADLOCK FALSE
