\* No peer is forgotten, with one dial permit and parole of one peer at a time.
SPECIFICATION FairSpec
CONSTANTS
  Peer = {p1, p2}
  Permits = {k1}
  Batch = 1
  EpochLimit = 4
  Recurring = {"parole"}
  Scenarios <- LiveScenarios
PROPERTY EventuallyDialed
CHECK_DEADLOCK FALSE
