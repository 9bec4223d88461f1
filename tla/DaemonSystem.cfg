SPECIFICATION FairSpec
CONSTANTS
  Clients = {c1}
  Conns = {1, 2, 3}
  MaxConcurrent = 2
  Prewarm = 1
  MaxSessions = 3
  MaxReconnects = 2
  MaxRequests = 2
INVARIANTS DaemonInv
PROPERTIES InStepReceives SessionsReturned
CHECK_DEADLOCK FALSE
