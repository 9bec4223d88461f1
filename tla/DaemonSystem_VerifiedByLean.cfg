SPECIFICATION Spec
CONSTANTS
  Clients = {c1}
  Conns = {1, 2, 3}
  MaxConcurrent = 2
  Prewarm = 1
  MaxSessions = 3
  MaxReconnects = 2
  MaxRequests = 2
PROPERTIES VerifiedByLean
CHECK_DEADLOCK FALSE
