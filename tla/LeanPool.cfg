SPECIFICATION FairSpec
CONSTANTS
  Callers = {c1, c2}
  PoolSize = 1
  MaxSessions = 2
  MaxProcesses = 2
  MaxHandles = 1
INVARIANTS PoolInv OneUserPerSession
PROPERTIES InUseStaysListed CallsReturn
CHECK_DEADLOCK FALSE
