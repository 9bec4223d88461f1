SPECIFICATION FairSpec
CONSTANTS
  Callers = {c1, c2}
  Heartbeat = hb
  MaxRestarts = 1
  LongRequests = TRUE
  MaxCalls = 3
INVARIANT TransportInv
PROPERTIES OwnAnswerWhenClean GivenUpIsFinal ImplementsService CallsReturnOrClog
CHECK_DEADLOCK FALSE
