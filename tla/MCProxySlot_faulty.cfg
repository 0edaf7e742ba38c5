SPECIFICATION Spec
CONSTANTS
  Scripts <- FaultyScripts
  Responses <- FaultyResponses
  MaxUp = 2
  PoolMax = 1
  BufMax = 3
  HeaderCap = 3
  Budget = 2
  Faults = {"epoll", "connect"}
INVARIANTS ResponseIntact PoolClean
CHECK_DEADLOCK FALSE
