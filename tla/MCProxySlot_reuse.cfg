SPECIFICATION Spec
CONSTANTS
  Scripts <- ReuseScripts
  Responses <- ReuseResponses
  MaxUp = 2
  PoolMax = 1
  BufMax = 3
  HeaderCap = 4
  Budget = 16
  Faults = {"epoll", "connect"}
INVARIANTS OneUpstream ResponseIntact RequestIntact PostOnce WaitsForNeed BadGatewayForCause
CHECK_DEADLOCK FALSE
