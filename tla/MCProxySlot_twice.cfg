SPECIFICATION Spec
CONSTANTS
  Scripts <- PostTwo
  Responses <- Plain
  MaxUp = 2
  PoolMax = 1
  BufMax = 3
  HeaderCap = 4
  Budget = 16
  Faults = {"late"}
INVARIANT OneUpstream
CHECK_DEADLOCK FALSE
