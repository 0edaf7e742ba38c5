SPECIFICATION FairSpec
CONSTANTS
  UMax = 255
  Scripts <- SomeScripts
  HeaderCap = 17
  ReadTime = 2
  SendTime = 2
  KeepTime = 1
  BumpSize = 12288
  PathMax = 4096
  HdrSize = 256
  LocSize = 3900
INVARIANTS AnswersInOrder NothingForgotten EarlyVerdictFinal ArenaSuffices
PROPERTIES DeadlineFixed Closes
CHECK_DEADLOCK FALSE
