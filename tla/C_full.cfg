CONSTANTS
  WindowSize = 1
  EpochLimit = 2
  ReqCap = 2
  ReplyCap = 1
  OverCap = 2
  MaxWaiting = 2
  MaxWrites = 2
  MaxData = 2
  MaxReads = 1
SPECIFICATION Spec
PROPERTIES WriteGetsRoom
CHECK_DEADLOCK FALSE
