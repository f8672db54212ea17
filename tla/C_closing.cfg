CONSTANTS
  WindowSize = 1
  EpochLimit = 2
  ReqCap = 12
  ReplyCap = 12
  OverCap = 2
  MaxWaiting = 1
  MaxWrites = 1
  MaxData = 0
  MaxReads = 0
SPECIFICATION Spec
PROPERTIES CloseAlwaysReturns
CHECK_DEADLOCK FALSE
