CONSTANTS
  WindowSize = 1
  EpochLimit = 2
  ReqCap = 12
  ReplyCap = 12
  OverCap = 2
  MaxWaiting = 1
  MaxWrites = 0
  MaxData = 1
  MaxReads = 2
SPECIFICATION Spec
PROPERTIES ReadReturnsAfterLoss
CHECK_DEADLOCK FALSE
