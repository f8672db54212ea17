CONSTANTS
  WindowSize = 2
  EpochLimit = 2
  ReqCap = 12
  ReplyCap = 12
  OverCap = 2
  MaxWaiting = 1
  MaxWrites = 4
  MaxData = 2
  MaxReads = 3
SPECIFICATION Safety
INVARIANTS CloseWaitsForAcks CloseNotForgotten ExitFits NoLostWakeup LossHeard ReadsInOrder
CHECK_DEADLOCK FALSE
