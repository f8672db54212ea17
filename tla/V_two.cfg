CONSTANTS
  Clients = {1, 2}
  WindowSize = 1
  EpochLimit = 2
  MaxPosted = 1
  MaxWrites = 2
  MaxData = 1
  MaxReads = 1
SPECIFICATION SafetyAnyId
INVARIANTS NoLostWakeup CloseNotForgotten
CHECK_DEADLOCK FALSE
