CONSTANTS
  Clients = {1, 2}
  WindowSize = 1
  EpochLimit = 2
  MaxPosted = 1
  MaxWrites = 1
  MaxData = 1
  MaxReads = 1
SPECIFICATION Spec
PROPERTIES CloseEnds
CHECK_DEADLOCK FALSE
