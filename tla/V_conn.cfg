CONSTANTS
  Clients = {1}
  WindowSize = 1
  EpochLimit = 2
  MaxPosted = 2
  MaxWrites = 1
  MaxData = 1
  MaxReads = 2
SPECIFICATION ReaderSpec
PROPERTIES CloseConnReported
CHECK_DEADLOCK FALSE
