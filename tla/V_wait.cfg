CONSTANTS
  Clients = {1, 2}
  WindowSize = 1
  EpochLimit = 2
  MaxPosted = 2
  MaxWrites = 2
  MaxData = 1
  MaxReads = 2
SPECIFICATION Safety
INVARIANTS NoNilConnect CloseWaitsForAcks
CHECK_DEADLOCK FALSE
