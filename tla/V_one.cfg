CONSTANTS
  Clients = {1}
  WindowSize = 2
  EpochLimit = 2
  MaxPosted = 2
  MaxWrites = 4
  MaxData = 3
  MaxReads = 4
SPECIFICATION Safety
INVARIANTS TypeOK NoNilConnect CloseWaitsForAcks ReadsInOrder LossReportedOnce
CHECK_DEADLOCK FALSE
