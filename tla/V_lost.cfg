CONSTANTS
  Clients = {1}
  WindowSize = 2
  EpochLimit = 2
  MaxPosted = 2
  MaxWrites = 1
  MaxData = 2
  MaxReads = 2
SPECIFICATION Safety
INVARIANTS LossReportedLast
CHECK_DEADLOCK FALSE
