CONSTANTS
  Clients = {1}
  WindowSize = 1
  EpochLimit = 2
  MaxPosted = 2
  MaxWrites = 2
  MaxData = 1
  MaxReads = 1
SPECIFICATION SafetyAnyId
INVARIANTS NoNilConnect
CHECK_DEADLOCK FALSE
