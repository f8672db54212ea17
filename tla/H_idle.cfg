CONSTANTS
  Addrs = {c1}
  EpochLimit = 3
  MaxConn = 2
SPECIFICATION SafetyHeard
PROPERTIES LiveClientKept
CHECK_DEADLOCK FALSE
