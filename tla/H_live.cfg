CONSTANTS
  Addrs = {c1}
  EpochLimit = 3
  MaxConn = 2
SPECIFICATION Spec
PROPERTIES EventuallyConnected
CHECK_DEADLOCK FALSE
