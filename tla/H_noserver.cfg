CONSTANTS
  Addrs = {c1}
  EpochLimit = 2
  MaxConn = 1
SPECIFICATION ClientSpec
PROPERTIES NewClientReturnsAnyway
CHECK_DEADLOCK FALSE
