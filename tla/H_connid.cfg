CONSTANTS
  Addrs = {c1, c2}
  EpochLimit = 3
  MaxConn = 2
SPECIFICATION SafetyNoLoss
INVARIANTS ReadNamesSender
CHECK_DEADLOCK FALSE
