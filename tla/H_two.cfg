CONSTANTS
  Addrs = {c1, c2}
  EpochLimit = 3
  MaxConn = 3
SPECIFICATION SafetyHeard
SYMMETRY Symmetry
INVARIANTS TypeOK MapsAgree AdoptedId OthersReadRight
PROPERTIES EstablishedKept
CHECK_DEADLOCK FALSE
