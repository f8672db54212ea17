CONSTANTS
  Clients = {1, 2}
  Miners = {3, 4}
  Uppers = {3}
  MaxUint = 7
  Hash <- MCHash
SPECIFICATION Spec
INVARIANTS TypeOK NeverPanics WorkConserving
PROPERTIES JobServerSafety EveryRequestServed
CHECK_DEADLOCK FALSE
