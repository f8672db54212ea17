CONSTANTS
  Clients = {1}
  Miners = {2, 3}
  Uppers = {1}
  MaxUint = 7
  Hash <- MCHash
SPECIFICATION Spec
PROPERTIES EveryRequestServed
CHECK_DEADLOCK FALSE
