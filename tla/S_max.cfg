CONSTANTS
  Clients = {1}
  Miners = {2}
  Uppers = {7}
  MaxUint = 7
  Hash <- MCHash
SPECIFICATION Spec
PROPERTIES EveryRequestServed
CHECK_DEADLOCK FALSE
