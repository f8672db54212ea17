CONSTANTS
  Clients = {1}
  Miners = {2, 3, 4}
  Uppers = {6}
  MaxUint = 7
  Hash <- MCHash
SPECIFICATION Safety
INVARIANTS AnswerSoFar
CHECK_DEADLOCK FALSE
