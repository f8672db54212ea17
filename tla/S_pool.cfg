CONSTANTS
  Clients = {1}
  Miners = {2, 3, 4}
  Uppers = {6}
  MaxUint = 15
  Hash <- MCHash
SPECIFICATION Safety
INVARIANTS SharesCounted AnswerSoFar SharesDisjoint NoShareForgotten
CHECK_DEADLOCK FALSE
