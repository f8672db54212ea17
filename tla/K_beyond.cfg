CONSTANTS
  Data = {a}
  WindowSize = 1
  MaxWrites = 2
  EpochLimit = 2
CHECK_DEADLOCK FALSE
SPECIFICATION SafetyClosing
INVARIANTS BanAccepted
