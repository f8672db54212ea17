CONSTANTS
  Data = {a}
  WindowSize = 2
  MaxWrites = 3
  EpochLimit = 2
CHECK_DEADLOCK FALSE
SPECIFICATION SpecClosing
INVARIANTS NothingForgotten OnceOnly
PROPERTIES ReceivesInWindow
