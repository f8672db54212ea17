CONSTANTS
  Data = {a}
  WindowSize = 3
  MaxWrites = 3
SPECIFICATION Spec
INVARIANTS WindowBound RetransmitAccepted UnackedIsAckable
PROPERTIES StreamSpec
