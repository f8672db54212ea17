CONSTANTS
  Data = {a, b}
  WindowSize = 2
  MaxWrites = 3
SPECIFICATION Spec
INVARIANTS TypeOK WindowBound RetransmitAccepted AckedWasReceived OnceOnly UnackedIsAckable NoLostWakeup
PROPERTIES StreamSafety StreamSpec
