CONSTANTS
  MessageSize = 2
  Room = 2
SPECIFICATION Spec
CHECK_DEADLOCK FALSE
INVARIANT WholeMessageIsAccepted
