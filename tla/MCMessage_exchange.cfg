CONSTANTS
  MessageSize = 6
  Room = 4
SPECIFICATION FairSpec
CHECK_DEADLOCK FALSE
INVARIANTS
  Conserved
  AcceptedIsWhole
PROPERTIES
  StepsRunOut
  ReaderEnds
