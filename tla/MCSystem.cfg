CONSTANTS
  Conns = {c1, c2}
  NoConn = NoConn
  MaxNumberClients = 1
  MessageSize = 1
  MaxStarts = 1
  Faults = {}
  Stops = {}
  StopsOverlap = FALSE
  ClientFaults = {}
SPECIFICATION FairSystemSpec
CHECK_DEADLOCK FALSE
INVARIANTS AnswersAreEarned EndsAreNoticed OnlyDelaysHoldUp
PROPERTIES ImplementsExchange ServerStopEndsCalls EndOfCallEndsService PeersClose
