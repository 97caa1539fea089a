CONSTANTS
  Conns = {c1, c2}
  NoConn = NoConn
  MaxNumberClients = 1
  MessageSize = 2
  MaxStarts = 1
  Faults = {"select", "emfile"}
SPECIFICATION FairSpec
CHECK_DEADLOCK FALSE
INVARIANT RunsUntilStop
PROPERTIES StopReturns DeadPeerFreesSlot PendingServed
