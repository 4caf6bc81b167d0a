SPECIFICATION HubSpec
CONSTANTS
  c1 = c1
  c2 = c2
  p1 = p1
  p2 = p2
  None = None
  Client <- TwoClients
  Project <- TwoProjects
  SendBuffer = 1
  MaxUpdates = 2
CHECK_DEADLOCK FALSE
INVARIANTS
  HubTypeOK
  NoPanic
  ReceivedInOrder
  NothingDropped
  ClosedIsEmpty
PROPERTIES
  NoLeak
  Delivered
  ShutdownEndsConnections
