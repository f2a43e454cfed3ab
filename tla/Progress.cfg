SPECIFICATION ProgressSpec
CONSTANTS
  Event = {m1, m2, m3}
  Umo = Umo
  MaxSteps = 2
  Server = {s1, s2}
  Configured = {s1}
  Admin = {d1, d2}
  Client = {c1, c2, c3, c4}
  NoServer = NoServer
  NoClient = NoClient
  MaxRequests = 3
  MaxMessages = 2
  MaxRemovals = 1
  MaxNotices = 1
  BackSize = 1
  MaxChunks = 1
INVARIANTS
  ProgressTypeOK
  ServedInOrder
  AnsweredOnce
  ListedIsRegistered
  OneStart
  FileAndRegistryAgree
  QueueServed
  BackQueueReleased
PROPERTIES
  MessageEnds
  EveryRequestEnds
  ExchangeEnds
CHECK_DEADLOCK FALSE
