SPECIFICATION ApiSpec
CONSTANTS
  c1 = c1
  p1 = p1
  api = api
  worker = worker
  None = None
  Nobody = Nobody
  Client <- OneClient
  Project <- OneProject
  SendBuffer = 1
  MaxUpdates = 2
  Process <- ApiAndWorker
  Api = api
  Files = 2
  MaxCuts = 1
  MaxLosses = 2
CHECK_DEADLOCK FALSE
ACTION_CONSTRAINT OpeningFirst
INVARIANTS
  MigratedInOrder
  StartsTogether
  HeardInFull
PROPERTIES
  ImplementsFeed
  HeardReachesBrowser
  ListensAgain
  SignalEndsProcess
