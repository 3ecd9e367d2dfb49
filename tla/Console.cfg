SPECIFICATION MCSpec
CONSTANTS
  Strategies = {"s"}
  Operators = {"alice", "bob", "demo"}
  DemoActors = {"demo"}
  Txs = {1, 2}
  MaxVersion = 2
  Clients = {"c", "d"}
  Requests = {1, 2}
  Principals = {"alice", "bob"}
  MaxFailures = 1
  GlobalMaxFailures = 2
  MemoryMaxBuckets = 2
  SessionTtl = 2
  MaxAttempts = 3
  MaxTime = 3
  Panels = {"p", "q"}
  MaxLoads = 2
  MaxServerState = 2
  MaxRow = 4
  Backlog = 2
  PageSize = 2
  RestRows = 2
  MaxRender = 3
  Gets = {1, 2}
  Worlds <- MCWorlds
  Symbols = {1, 2}
  ScanLimit = 2
  MaxChanges = 2
  MaxClock = 400
  Foci = {"governance", "limiter", "flood", "session", "desk", "engines"}
INVARIANTS RegistrySound NoWaitCycle LoginsBounded DeskHonest
PROPERTIES ActorIsCurrent
CHECK_DEADLOCK FALSE
