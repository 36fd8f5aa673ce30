SPECIFICATION Spec
CONSTANTS
  t1 = t1
  t2 = t2
  null = null
  i1 = i1
  bad = bad
  absent = absent
  m1 = m1
  m2 = m2
  badMethod = badMethod
  notObject = notObject
  NoTransport = NoTransport
  Transports <- MCTransports
  Swaps <- MCDetaching
  Ids <- MCIds
  NullId = null
  BadId = bad
  Absent = absent
  Methods <- MCOneMethod
  BadMethod = badMethod
  NotObject = notObject
  Documents <- EdgeDocs
  OutBatches = {}
  HandlerArgs = {"set", "null"}
  Preprocessing = TRUE
  MayDrainEarly = TRUE
  MayDestroy = "ever"
  MaxArrivals = 2
  MaxCalls = 0
  MaxWire = 2
  MaxDepth = 2
INVARIANTS
  TypeOK
  RightAnswers
PROPERTIES
  ImplementsExchange
  
CHECK_DEADLOCK FALSE
