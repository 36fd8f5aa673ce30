SPECIFICATION Spec
CONSTANTS
  t1 = t1
  t2 = t2
  null = null
  i1 = i1
  bad = bad
  absent = absent
  m1 = m1
  m2 = m2
  badMethod = badMethod
  notObject = notObject
  NoTransport = NoTransport
  Transports <- MCTransports
  Swaps <- MCDetaching
  Ids <- MCIds
  NullId = null
  BadId = bad
  Absent = absent
  Methods <- MCOneMethod
  BadMethod = badMethod
  NotObject = notObject
  Documents <- PeerDocs
  OutBatches <- BatchSet
  HandlerArgs = {"set"}
  Preprocessing = FALSE
  MayDrainEarly = FALSE
  MayDestroy = "detached"
  MaxArrivals = 2
  MaxCalls = 2
  MaxWire = 2
  MaxDepth = 2
INVARIANTS
  EachCallOnce
  AcceptedSentOnce
  ResponsesInOrder
  NoUseAfterFree
PROPERTIES
  ImplementsExchange
CHECK_DEADLOCK FALSE
