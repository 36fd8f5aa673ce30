SPECIFICATION Spec
CONSTANTS
  t1 = t1
  t2 = t2
  null = null
  i1 = i1
  bad = bad
  absent = absent
  m1 = m1
  m2 = m2
  badMethod = badMethod
  notObject = notObject
  NoTransport = NoTransport
  Transports <- MCTransports
  Swaps <- MCOneTransport
  Ids <- MCIds
  NullId = null
  BadId = bad
  Absent = absent
  Methods <- MCMethods
  BadMethod = badMethod
  NotObject = notObject
  Documents <- ServerDocs
  OutBatches = {}
  HandlerArgs = {"set"}
  Preprocessing = FALSE
  MayDrainEarly = TRUE
  MayDestroy = "never"
  MaxArrivals = 2
  MaxCalls = 0
  MaxWire = 0
  MaxDepth = 2
INVARIANTS
  NoUseAfterFree
