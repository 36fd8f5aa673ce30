SPECIFICATION FairSpec
CONSTANTS
  t1 = t1
  t2 = t2
  null = null
  i1 = i1
  bad = bad
  absent = absent
  m1 = m1
  m2 = m2
  badMethod = badMethod
  notObject = notObject
  NoTransport = NoTransport
  Transports <- MCTransports
  Swaps <- MCTransports
  Ids <- MCIds
  NullId = null
  BadId = bad
  Absent = absent
  Methods <- MCMethods
  BadMethod = badMethod
  NotObject = notObject
  Documents <- ServerDocs
  OutBatches = {}
  HandlerArgs = {"set"}
  Preprocessing = FALSE
  MayDrainEarly = FALSE
  MayDestroy = "never"
  MaxArrivals = 2
  MaxCalls = 0
  MaxWire = 0
  MaxDepth = 2
INVARIANTS
  AnswersConserved
  RightAnswers
  BatchAnsweredWhole
  PendingCountsOpen
PROPERTIES
  AnswersEveryDocument
