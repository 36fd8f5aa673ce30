SPECIFICATION FairSpec
CONSTANTS
  n1 = n1
  n2 = n2
  s1 = s1
  s2 = s2
  Requests = {n1, n2}
  Slots = {s1, s2}
  Actions = {"a", "b"}
  NoRequest = "none"
  RpcAction = TRUE
  MayOverwrite = FALSE
  MayMoveClosers = FALSE
  MaxDepth = 4
INVARIANTS
  TypeOK
  AnsweredOnce
  HeldOrAnswered
  ClosersRun
PROPERTIES
  EveryRequestAnswered
CHECK_DEADLOCK FALSE
