CONSTANTS
  client = client
  server = server
  RequestNames = {"Completion"}
  Peers <- MCPeers
  Methods <- MCMethods
  Requests <- MCRequests
  Notifications <- MCNotificationsSent
  RequestShape <- MCRequestShape
  HandlerShape <- MCHandlerShape
  Registrable <- MCRegistrable
  Signals <- MCSignals
  PartialResults <- MCPartialResults
  ProgressMethod <- MCProgressMethod
  IdCount = 2
  ExplicitIds = {1}
  Configuring <- MCConfiguring
  MaxSent = 2
  MaxConfigured = 1
  MaxGarbled = 1
SPECIFICATION FairSpec
CHECK_DEADLOCK FALSE
INVARIANT TypeOK
INVARIANT AnswerFindsItsCall
INVARIANT CallsAccounted
PROPERTY CallsComplete
PROPERTY ImplementsRemoteCalls
