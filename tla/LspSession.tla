----------------------------- MODULE LspSession -----------------------------
(***************************************************************************)
(* Two QLanguageServerProtocol objects that talk to each other: TypedRpc   *)
(* with its handlers and ids, ProtocolBase with what it does for methods   *)
(* that nobody handles, the functions of ProtocolGen, and the notification *)
(* handlers that QLspNotifySignals registers.                              *)
(*                                                                         *)
(* TypedRpc sends single messages only.  QJsonRpcProtocol has nothing left *)
(* to do when the handler of a single message returns, so a handler that   *)
(* sends or answers, or lets the next message in, is a step that follows   *)
(* the one in which it is called.                                          *)
(***************************************************************************)
EXTENDS Integers, Sequences, FiniteSets

CONSTANTS
  Peers,          \* the two ends
  Methods,        \* method names
  Requests,       \* by end: methods that its application sends requests under
  Notifications,  \* by end: methods that it sends notifications under
  RequestShape,   \* by method: what requestX takes as a result; "any" for a
                  \* method of a notification, sent with TypedRpc
  HandlerShape,   \* by method: what the handler of registerX gives, "none"
                  \* for a notification
  Registrable,    \* methods that have a register function
  Signals,        \* methods that have a signal
  PartialResults, \* methods whose handlers may send partial results
  ProgressMethod, \* the method that partial results are sent under
  IdCount,        \* the number of values of m_lastId
  ExplicitIds,    \* ids that the application sends requests with
  Configuring,    \* ends whose application registers handlers
  MaxSent,        \* bound: requests and notifications
  MaxConfigured,  \* bound: handlers of an end
  MaxGarbled      \* bound: messages that arrive as something else

Ids == (0 .. IdCount - 1) \cup ExplicitIds
NoId == -1
Nothing == "nothing"
ErrorCodes == {"InvalidRequest", "MethodNotFound", "InternalError",
               "ParseError", "RequestFailed"}
\* A value of the type of the result, null, and a value of another type.
Data == {"value", "null", "other"}
Shapes == {"void", "nullable", "list", "plain", "any"}

ASSUME SessionAssumption ==
  /\ IsFiniteSet(Peers) /\ Cardinality(Peers) = 2
  /\ RequestShape \in [Methods -> Shapes]
  /\ HandlerShape \in [Methods -> Shapes \cup {"none"}]
  \* requestX and registerX are generated for the same type of result.
  /\ \A m \in Methods : HandlerShape[m] \in {RequestShape[m], "none"}
  /\ Requests \in [Peers -> SUBSET Methods]
  /\ Notifications \in [Peers -> SUBSET Methods]
  /\ Registrable \subseteq Methods /\ PartialResults \subseteq Methods
  /\ Signals \subseteq {m \in Registrable : HandlerShape[m] = "none"}
  /\ ProgressMethod \in Methods /\ Configuring \subseteq Peers
  /\ IdCount \in Nat \ {0}
  /\ MaxSent \in Nat /\ MaxConfigured \in Nat /\ MaxGarbled \in Nat

VARIABLES
  handlers,     \* m_handlers: the kind of handler, or "none"
  undispatched, \* which of the two undispatched handlers are set
  connected,    \* the signals that something is connected to
  lastId,       \* m_lastId
  pending,      \* m_pendingRequests: id -> number of the message, or 0
  wire,         \* messages on their way to each end
  sent,         \* history: the requests and notifications, what became of
                \* each and what the sender of a request was told
  garbled       \* history: messages that are lost

vars == <<handlers, undispatched, connected, lastId, pending, wire, sent,
          garbled>>
configVars == <<handlers, undispatched, connected>>

Other(p) == CHOOSE q \in Peers : q # p

Request(m, id, k) ==
  [kind |-> "request", method |-> m, id |-> id, number |-> k]
Notification(m, k) == [kind |-> "notification", method |-> m, number |-> k]
Response(id, data, k) ==
  [kind |-> "response", id |-> id, data |-> data, number |-> k]
Garbage == [kind |-> "garbage"]
ParseErrorAnswer == [kind |-> "parseErrorAnswer"]

----------------------------------------------------------------------------
(* Registration. *)

\* Mutant: the function for a notification registers a request handler.
MutantHandlerKind(m) == "request"
\* What the register function of a method passes to TypedRpc.
HandlerKind(m) ==
  IF HandlerShape[m] = "none" THEN "notification" ELSE "request"

\* registerRequestHandler and registerNotificationHandler refuse a second
\* handler (builds with assertions stop there) but not a null one.
Registered(table, m, h) ==
  IF table[m] # "none" /\ h # "null" THEN table
  ELSE [table EXCEPT ![m] = h]

Configured(p) ==
  Cardinality({m \in Methods : handlers[p][m] # "none"})
    + Cardinality(undispatched[p])

RegisterHandler(p, m, h) ==
  /\ handlers' = [handlers EXCEPT ![p] = Registered(@, m, h)]
  /\ UNCHANGED <<undispatched, connected>>

\* QLspNotifySignals::registerHandlers.
RegisterSignals(p) ==
  /\ handlers' = [handlers EXCEPT ![p] =
                    [m \in Methods |->
                       IF m \in Signals THEN Registered(@, m, "signal")[m]
                                        ELSE @[m]]]
  /\ UNCHANGED <<undispatched, connected>>

ConnectSignals(p, signals) ==
  /\ connected' = [connected EXCEPT ![p] = signals]
  /\ UNCHANGED <<handlers, undispatched>>

\* registerUndispatchedRequestHandler, ...NotificationHandler; a null handler
\* takes the one before it away, another one takes its place (builds with
\* assertions stop there).
RegisterUndispatched(p, kind, h) ==
  /\ undispatched' = [undispatched EXCEPT ![p] =
                        IF h = "null" THEN @ \ {kind} ELSE @ \cup {kind}]
  /\ UNCHANGED <<handlers, connected>>

Configure(p) ==
  /\ p \in Configuring
  /\ \/ \E m \in Registrable : \E h \in {HandlerKind(m), "null"} :
          RegisterHandler(p, m, h)
     \/ RegisterSignals(p)
     \/ \E signals \in SUBSET Signals : ConnectSignals(p, signals)
     \/ \E kind \in {"request", "notification"}, h \in {"set", "null"} :
          RegisterUndispatched(p, kind, h)
  /\ Configured(p)' <= MaxConfigured
  /\ UNCHANGED <<lastId, pending, wire, sent, garbled>>

----------------------------------------------------------------------------
(* Sending. *)

Number == Len(sent) + 1

\* The responder of a request has its id, too.
Sent(p, kind, id, m, outcome) ==
  [from |-> p, kind |-> kind, id |-> id, method |-> m, by |-> Nothing,
   answer |-> Nothing, outcome |-> outcome]

\* Mutant: the map is not searched before the insertion.
MutantFree(p, id) == id \in Ids
\* addPendingRequest fails for an id that is in the map.
Free(p, id) == pending[p][id] = 0

\* sendRequestId: a request whose id is taken is told so at once.
SendRequestId(p, id, m) ==
  /\ Number <= MaxSent
  /\ IF Free(p, id)
     THEN /\ pending' = [pending EXCEPT ![p][id] = Number]
          /\ wire' = [wire EXCEPT ![Other(p)] =
                        Append(@, Request(m, id, Number))]
          /\ sent' = Append(sent, Sent(p, "request", id, m, Nothing))
     ELSE /\ sent' = Append(sent, Sent(p, "request", id, m, "InvalidRequest"))
          /\ UNCHANGED <<pending, wire>>
  /\ UNCHANGED <<configVars, garbled>>

SendRequestWithId(p, id, m) ==
  /\ id \in ExplicitIds
  /\ SendRequestId(p, id, m)
  /\ UNCHANGED lastId

NextId(p) == (lastId[p] + 1) % IdCount

\* TypedRpc::sendRequest, requestX.
SendRequest(p, m) ==
  /\ SendRequestId(p, NextId(p), m)
  /\ lastId' = [lastId EXCEPT ![p] = NextId(p)]

\* TypedRpc::sendNotification, notifyX.
SendNotification(p, m) ==
  /\ Number <= MaxSent
  /\ wire' = [wire EXCEPT ![Other(p)] = Append(@, Notification(m, Number))]
  /\ sent' = Append(sent, Sent(p, "notification", NoId, m, Nothing))
  /\ UNCHANGED <<configVars, lastId, pending, garbled>>

----------------------------------------------------------------------------
(* Receiving. *)

Incoming(p, kind) == wire[p] # <<>> /\ Head(wire[p]).kind = kind

\* The next message to p is taken; p sends some.
Exchange(p, messages) ==
  wire' = [wire EXCEPT ![p] = Tail(@), ![Other(p)] = @ \o messages]

\* TypedHandler::handleRequest, or the default handler of ProtocolBase.
Handles(p, m) ==
  CASE handlers[p][m] = "request" -> "handler"
    [] handlers[p][m] = "none" /\ "request" \in undispatched[p] -> "other"
    [] OTHER -> "nobody"

\* Mutant: a null handler does not answer.
MutantUnhandled(p, message) ==
  IF handlers[p][message.method] = "none"
  THEN <<Response(message.id, "MethodNotFound", message.number)>>
  ELSE <<>>
\* What nobody handles is answered at once: by the undispatched request
\* handler of ProtocolBase, or by a handler that is for notifications or null.
Unhandled(p, message) ==
  <<Response(message.id,
             IF handlers[p][message.method] = "none" THEN "MethodNotFound"
                                                     ELSE "InvalidRequest",
             message.number)>>

TakeRequest(p) ==
  /\ Incoming(p, "request")
  /\ LET message == Head(wire[p])
         by == Handles(p, message.method)
         answers == IF by = "nobody" THEN Unhandled(p, message) ELSE <<>>
         answer == IF answers = <<>> THEN Nothing ELSE answers[1].data
     IN  /\ Exchange(p, answers)
         /\ sent' = [sent EXCEPT ![message.number].by = by,
                                 ![message.number].answer = answer]
  /\ UNCHANGED <<configVars, lastId, pending, garbled>>

\* TypedHandler::handleNotification, the lambda of QLspNotifySignals, or the
\* default handler of ProtocolBase.
Hears(p, m) ==
  LET rest == IF "notification" \in undispatched[p] THEN "other" ELSE "nobody"
  IN  CASE handlers[p][m] = "notification" -> "handler"
        [] handlers[p][m] = "signal" ->
             IF m \in connected[p] THEN "handler" ELSE rest
        [] handlers[p][m] = "none" -> rest
        [] OTHER -> "nobody"

TakeNotification(p) ==
  /\ Incoming(p, "notification")
  /\ LET message == Head(wire[p])
     IN  sent' = [sent EXCEPT ![message.number].by = Hears(p, message.method)]
  /\ Exchange(p, <<>>)
  /\ UNCHANGED <<configVars, lastId, pending, garbled>>

\* The data that a type of the shape can hold.
Fitting(shape) ==
  CASE shape = "void" -> {"null"}
    [] shape = "nullable" -> {"value", "null"}
    [] shape \in {"list", "plain"} -> {"value"}
    [] shape = "any" -> Data

\* Mutant: null is no result.
MutantDecoded(shape, data) ==
  CASE data \in ErrorCodes -> {data}
    [] data = "value" -> {"result"}
    [] OTHER -> {"ParseError"}

\* decodeAndCall.  A list is read from whatever is no array, and an object
\* whose members may be missing from anything; an array whose elements do not
\* fit fails.  That the value is the one that was sent is not said.
Decoded(shape, data) ==
  CASE data \in ErrorCodes -> {data}
    [] data \in Fitting(shape) -> {"result"}
    [] shape = "list" /\ data = "null" -> {"result"}
    [] shape = "void" /\ data \in Data \ Fitting(shape) -> {"ParseError"}
    [] OTHER -> {"result", "ParseError"}

\* Mutant: the entry stays in the map.
MutantForget(p, id) == pending
Forget(p, id) == [pending EXCEPT ![p][id] = 0]

\* The response handler of requestX, or the handler for responses that nobody
\* waits for, which only reports.
TakeResponse(p) ==
  /\ Incoming(p, "response")
  /\ LET message == Head(wire[p])
         k == pending[p][message.id]
     IN  IF k = 0 THEN UNCHANGED <<pending, sent>>
         ELSE /\ pending' = Forget(p, message.id)
              /\ \E outcome \in Decoded(RequestShape[sent[k].method],
                                        message.data) :
                   sent' = [sent EXCEPT ![k].outcome = outcome]
  /\ Exchange(p, <<>>)
  /\ UNCHANGED <<configVars, lastId, garbled>>

\* A body that cannot be parsed is reported to handleResponseError by the
\* diagnostic handler and answered with id null, which ProtocolBase has no
\* handler for.
TakeGarbage(p) ==
  /\ Incoming(p, "garbage")
  /\ Exchange(p, <<ParseErrorAnswer>>)
  /\ UNCHANGED <<configVars, lastId, pending, sent, garbled>>

TakeParseErrorAnswer(p) ==
  /\ Incoming(p, "parseErrorAnswer")
  /\ Exchange(p, <<>>)
  /\ UNCHANGED <<configVars, lastId, pending, sent, garbled>>

Take(p) ==
  \/ TakeRequest(p) \/ TakeNotification(p) \/ TakeResponse(p)
  \/ TakeGarbage(p) \/ TakeParseErrorAnswer(p)

\* What carries the messages spoils one.
Garble(p) ==
  /\ Cardinality(garbled) < MaxGarbled
  /\ wire[p] # <<>>
  /\ Head(wire[p]).kind \in {"request", "notification", "response"}
  /\ garbled' = garbled \cup {Head(wire[p]).number}
  /\ wire' = [wire EXCEPT ![p][1] = Garbage]
  /\ UNCHANGED <<configVars, lastId, pending, sent>>

----------------------------------------------------------------------------
(* Answering. *)

Held(p, k) ==
  /\ sent[k].from = Other(p) /\ sent[k].kind = "request"
  /\ sent[k].by \in {"handler", "other"} /\ sent[k].answer = Nothing

\* A handler gives a value of its type, an error, or drops its response,
\* which is InternalError; the undispatched handler may send anything.
Answers(k) ==
  IF sent[k].by = "other" THEN Data ELSE Fitting(HandlerShape[sent[k].method])

Answer(p, k) ==
  /\ Held(p, k)
  /\ \E data \in Answers(k) \cup {"RequestFailed", "InternalError"} :
       /\ sent' = [sent EXCEPT ![k].answer = data]
       /\ wire' = [wire EXCEPT ![Other(p)] =
                     Append(@, Response(sent[k].id, data, k))]
  /\ UNCHANGED <<configVars, lastId, pending, garbled>>

\* sendPartialResponse, which a response can do when it has been sent, too.
SendPartialResponse(p, k) ==
  /\ sent[k].from = Other(p) /\ sent[k].kind = "request"
  /\ sent[k].by = "handler" /\ sent[k].method \in PartialResults
  /\ SendNotification(p, ProgressMethod)

----------------------------------------------------------------------------

Init ==
  /\ handlers = [p \in Peers |-> [m \in Methods |-> "none"]]
  /\ undispatched = [p \in Peers |-> {}]
  /\ connected = [p \in Peers |-> {}]
  /\ lastId = [p \in Peers |-> 0]
  /\ pending = [p \in Peers |-> [id \in Ids |-> 0]]
  /\ wire = [p \in Peers |-> <<>>]
  /\ sent = <<>> /\ garbled = {}

Next ==
  \E p \in Peers :
    \/ Configure(p)
    \/ \E m \in Requests[p] :
         \/ SendRequest(p, m)
         \/ \E id \in ExplicitIds : SendRequestWithId(p, id, m)
    \/ \E m \in Notifications[p] : SendNotification(p, m)
    \/ Take(p)
    \/ Garble(p)
    \/ \E k \in DOMAIN sent : Answer(p, k) \/ SendPartialResponse(p, k)

Spec == Init /\ [][Next]_vars

\* Data that has come in is read; a handler answers in the end, if only by
\* dropping its response.
Fairness ==
  \A p \in Peers :
    /\ WF_vars(Take(p))
    /\ \A k \in 1..MaxSent : WF_vars(k \in DOMAIN sent /\ Answer(p, k))

FairSpec == Spec /\ Fairness
=============================================================================
