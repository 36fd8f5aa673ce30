-------------------------- MODULE JsonRpcProtocol --------------------------
(***************************************************************************)
(* One endpoint of a JSON-RPC 2.0 connection: QJsonRpcProtocol, its        *)
(* private class and the RequestBatchHandler objects it allocates          *)
(* (src/jsonrpc/qjsonrpcprotocol.cpp, qjsonrpcprotocol_p_p.h).             *)
(*                                                                         *)
(* The class is single-threaded, and it calls user code in the middle of   *)
(* three of its loops: the items of a received request batch, the          *)
(* elements of a received response array, the items of a batch being sent. *)
(* User code may call any operation of the class again, or run an event    *)
(* loop that delivers the next message, before it returns into the loop.   *)
(* The loops that are in progress are therefore kept on an explicit stack; *)
(* only the top one advances, and user code runs only while the top loop   *)
(* has handed control out.  A handler that answers before it returns and   *)
(* one that answers later are both behaviours of action Reply.             *)
(***************************************************************************)
EXTENDS Integers, Sequences, FiniteSets

CONSTANTS
  Transports,    \* the QJsonRpcTransport objects
  NoTransport,   \* the null pointer
  Swaps,         \* what the application passes to setTransport
  Ids,           \* ids of an accepted type: null, numbers, strings
  NullId,        \* the id null
  BadId,         \* an id of any other JSON type
  Absent,        \* a member that is not there (QJsonValue::Undefined)
  Methods,       \* method names
  BadMethod,     \* a "method" member that is not a string
  NotObject,     \* an array element that is not a JSON object
  Documents,     \* the documents a peer may send, see DocumentType
  OutBatches,    \* the batches the application may send: sequences of ids
  HandlerArgs,   \* what setMessageHandler is called with
  Preprocessing, \* a message preprocessor that may return Stop is installed
  MayDrainEarly, \* a batch may be answered in full while it is still read
  MayDestroy,    \* the object is destroyed: "never"; "detached", only without
                 \* transport and with no single request open; or "ever"
  MaxArrivals,   \* bound: documents received
  MaxCalls,      \* bound: the application sends while it has sent fewer
  MaxWire,       \* bound: and while fewer messages are on the wire
  MaxDepth       \* bound: nested loops

NoCall == 0
AnyId == Ids \cup {BadId, Absent}
Object == [id : AnyId, method : Methods \cup {BadMethod, Absent}]
Item == Object \cup {NotObject}

\* A QJsonDocument with its QJsonParseError: text that does not parse, one
\* object (items has length 1), an array, or neither of the two.
DocumentType == {"error", "object", "array", "other"}
Document == [type : DocumentType, items : Seq(Item)]

ASSUME ConstantsAssumption ==
  /\ NoTransport \notin Transports
  /\ Swaps \subseteq Transports \cup {NoTransport}
  /\ NullId \in Ids
  /\ BadId \notin Ids /\ Absent \notin Ids /\ BadId # Absent
  /\ Methods \cap {BadMethod, Absent} = {} /\ BadMethod # Absent
  /\ NotObject \notin Object
  /\ Documents \subseteq Document
  /\ \A doc \in Documents : doc.type = "object" =>
        Len(doc.items) = 1 /\ doc.items[1] # NotObject
  /\ OutBatches \subseteq Seq(AnyId)
  /\ HandlerArgs \subseteq {"set", "null"}
  /\ Preprocessing \in BOOLEAN /\ MayDrainEarly \in BOOLEAN
  /\ MayDestroy \in {"never", "detached", "ever"}
  /\ MaxArrivals \in Nat /\ MaxCalls \in Nat
  /\ MaxWire \in Nat /\ MaxDepth \in Nat

VARIABLES
  alive,      \* the QJsonRpcProtocol has not been destroyed
  transport,  \* m_transport
  hooked,     \* the transports whose message handler calls this protocol
  handlers,   \* m_messageHandlers: "unset" is no entry, "null" an entry
              \* that holds a null pointer
  default,    \* m_defaultHandler is set
  pending,    \* m_pendingRequests: id -> number of the call, or NoCall
  stack,      \* the loops in progress, the top one first
  batch,      \* the RequestBatchHandler of each arrival
  open,       \* requests handed to user code and not answered, <<n, i>>
  fault,      \* the undefined behaviour the process has run into, if any
  received,   \* history: the documents received and where from
  calls,      \* history: each request sent and what its handler was told
  delivered,  \* history: responses processed and the call they went to
  wire        \* history: the messages sent and where to

vars == <<alive, transport, hooked, handlers, default, pending, stack, batch,
          open, fault, received, calls, delivered, wire>>
configVars == <<alive, transport, hooked, handlers, default>>
serverVars == <<batch, open, received>>
clientVars == <<pending, calls, delivered>>

---------------------------------------------------------------------------
\* Messages.  A body's ref tells what it is about and is not transmitted:
\* the call of a request, the received item <<n, i>> a response answers.

RequestBody(id, c) == [kind |-> "request", id |-> id, ref |-> <<c, 0>>]
NotificationBody == [kind |-> "notification", id |-> Absent, ref |-> <<0, 0>>]
ResponseBody(id, r) == [kind |-> "response", id |-> id, ref |-> r]

\* createInvalidRequestResponse and createParseErrorResponse: id null.
ErrorBody(r) == ResponseBody(NullId, r)

Message(t, array, bodies) == [to |-> t, array |-> array, bodies |-> bodies]

\* Mutant: the message is counted as sent although there is no transport.
MutantSendMessage(array, bodies) ==
  /\ wire' = Append(wire, Message(transport, array, bodies))
  /\ UNCHANGED fault

\* QJsonRpcProtocolPrivate::sendMessage dereferences m_transport unchecked.
SendMessage(array, bodies) ==
  /\ wire' = IF transport = NoTransport THEN wire
             ELSE Append(wire, Message(transport, array, bodies))
  /\ fault' = IF transport = NoTransport THEN "nullTransport" ELSE fault

ItemAt(r) == received[r[1]].doc.items[r[2]]

\* messageHandler(method) is not null: an entry counts even when it is null,
\* the default handler only when there is none.
HasHandler(method) ==
  IF handlers[method] = "unset" THEN default ELSE handlers[method] = "set"

HasMethod(item) == item.method # Absent
HasId(item) == item.id # Absent
IsRequest(item) == item # NotObject /\ item.method \in Methods /\ HasId(item)
IsNotification(item) ==
  item # NotObject /\ item.method \in Methods /\ ~HasId(item)

---------------------------------------------------------------------------
\* The stack of loops.

Frame(loop, n, items) ==
  [loop |-> loop, n |-> n, items |-> items, next |-> 1, array |-> <<>>,
   user |-> FALSE]

\* User code is running: no loop is in progress, or the top one called out.
InUser == fault = "none" /\ (stack # <<>> => Head(stack).user)
\* The application may use the protocol.
MayUse == InUser /\ alive

Running(loop) == fault = "none" /\ stack # <<>> /\ Head(stack).loop = loop
Top == Head(stack)
TopItem == Top.items[Top.next]
\* Mutant: off by one in the end of a loop.
MutantMore == Top.next < Len(Top.items)
More == Top.next <= Len(Top.items)

Enter(f) == Len(stack) < MaxDepth /\ stack' = <<f>> \o stack
Leave == stack' = Tail(stack)

\* The top loop goes to its next element; user tells whether the iteration
\* called user code, array is what it has built so far.
Advance(user, array) ==
  stack' = <<[Top EXCEPT !.next = @ + 1, !.user = user, !.array = array]>>
              \o Tail(stack)

---------------------------------------------------------------------------
\* The application's calls.

\* Mutant: the transport that is taken away keeps its message handler.
MutantSetTransport(t) ==
  /\ MayUse /\ t \in Swaps
  /\ transport' = t
  /\ hooked' = hooked \cup ({t} \ {NoTransport})
  /\ UNCHANGED <<alive, handlers, default, stack, fault, wire, serverVars,
                 clientVars>>

\* Setting the transport that is set already changes nothing.
SetTransport(t) ==
  /\ MayUse /\ t \in Swaps
  /\ transport' = t
  /\ hooked' = (hooked \ {transport}) \cup ({t} \ {NoTransport})
  /\ UNCHANGED <<alive, handlers, default, stack, fault, wire, serverVars,
                 clientVars>>

SetMessageHandler(m, h) ==
  /\ MayUse /\ h \in HandlerArgs
  /\ handlers' = [handlers EXCEPT ![m] = h]
  /\ UNCHANGED <<alive, transport, hooked, default, stack, fault, wire,
                 serverVars, clientVars>>

SetDefaultMessageHandler(h) ==
  /\ MayUse /\ h \in HandlerArgs
  /\ default' = (h = "set")
  /\ UNCHANGED <<alive, transport, hooked, handlers, stack, fault, wire,
                 serverVars, clientVars>>

IsHeldAlone(r) == received[r[1]].doc.type = "object"

\* The destructor is defaulted: it neither takes the message handler from the
\* transport nor calls the handlers that wait for a response.  The object is
\* not destroyed by one of its own callbacks.
Destroy ==
  /\ alive /\ fault = "none" /\ stack = <<>>
  /\ MayDestroy # "never"
  /\ MayDestroy = "detached" =>
        transport = NoTransport /\ \A r \in open : ~IsHeldAlone(r)
  /\ alive' = FALSE
  /\ UNCHANGED <<transport, hooked, handlers, default, stack, fault, wire,
                 serverVars, clientVars>>

\* Mutant: the map is not searched before the insertion.
MutantCanRegister(id) == id \in Ids

\* addPendingRequest succeeds for an id of an accepted type not in the map.
CanRegister(id) == id \in Ids /\ pending[id] = NoCall
NextCall == Len(calls) + 1
NewCall(id, rejected) == [id |-> id, answered |-> 0, rejected |-> rejected]

\* Register the handler under its id, or call it at once with an
\* InvalidRequest error.
Register(id) ==
  /\ IF CanRegister(id)
     THEN /\ pending' = [pending EXCEPT ![id] = NextCall]
          /\ calls' = Append(calls, NewCall(id, 0))
     ELSE /\ pending' = pending
          /\ calls' = Append(calls, NewCall(id, 1))
  /\ UNCHANGED delivered

\* The application sends only while a transport is set.  MaxCalls and MaxWire
\* bound what it starts: batches begun may take the calls over MaxCalls.
MayCall ==
  /\ MayUse /\ transport # NoTransport
  /\ Len(calls) < MaxCalls /\ Len(wire) < MaxWire

SendRequest(id) ==
  /\ MayCall
  /\ Register(id)
  /\ IF CanRegister(id)
     THEN SendMessage(FALSE, <<RequestBody(id, NextCall)>>)
     ELSE UNCHANGED <<wire, fault>>
  /\ UNCHANGED <<stack, configVars, serverVars>>

SendNotification ==
  /\ MayCall
  /\ SendMessage(FALSE, <<NotificationBody>>)
  /\ UNCHANGED <<stack, configVars, serverVars, clientVars>>

SendBatch(items) ==
  /\ MayCall
  /\ Enter(Frame("send", 0, items))
  /\ UNCHANGED <<fault, wire, configVars, serverVars, clientVars>>

---------------------------------------------------------------------------
\* The loop of sendBatch.  An item with no id is a notification.

SendBatchNotification ==
  /\ Running("send") /\ More /\ TopItem = Absent
  /\ Advance(FALSE, Append(Top.array, NotificationBody))
  /\ UNCHANGED <<fault, wire, configVars, serverVars, clientVars>>

\* Mutant: the rejected item goes into the array too.
MutantSendBatchRequest ==
  /\ Running("send") /\ More /\ TopItem # Absent
  /\ Register(TopItem)
  /\ Advance(~CanRegister(TopItem),
             Append(Top.array, RequestBody(TopItem, NextCall)))
  /\ UNCHANGED <<fault, wire, configVars, serverVars>>

SendBatchRequest ==
  /\ Running("send") /\ More /\ TopItem # Absent
  /\ Register(TopItem)
  /\ IF CanRegister(TopItem)
     THEN Advance(FALSE, Append(Top.array, RequestBody(TopItem, NextCall)))
     ELSE Advance(TRUE, Top.array)
  /\ UNCHANGED <<fault, wire, configVars, serverVars>>

SendBatchEnd ==
  /\ Running("send") /\ ~More
  /\ Leave
  /\ IF Top.array # <<>> THEN SendMessage(TRUE, Top.array)
                         ELSE UNCHANGED <<wire, fault>>
  /\ UNCHANGED <<configVars, serverVars, clientVars>>

---------------------------------------------------------------------------
\* processMessage: a document arrives from a transport that still has this
\* protocol's message handler.

Arrival == Len(received) + 1

Arrive(t, doc, stopped) ==
  /\ MayUse /\ t \in hooked /\ Arrival <= MaxArrivals
  /\ received' = Append(received,
                        [doc |-> doc, from |-> t, stopped |-> stopped])
  /\ UNCHANGED configVars

\* The preprocessor takes the document; if it is a request it also gets a
\* responder, which answers like the handler of a single request.
ReceiveStopped(t, doc) ==
  /\ Preprocessing
  /\ Arrive(t, doc, TRUE)
  /\ open' = IF doc.type = "object" /\ IsRequest(doc.items[1])
             THEN open \cup {<<Arrival, 1>>} ELSE open
  /\ UNCHANGED <<batch, stack, fault, wire, clientVars>>

IsInvalid(doc) ==
  \/ doc.type \in {"error", "other"}
  \/ doc.items = <<>>
  \/ /\ doc.type = "object"
     /\ LET item == doc.items[1] IN
        \/ item.method = BadMethod
        \/ item.method = Absent /\ item.id = Absent
        \/ item.method \in Methods /\ item.id = BadId

\* Mutant: the error carries the id of the object, whatever its type.
MutantReceiveInvalid(t, doc) ==
  /\ IsInvalid(doc)
  /\ Arrive(t, doc, FALSE)
  /\ LET id == IF doc.items = <<>> THEN NullId ELSE doc.items[1].id IN
     SendMessage(FALSE, <<ResponseBody(id, <<Arrival, 1>>)>>)
  /\ UNCHANGED <<batch, open, stack, clientVars>>

ReceiveInvalid(t, doc) ==
  /\ IsInvalid(doc)
  /\ Arrive(t, doc, FALSE)
  /\ SendMessage(FALSE, <<ErrorBody(<<Arrival, 1>>)>>)
  /\ UNCHANGED <<batch, open, stack, clientVars>>

IsSingle(doc) == doc.type = "object" /\ ~IsInvalid(doc)

\* processRequest
ReceiveRequest(t, doc) ==
  /\ IsSingle(doc) /\ IsRequest(doc.items[1])
  /\ Arrive(t, doc, FALSE)
  /\ LET item == doc.items[1] IN
     IF HasHandler(item.method)
     THEN open' = open \cup {<<Arrival, 1>>} /\ UNCHANGED <<wire, fault>>
     ELSE /\ SendMessage(FALSE, <<ResponseBody(item.id, <<Arrival, 1>>)>>)
          /\ UNCHANGED open
  /\ UNCHANGED <<batch, stack, clientVars>>

\* processNotification
ReceiveNotification(t, doc) ==
  /\ IsSingle(doc) /\ IsNotification(doc.items[1])
  /\ Arrive(t, doc, FALSE)
  /\ UNCHANGED <<batch, open, stack, fault, wire, clientVars>>

\* Mutant: the handler stays registered after its response.
MutantProcessResponse(r, id) ==
  LET c == IF id \in Ids THEN pending[id] ELSE NoCall IN
  /\ delivered' = Append(delivered, [ref |-> r, call |-> c])
  /\ UNCHANGED pending
  /\ calls' = IF c = NoCall THEN calls
              ELSE [calls EXCEPT ![c].answered = @ + 1]

\* processResponse: the handler registered under the id is removed and then
\* called; a response nobody waits for goes to the handler for id:null
\* responses or to the one for unknown ids.
ProcessResponse(r, id) ==
  LET c == IF id \in Ids THEN pending[id] ELSE NoCall IN
  /\ delivered' = Append(delivered, [ref |-> r, call |-> c])
  /\ IF c = NoCall THEN UNCHANGED <<pending, calls>>
     ELSE /\ pending' = [pending EXCEPT ![id] = NoCall]
          /\ calls' = [calls EXCEPT ![c].answered = @ + 1]

ReceiveResponse(t, doc) ==
  /\ IsSingle(doc) /\ ~HasMethod(doc.items[1])
  /\ Arrive(t, doc, FALSE)
  /\ ProcessResponse(<<Arrival, 1>>, doc.items[1].id)
  /\ UNCHANGED <<batch, open, stack, fault, wire>>

\* One element that is not clearly a response makes the array a request
\* batch.
ClearlyResponse(item) == item # NotObject /\ ~HasMethod(item) /\ HasId(item)
IsRequestBatch(doc) ==
  /\ doc.type = "array"
  /\ ~\A i \in DOMAIN doc.items : ClearlyResponse(doc.items[i])

NewBatch(state, to) ==
  [state |-> state, to |-> to, finished |-> <<>>, pending |-> 0]

ReceiveRequestBatch(t, doc) ==
  /\ IsRequestBatch(doc)
  /\ Arrive(t, doc, FALSE)
  /\ Enter(Frame("requests", Arrival, doc.items))
  /\ batch' = [batch EXCEPT ![Arrival] = NewBatch("alive", transport)]
  /\ UNCHANGED <<open, fault, wire, clientVars>>

ReceiveResponseBatch(t, doc) ==
  /\ doc.type = "array" /\ doc.items # <<>> /\ ~IsRequestBatch(doc)
  /\ Arrive(t, doc, FALSE)
  /\ Enter(Frame("responses", Arrival, doc.items))
  /\ UNCHANGED <<batch, open, fault, wire, clientVars>>

---------------------------------------------------------------------------
\* The loop over a response array.

ResponsesStep ==
  /\ Running("responses") /\ More
  /\ ProcessResponse(<<Top.n, Top.next>>, TopItem.id)
  /\ Advance(TRUE, <<>>)
  /\ UNCHANGED <<fault, wire, configVars, serverVars>>

ResponsesEnd ==
  /\ Running("responses") /\ ~More
  /\ Leave
  /\ UNCHANGED <<fault, wire, configVars, serverVars, clientVars>>

---------------------------------------------------------------------------
\* RequestBatchHandler::processMessages.  The iterations that append to
\* m_finished or count m_pending use the object, and so does the test after
\* the loop: they run into undefined behaviour if a reply has deleted it.

ThisBatch == batch[Top.n]
Freed == ThisBatch.state = "deleted"
Finish(n, body) == [batch EXCEPT ![n].finished = Append(@, body)]

\* Mutant: an element that is no request is skipped.
MutantBatchInvalid ==
  /\ Running("requests") /\ More /\ ~Freed
  /\ ~IsRequest(TopItem) /\ ~IsNotification(TopItem)
  /\ Advance(FALSE, <<>>)
  /\ UNCHANGED <<fault, wire, configVars, serverVars, clientVars>>

BatchInvalid ==
  /\ Running("requests") /\ More /\ ~Freed
  /\ ~IsRequest(TopItem) /\ ~IsNotification(TopItem)
  /\ batch' = Finish(Top.n, ErrorBody(<<Top.n, Top.next>>))
  /\ Advance(FALSE, <<>>)
  /\ UNCHANGED <<open, received, fault, wire, configVars, clientVars>>

BatchNotification ==
  /\ Running("requests") /\ More /\ IsNotification(TopItem)
  /\ Advance(HasHandler(TopItem.method), <<>>)
  /\ UNCHANGED <<fault, wire, configVars, serverVars, clientVars>>

BatchRequest ==
  /\ Running("requests") /\ More /\ ~Freed /\ IsRequest(TopItem)
  /\ IF HasHandler(TopItem.method)
     THEN /\ batch' = [batch EXCEPT ![Top.n].pending = @ + 1]
          /\ open' = open \cup {<<Top.n, Top.next>>}
          /\ Advance(TRUE, <<>>)
     ELSE /\ batch' = Finish(Top.n, ResponseBody(TopItem.id,
                                                 <<Top.n, Top.next>>))
          /\ UNCHANGED open
          /\ Advance(FALSE, <<>>)
  /\ UNCHANGED <<received, fault, wire, configVars, clientVars>>

\* Mutant: the destructor asks the protocol for its transport.
MutantFlush(b) ==
  wire' = IF transport = NoTransport \/ b.finished = <<>> THEN wire
          ELSE Append(wire, Message(transport, TRUE, b.finished))

\* The destructor sends what has been finished to the transport the batch
\* came from.
Flush(b) ==
  wire' = IF b.to = NoTransport \/ b.finished = <<>> THEN wire
          ELSE Append(wire, Message(b.to, TRUE, b.finished))

\* Mutant: the object is deleted although requests are open.
MutantBatchEnd ==
  /\ Running("requests") /\ ~More /\ ~Freed
  /\ Leave
  /\ batch' = [batch EXCEPT ![Top.n].state = "deleted"]
  /\ Flush(ThisBatch)
  /\ UNCHANGED <<open, received, fault, configVars, clientVars>>

\* Mutant: only a reply deletes the object, a batch without open requests is
\* forgotten.
MutantBatchEndKeeps ==
  /\ Running("requests") /\ ~More /\ ~Freed
  /\ Leave
  /\ UNCHANGED <<fault, wire, configVars, serverVars, clientVars>>

BatchEnd ==
  /\ Running("requests") /\ ~More /\ ~Freed
  /\ Leave
  /\ IF ThisBatch.pending = 0
     THEN /\ batch' = [batch EXCEPT ![Top.n].state = "deleted"]
          /\ Flush(ThisBatch)
     ELSE UNCHANGED <<batch, wire>>
  /\ UNCHANGED <<open, received, fault, configVars, clientVars>>

BatchUseAfterFree ==
  /\ Running("requests") /\ Freed
  /\ More => ~IsNotification(TopItem)
  /\ fault' = "useAfterFree"
  /\ UNCHANGED <<stack, wire, configVars, serverVars, clientVars>>

---------------------------------------------------------------------------
\* A message handler, or the preprocessor, calls its responder.

Looping(n) == \E k \in DOMAIN stack :
                 stack[k].loop = "requests" /\ stack[k].n = n

\* Mutant: the responder can be called again.
MutantReplySingle(r) ==
  /\ MayUse /\ r \in open /\ IsHeldAlone(r)
  /\ Len(wire) < MaxWire
  /\ SendMessage(FALSE, <<ResponseBody(ItemAt(r).id, r)>>)
  /\ UNCHANGED <<stack, configVars, serverVars, clientVars>>

ReplySingle(r) ==
  /\ MayUse /\ r \in open /\ IsHeldAlone(r)
  /\ open' = open \ {r}
  /\ SendMessage(FALSE, <<ResponseBody(ItemAt(r).id, r)>>)
  /\ UNCHANGED <<batch, received, stack, configVars, clientVars>>

\* Mutant: the responder refers to the request of the loop, which has gone on
\* to the last one.
MutantReplyId(r) == ItemAt(<<r[1], Len(received[r[1]].doc.items)>>).id
\* The responder of a batch element has a copy of the id of its request.
ReplyId(r) == ItemAt(r).id

ReplyInBatch(r) ==
  LET n == r[1]
      b == [batch[n] EXCEPT
              !.finished = Append(@, ResponseBody(ReplyId(r), r)),
              !.pending = @ - 1]
  IN
  /\ InUser /\ r \in open /\ ~IsHeldAlone(r)
  /\ b.pending = 0 /\ Looping(n) => MayDrainEarly
  /\ open' = open \ {r}
  /\ IF b.pending = 0
     THEN batch' = [batch EXCEPT ![n] = [b EXCEPT !.state = "deleted"]]
          /\ Flush(b)
     ELSE batch' = [batch EXCEPT ![n] = b] /\ UNCHANGED wire
  /\ UNCHANGED <<received, stack, fault, configVars, clientVars>>

\* The handler a transport still has, and the responder of a single request,
\* call the protocol through this.  A batch only uses its own object.
UseDestroyed ==
  /\ ~alive /\ fault = "none"
  /\ \/ hooked # {} /\ Arrival <= MaxArrivals
     \/ \E r \in open : IsHeldAlone(r)
  /\ fault' = "useAfterFree"
  /\ UNCHANGED <<stack, wire, configVars, serverVars, clientVars>>

---------------------------------------------------------------------------

Init ==
  /\ alive = TRUE
  /\ transport = NoTransport /\ hooked = {}
  /\ handlers = [m \in Methods |-> "unset"] /\ default = FALSE
  /\ pending = [id \in Ids |-> NoCall]
  /\ stack = <<>>
  /\ batch = [n \in 1..MaxArrivals |-> NewBatch("none", NoTransport)]
  /\ open = {} /\ fault = "none"
  /\ received = <<>> /\ calls = <<>> /\ delivered = <<>> /\ wire = <<>>

Configure ==
  \/ \E t \in Swaps : SetTransport(t)
  \/ \E m \in Methods, h \in HandlerArgs : SetMessageHandler(m, h)
  \/ \E h \in HandlerArgs : SetDefaultMessageHandler(h)
  \/ Destroy

Call ==
  \/ \E id \in AnyId : SendRequest(id)
  \/ SendNotification
  \/ \E items \in OutBatches : SendBatch(items)

Receive ==
  \E t \in hooked, doc \in Documents :
    \/ ReceiveStopped(t, doc)
    \/ ReceiveInvalid(t, doc)
    \/ ReceiveRequest(t, doc)
    \/ ReceiveNotification(t, doc)
    \/ ReceiveResponse(t, doc)
    \/ ReceiveRequestBatch(t, doc)
    \/ ReceiveResponseBatch(t, doc)

LoopStep ==
  \/ SendBatchNotification \/ SendBatchRequest \/ SendBatchEnd
  \/ ResponsesStep \/ ResponsesEnd
  \/ BatchInvalid \/ BatchNotification \/ BatchRequest \/ BatchEnd
  \/ BatchUseAfterFree

Reply(r) == ReplySingle(r) \/ ReplyInBatch(r)

Next ==
  \/ Configure
  \/ Call
  \/ Receive
  \/ LoopStep
  \/ \E r \in open : Reply(r)
  \/ UseDestroyed

Spec == Init /\ [][Next]_vars

\* The references <<n, i>> to item i of arrival n.  A document that is
\* answered as a whole is item 1 of its arrival.
Refs == (1..MaxArrivals) \X
          ({1} \cup UNION {DOMAIN doc.items : doc \in Documents})

\* Loops go on once user code has returned into them; handlers and the
\* preprocessor answer the requests they took.
Fairness ==
  /\ WF_vars(LoopStep)
  /\ \A r \in Refs : WF_vars(Reply(r))

FairSpec == Spec /\ Fairness
=============================================================================
