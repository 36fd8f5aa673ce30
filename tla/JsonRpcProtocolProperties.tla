--------------------- MODULE JsonRpcProtocolProperties ---------------------
(***************************************************************************)
(* What must hold of JsonRpcProtocol.                                      *)
(***************************************************************************)
EXTENDS JsonRpcProtocol

---------------------------------------------------------------------------
\* What the protocol owes for a received document.

\* The references <<n, i>> of arrival n that must be answered: the document
\* itself when it is invalid, a request, each element of a request batch that
\* is not a notification.
OwesOne(a) ==
  \/ ~a.stopped /\ IsInvalid(a.doc)
  \/ a.doc.type = "object" /\ IsRequest(a.doc.items[1])
OwedRefs(n) ==
  LET a == received[n] IN
  IF IsRequestBatch(a.doc) /\ ~a.stopped
  THEN {<<n, i>> : i \in {i \in DOMAIN a.doc.items :
                            ~IsNotification(a.doc.items[i])}}
  ELSE {r \in {<<n, 1>>} : OwesOne(a)}
Owed == UNION {OwedRefs(n) : n \in DOMAIN received}

\* The id that answer must carry: that of the request, null where there is
\* no request to take one from.  A single request whose id has a bad type is
\* answered as invalid, an element of a batch is not checked.
AnswerId(r) ==
  LET a == received[r[1]] IN
  IF \/ ~a.stopped /\ IsInvalid(a.doc)
     \/ ~IsRequest(ItemAt(r))
  THEN NullId ELSE ItemAt(r).id

\* The places <<k, j>> in a sequence of sequences of bodies that hold a body
\* of one kind about r.
Places(bodies, kind, r) ==
  UNION {{<<k, j>> : j \in {j \in DOMAIN bodies[k] :
                              /\ bodies[k][j].kind = kind
                              /\ bodies[k][j].ref = r}} : k \in DOMAIN bodies}

Sent(kind, r) == Places([k \in DOMAIN wire |-> wire[k].bodies], kind, r)
Building(r) ==
  Places([k \in DOMAIN stack |-> stack[k].array], "request", r)

\* The places in m_finished of the batch that is to answer r.
Finished(r) ==
  LET b == batch[r[1]] IN
  {j \in DOMAIN b.finished : b.state = "alive" /\ b.finished[j].ref = r}

\* The loop over the batch has not come to item r yet.
Unread(r) ==
  \E k \in DOMAIN stack : /\ stack[k].loop = "requests"
                          /\ stack[k].n = r[1]
                          /\ stack[k].next <= r[2]

---------------------------------------------------------------------------
\* Type invariant.  The loop of sendBatch goes over ids, the loops over
\* received arrays over the items of the document they were entered with; what
\* user code holds are requests.
Body == [kind : {"request", "notification", "response"}, id : AnyId,
         ref : Nat \X Nat]
MessageType == [to : Transports, array : BOOLEAN, bodies : Seq(Body)]
SendFrame == [loop : {"send"}, n : {0}, items : Seq(AnyId),
              next : Nat \ {0}, array : Seq(Body), user : BOOLEAN]
ReadFrame == [loop : {"requests", "responses"}, n : 1..MaxArrivals,
              items : Seq(Item), next : Nat \ {0}, array : {<<>>},
              user : BOOLEAN]
BatchType == [state : {"none", "alive", "deleted"},
              to : Transports \cup {NoTransport},
              finished : Seq(Body), pending : Int]
ArrivalType == [doc : Documents, from : Transports, stopped : BOOLEAN]
CallType == [id : AnyId, answered : Nat, rejected : Nat]
DeliveryType == [ref : Nat \X Nat, call : Nat]

FramesRead ==
  \A k \in DOMAIN stack : stack[k].loop # "send" =>
    /\ stack[k].n \in DOMAIN received
    /\ stack[k].items = received[stack[k].n].doc.items
OpenAreRequests ==
  \A r \in open : /\ r[1] \in DOMAIN received
                  /\ r[2] \in DOMAIN received[r[1]].doc.items
                  /\ IsRequest(ItemAt(r))

TypeOK ==
  /\ alive \in BOOLEAN
  /\ transport \in Transports \cup {NoTransport}
  /\ hooked \subseteq Transports
  /\ handlers \in [Methods -> {"unset", "null", "set"}]
  /\ default \in BOOLEAN
  /\ pending \in [Ids -> Nat]
  /\ stack \in Seq(SendFrame \cup ReadFrame)
  /\ batch \in [1..MaxArrivals -> BatchType]
  /\ open \subseteq (1..MaxArrivals) \X Nat
  /\ fault \in {"none", "nullTransport", "useAfterFree"}
  /\ received \in Seq(ArrivalType) /\ Len(received) <= MaxArrivals
  /\ calls \in Seq(CallType)
  /\ delivered \in Seq(DeliveryType)
  /\ wire \in Seq(MessageType)
  /\ FramesRead
  /\ OpenAreRequests

\* The handler of a request is called exactly once, with a response or with
\* the InvalidRequest rejection, unless it is still registered under the id
\* of its request: none is lost, replaced or called twice, whatever user code
\* does while sendBatch or a response loop is in progress.
Waiting(c) == calls[c].id \in Ids /\ pending[calls[c].id] = c
EachCallOnce ==
  /\ \A id \in Ids : pending[id] # NoCall =>
       pending[id] \in DOMAIN calls /\ calls[pending[id]].id = id
  /\ \A c \in DOMAIN calls :
       calls[c].answered + calls[c].rejected = IF Waiting(c) THEN 0 ELSE 1

\* An accepted request is transmitted exactly once, alone or in the array of
\* its batch, or is in an array sendBatch is building; a rejected one never.
AcceptedSentOnce ==
  fault = "none" =>
    \A c \in DOMAIN calls :
      Cardinality(Sent("request", <<c, 0>>))
        + Cardinality(Building(<<c, 0>>)) = 1 - calls[c].rejected

\* Every element that must be answered is in exactly one place: not reached
\* by the loop over its batch, held by user code, in m_finished of its batch,
\* or answered on the wire; and no element is in any of them twice.
AnswersConserved ==
  fault = "none" =>
    \A r \in Owed :
      Cardinality({u \in {1} : Unread(r)}) + Cardinality({r} \cap open)
        + Cardinality(Finished(r)) + Cardinality(Sent("response", r)) = 1

\* A response is only sent for an element that must be answered, never for a
\* notification or a response, and carries the id of that element.
RightAnswers ==
  \A k \in DOMAIN wire : \A j \in DOMAIN wire[k].bodies :
    LET b == wire[k].bodies[j] IN
    b.kind = "response" => b.ref \in Owed /\ b.id = AnswerId(b.ref)

\* The answers to a request batch leave as one array, complete and to the
\* transport the batch came from, whatever setTransport did meanwhile; the
\* answers to single requests leave alone.
BatchAnsweredWhole ==
  \A k \in DOMAIN wire :
    LET bodies == wire[k].bodies
        n == bodies[1].ref[1]
    IN bodies[1].kind = "response" =>
         IF IsRequestBatch(received[n].doc) /\ ~received[n].stopped
         THEN /\ wire[k].array
              /\ wire[k].to = received[n].from
              /\ {bodies[j].ref : j \in DOMAIN bodies} = OwedRefs(n)
         ELSE ~wire[k].array /\ Len(bodies) = 1

\* m_pending of a batch counts the requests user code still holds, and the
\* object is there as long as its loop runs or one of them is open.
PendingCountsOpen ==
  \A n \in 1..MaxArrivals :
    LET held == {r \in open : r[1] = n /\ received[n].doc.type = "array"} IN
    /\ batch[n].pending = Cardinality(held)
    /\ batch[n].state = "alive" <=> Looping(n) \/ held # {}

\* Every element of a response array is delivered once, in the order of the
\* array, up to where its loop is, however the loops of several arrays nest.
IsResponseArray(a) ==
  /\ a.doc.type = "array" /\ a.doc.items # <<>> /\ ~IsRequestBatch(a.doc)
  /\ ~a.stopped
DeliveredOf(n) == {i \in DOMAIN delivered : delivered[i].ref[1] = n}
LoopAt(n, p) ==
  \E k \in DOMAIN stack :
    stack[k].loop = "responses" /\ stack[k].n = n /\ stack[k].next = p
ResponsesInOrder ==
  \A n \in DOMAIN received : IsResponseArray(received[n]) =>
    /\ \A i, j \in DeliveredOf(n) :
         i < j => delivered[i].ref[2] < delivered[j].ref[2]
    /\ {delivered[i].ref[2] : i \in DeliveredOf(n)}
         = {i \in DOMAIN received[n].doc.items :
              \A p \in 1..i : ~LoopAt(n, p)}

\* No object is used after its end: not a batch that has deleted itself, and
\* not a protocol that is destroyed after it has been detached.  No transport
\* it ever had calls it, whatever setTransport did, and the batches whose
\* requests user code still holds are answered without it.
NoUseAfterFree == fault # "useAfterFree"

\* sendMessage does not test m_transport.  Taking the transport away is safe
\* but for what the application does itself: call the responder of a request
\* that came alone, or take it away inside its own sendBatch.  No document
\* makes the protocol answer to nobody, and no batch, whenever it is answered.
DetachedSafely ==
  [][fault = "none" /\ fault' = "nullTransport" =>
       Running("send") \/ \E r \in open \ open' : IsHeldAlone(r)]_vars

---------------------------------------------------------------------------
\* The promise to peer and application.  A message with a second answer to
\* the same document, and a handler that is called again, are no state of
\* RpcExchange.

AnswerMessages(n) ==
  {k \in DOMAIN wire : LET b == wire[k].bodies[1] IN
                       b.kind = "response" /\ b.ref[1] = n}
DocumentStatus(n) ==
  IF n \notin DOMAIN received THEN "new"
  ELSE IF AnswerMessages(n) = {}
       THEN IF OwedRefs(n) = {} THEN "nothing owed" ELSE "owed"
       ELSE IF Cardinality(AnswerMessages(n)) = 1 THEN "answered"
            ELSE "answered again"

Told(call, answered, rejected) ==
  call.answered = answered /\ call.rejected = rejected
CallStatus(c) ==
  IF c \notin DOMAIN calls THEN "new"
  ELSE IF Told(calls[c], 0, 0) THEN "waiting"
  ELSE IF Told(calls[c], 1, 0) THEN "answered"
  ELSE IF Told(calls[c], 0, 1) THEN "rejected" ELSE "called again"

CallNumbers ==
  1..(MaxCalls + MaxDepth
        * Cardinality(UNION {DOMAIN items : items \in OutBatches}))

DocumentStatuses == [n \in 1..MaxArrivals |-> DocumentStatus(n)]
CallStatuses == [c \in CallNumbers |-> CallStatus(c)]

Exchange == INSTANCE RpcExchange WITH
  Arrivals <- 1..MaxArrivals,
  Calls <- CallNumbers,
  document <- DocumentStatuses,
  call <- CallStatuses

\* Safety of the promise: at most one message answers a document, and the
\* handler of a request is called at most once, whichever way.
ImplementsExchange == Exchange!Spec

\* With its liveness: every document that calls for an answer gets it, if
\* the handlers answer, whatever loops and messages come in between.
AnswersEveryDocument == Exchange!FairSpec
=============================================================================
