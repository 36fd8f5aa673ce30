----------------------- MODULE JsonRpcProtocolProofs -----------------------
(***************************************************************************)
(* Proofs about JsonRpcProtocol for every value of its constants.          *)
(***************************************************************************)
EXTENDS JsonRpcProtocolProperties, TLAPS

USE DEF NoCall

FrameType == SendFrame \cup ReadFrame

---------------------------------------------------------------------------
\* Facts about the constructors.

\* Putting an element before a sequence.
LEMMA ConsType ==
  ASSUME NEW S, NEW f \in S, NEW s \in Seq(S)
  PROVE  /\ <<f>> \o s \in Seq(S)
         /\ Len(<<f>> \o s) = Len(s) + 1
         /\ (<<f>> \o s)[1] = f
         /\ \A k \in 2 .. Len(s) + 1 : (<<f>> \o s)[k] = s[k - 1]
  OBVIOUS

\* The bodies the protocol makes have the type of a body.
LEMMA BodyTypes ==
  /\ \A id \in AnyId, r \in Nat \X Nat : ResponseBody(id, r) \in Body
  /\ \A r \in Nat \X Nat : ErrorBody(r) \in Body
  /\ \A id \in AnyId, c \in Nat : RequestBody(id, c) \in Body
  /\ NotificationBody \in Body
  BY ConstantsAssumption
  DEF Body, ResponseBody, ErrorBody, RequestBody, NotificationBody, AnyId,
      ConstantsAssumption

\* Sending appends a message to the wire, or is the null dereference.
LEMMA SendMessageType ==
  ASSUME transport \in Transports \cup {NoTransport},
         wire \in Seq(MessageType),
         fault \in {"none", "nullTransport", "useAfterFree"},
         NEW array \in BOOLEAN, NEW bodies \in Seq(Body),
         SendMessage(array, bodies)
  PROVE  /\ wire' \in Seq(MessageType)
         /\ fault' \in {"none", "nullTransport", "useAfterFree"}
<1>1. CASE transport = NoTransport
  BY <1>1 DEF SendMessage
<1>2. CASE transport # NoTransport
  <2>1. Message(transport, array, bodies) \in MessageType
    BY <1>2 DEF Message, MessageType
  <2> QED BY <1>2, <2>1 DEF SendMessage
<1> QED BY <1>1, <1>2

\* The documents of the peer are documents, an object has one item.
LEMMA DocumentItems ==
  ASSUME NEW doc \in Documents
  PROVE  /\ doc.items \in Seq(Item)
         /\ doc.type = "object" => 1 \in DOMAIN doc.items
  BY ConstantsAssumption DEF ConstantsAssumption, Document

\* A request has an id of some type.
LEMMA RequestId ==
  ASSUME NEW item \in Item, IsRequest(item) \/ IsNotification(item)
  PROVE  item.id \in AnyId
  BY ConstantsAssumption
  DEF ConstantsAssumption, IsRequest, IsNotification, Item, Object

---------------------------------------------------------------------------
\* The stack of loops keeps its type.

\* The frames the protocol enters have the type of a frame.
LEMMA NewFrames ==
  /\ \A items \in Seq(AnyId) : Frame("send", 0, items) \in SendFrame
  /\ \A items \in Seq(Item), n \in 1..MaxArrivals :
       /\ Frame("requests", n, items) \in ReadFrame
       /\ Frame("responses", n, items) \in ReadFrame
  BY DEF Frame, SendFrame, ReadFrame

\* A frame that goes on to its next element is a frame of the same loop.
NextFrame(f, user, array) ==
  [f EXCEPT !.next = @ + 1, !.user = user, !.array = array]

LEMMA NextFrameType ==
  ASSUME NEW f \in FrameType, NEW user \in BOOLEAN, NEW array \in Seq(Body),
         f \in ReadFrame => array = <<>>
  PROVE  /\ NextFrame(f, user, array) \in FrameType
         /\ NextFrame(f, user, array).loop = f.loop
         /\ NextFrame(f, user, array).n = f.n
         /\ NextFrame(f, user, array).items = f.items
<1> DEFINE h == [f EXCEPT !.next = @ + 1]
<1>1. NextFrame(f, user, array) = [h EXCEPT !.user = user, !.array = array]
  BY DEF NextFrame
<1>2. CASE f \in SendFrame
  <2>1. h \in SendFrame /\ h.loop = f.loop /\ h.n = f.n /\ h.items = f.items
    BY <1>2, SMTT(30) DEF SendFrame
  <2> HIDE DEF h
  <2> QED BY <1>1, <2>1 DEF SendFrame, FrameType
<1>3. CASE f \in ReadFrame
  <2>1. h \in ReadFrame /\ h.loop = f.loop /\ h.n = f.n /\ h.items = f.items
    BY <1>3 DEF ReadFrame
  <2> HIDE DEF h
  <2> QED BY <1>1, <1>3, <2>1 DEF ReadFrame, FrameType
<1> QED BY <1>2, <1>3 DEF FrameType

\* What the frames of the next stack have to do with those of this one: no
\* loop is new, or changes the array it goes over.
SameLoop(f, g) == f.loop = g.loop /\ f.n = g.n /\ f.items = g.items
NoNewLoop ==
  \A k \in DOMAIN stack' : \E j \in DOMAIN stack : SameLoop(stack'[k], stack[j])

LEMMA AdvanceType ==
  ASSUME stack \in Seq(FrameType), stack # <<>>,
         NEW user \in BOOLEAN, NEW array \in Seq(Body),
         Top \in ReadFrame => array = <<>>,
         Advance(user, array)
  PROVE  stack' \in Seq(FrameType) /\ NoNewLoop
<1> DEFINE f == NextFrame(Top, user, array)
           s == Tail(stack)
<1>1. /\ Top \in FrameType /\ s \in Seq(FrameType)
      /\ Len(s) + 1 = Len(stack) /\ Top = stack[1]
      /\ \A k \in 2 .. Len(stack) : s[k - 1] = stack[k]
  BY DEF Top
<1>2. f \in FrameType /\ SameLoop(f, Top)
  BY <1>1, NextFrameType DEF SameLoop
<1>3. stack' = <<f>> \o s
  BY DEF Advance, NextFrame
<1> HIDE DEF f, s
<1>4. /\ stack' \in Seq(FrameType) /\ Len(stack') = Len(stack)
      /\ stack'[1] = f
      /\ \A k \in 2 .. Len(stack) : stack'[k] = stack[k]
  BY <1>1, <1>2, <1>3, ConsType
<1>5. ASSUME NEW k \in DOMAIN stack'
      PROVE  k \in DOMAIN stack /\ SameLoop(stack'[k], stack[k])
  BY <1>1, <1>2, <1>4, <1>5 DEF SameLoop
<1> QED BY <1>4, <1>5 DEF NoNewLoop

LEMMA LeaveType ==
  ASSUME stack \in Seq(FrameType), stack # <<>>, Leave
  PROVE  stack' \in Seq(FrameType) /\ NoNewLoop
<1>1. /\ stack' \in Seq(FrameType) /\ Len(stack') = Len(stack) - 1
      /\ \A k \in DOMAIN stack' :
           k + 1 \in DOMAIN stack /\ stack'[k] = stack[k + 1]
  BY DEF Leave
<1> QED BY <1>1 DEF NoNewLoop, SameLoop

LEMMA SameStack ==
  ASSUME stack \in Seq(FrameType), UNCHANGED stack
  PROVE  stack' \in Seq(FrameType) /\ NoNewLoop
  BY DEF NoNewLoop, SameLoop

\* Every document received before is still there.
KeepsReceived ==
  \A n \in DOMAIN received :
    n \in DOMAIN received' /\ received'[n].doc = received[n].doc

\* Loops keep going over the documents they were entered with.
LEMMA FramesStay ==
  ASSUME FramesRead, NoNewLoop, KeepsReceived
  PROVE  FramesRead'
  BY DEF FramesRead, NoNewLoop, SameLoop, KeepsReceived

LEMMA SameReceived == UNCHANGED received => KeepsReceived
  BY DEF KeepsReceived

\* Entering a loop over a document that has arrived, or one of sendBatch.
LEMMA EnterFrames ==
  ASSUME stack \in Seq(FrameType), FramesRead, KeepsReceived,
         NEW f \in FrameType, Enter(f),
         f.loop # "send" => /\ f.n \in DOMAIN received'
                            /\ f.items = received'[f.n].doc.items
  PROVE  stack' \in Seq(FrameType) /\ FramesRead'
<1>1. /\ stack' \in Seq(FrameType) /\ Len(stack') = Len(stack) + 1
      /\ stack'[1] = f
      /\ \A k \in 2 .. Len(stack) + 1 : stack'[k] = stack[k - 1]
  BY ConsType DEF Enter
<1>2. ASSUME NEW k \in DOMAIN stack', stack'[k].loop # "send"
      PROVE  /\ stack'[k].n \in DOMAIN received'
             /\ stack'[k].items = received'[stack'[k].n].doc.items
  <2>1. CASE k = 1 BY <1>1, <1>2, <2>1
  <2>2. CASE k # 1
    <3>1. k - 1 \in DOMAIN stack /\ stack'[k] = stack[k - 1]
      BY <1>1, <2>2
    <3> QED BY <1>2, <3>1 DEF FramesRead, KeepsReceived
  <2> QED BY <2>1, <2>2
<1> QED BY <1>1, <1>2 DEF FramesRead

---------------------------------------------------------------------------
\* The inductive invariant: the types and EachCallOnce, by part of the state.

ConfigOK == /\ alive \in BOOLEAN
            /\ transport \in Transports \cup {NoTransport}
            /\ hooked \subseteq Transports
            /\ handlers \in [Methods -> {"unset", "null", "set"}]
            /\ default \in BOOLEAN
ClientOK == /\ pending \in [Ids -> Nat]
            /\ calls \in Seq(CallType)
            /\ delivered \in Seq(DeliveryType)
            /\ EachCallOnce
ServerOK == /\ batch \in [1..MaxArrivals -> BatchType]
            /\ open \subseteq (1..MaxArrivals) \X Nat
            /\ received \in Seq(ArrivalType) /\ Len(received) <= MaxArrivals
            /\ OpenAreRequests
StackOK == stack \in Seq(FrameType) /\ FramesRead
OutputOK == /\ fault \in {"none", "nullTransport", "useAfterFree"}
            /\ wire \in Seq(MessageType)

Inv == ConfigOK /\ ClientOK /\ ServerOK /\ StackOK /\ OutputOK

LEMMA InvIsTypeOKAndEachCallOnce == Inv <=> TypeOK /\ EachCallOnce
  BY DEF Inv, ConfigOK, ClientOK, ServerOK, StackOK, OutputOK, TypeOK, FrameType

\* A part none of whose variables changes keeps its invariant.
LEMMA ConfigSame == ConfigOK /\ UNCHANGED configVars => ConfigOK'
  BY DEF ConfigOK, configVars
LEMMA ClientSame == ClientOK /\ UNCHANGED clientVars => ClientOK'
  BY DEF ClientOK, clientVars, EachCallOnce, Waiting
LEMMA ServerSame == ServerOK /\ UNCHANGED serverVars => ServerOK'
  BY DEF ServerOK, serverVars, OpenAreRequests, ItemAt
LEMMA OutputSame == OutputOK /\ UNCHANGED <<fault, wire>> => OutputOK'
  BY DEF OutputOK

---------------------------------------------------------------------------
\* Calls.

\* addPendingRequest, or the rejection.
LEMMA RegisterClient ==
  ASSUME ClientOK, NEW id \in AnyId, Register(id)
  PROVE  ClientOK'
<1> USE DEF ClientOK
<1> DEFINE new == NewCall(id, IF CanRegister(id) THEN 0 ELSE 1)
<1>1. /\ calls' = Append(calls, new)
      /\ new \in CallType
      /\ new.id = id /\ new.answered = 0
      /\ new.rejected = IF CanRegister(id) THEN 0 ELSE 1
  BY DEF Register, NewCall, CallType
<1> HIDE DEF new
<1>2. /\ calls' \in Seq(CallType)
      /\ DOMAIN calls' = DOMAIN calls \cup {NextCall}
      /\ calls'[NextCall] = new
      /\ NextCall \notin DOMAIN calls /\ NextCall \in Nat /\ NextCall # NoCall
      /\ \A c \in DOMAIN calls : calls'[c] = calls[c]
  BY <1>1 DEF NextCall
<1>3. pending' = IF CanRegister(id) THEN [pending EXCEPT ![id] = NextCall]
                 ELSE pending
  BY DEF Register
<1>4. \A k \in Ids : pending[k] # NextCall
  BY <1>2 DEF EachCallOnce
<1>5. pending' \in [Ids -> Nat] /\ delivered' \in Seq(DeliveryType)
  BY <1>2, <1>3 DEF Register
<1>6. EachCallOnce'
  <2>1. ASSUME NEW k \in Ids, pending'[k] # NoCall
        PROVE  pending'[k] \in DOMAIN calls' /\ calls'[pending'[k]].id = k
    <3>1. CASE CanRegister(id) /\ k = id
      BY <1>1, <1>2, <1>3, <3>1
    <3>2. CASE ~(CanRegister(id) /\ k = id)
      <4>1. pending'[k] = pending[k] BY <1>3, <3>2
      <4> QED BY <4>1, <2>1, <1>2 DEF EachCallOnce
    <3> QED BY <3>1, <3>2
  <2>2. ASSUME NEW c \in DOMAIN calls'
        PROVE  calls'[c].answered + calls'[c].rejected
                 = IF Waiting(c)' THEN 0 ELSE 1
    <3>1. CASE c = NextCall
      <4>1. Waiting(c)' <=> CanRegister(id)
        BY <1>1, <1>2, <1>3, <1>4, <3>1 DEF Waiting, CanRegister
      <4> QED BY <4>1, <3>1, <1>1, <1>2
    <3>2. CASE c \in DOMAIN calls
      <4>1. Waiting(c)' <=> Waiting(c)
        BY <1>2, <1>3, <3>2 DEF Waiting, CanRegister
      <4> QED BY <4>1, <3>2, <1>2 DEF EachCallOnce
    <3> QED BY <3>1, <3>2, <1>2
  <2> QED BY <2>1, <2>2 DEF EachCallOnce
<1> QED BY <1>2, <1>5, <1>6

\* A response, whether somebody waits for it or not.
LEMMA ProcessResponseClient ==
  ASSUME ClientOK, NEW r \in Nat \X Nat, NEW id, ProcessResponse(r, id)
  PROVE  ClientOK'
<1> USE DEF ClientOK
<1> DEFINE called == IF id \in Ids THEN pending[id] ELSE NoCall
<1>1. delivered' \in Seq(DeliveryType)
  <2>1. [ref |-> r, call |-> called] \in DeliveryType BY DEF DeliveryType
  <2> QED BY <2>1 DEF ProcessResponse
<1>2. CASE called = NoCall
  BY <1>1, <1>2 DEF ProcessResponse, EachCallOnce, Waiting
<1>3. CASE called # NoCall
  <2>1. PICK c \in DOMAIN calls : /\ c # NoCall /\ id \in Ids
                                  /\ pending[id] = c /\ calls[c].id = id
                                  /\ called = c
    BY <1>3 DEF EachCallOnce
  <2>2. /\ pending' = [pending EXCEPT ![id] = NoCall]
        /\ calls' = [calls EXCEPT ![c].answered = @ + 1]
    BY <1>3, <2>1 DEF ProcessResponse
  <2> HIDE DEF called
  <2>3. PICK e \in CallType : e = calls[c]
    BY <2>1
  <2>4. /\ [e EXCEPT !.answered = @ + 1] \in CallType
        /\ [e EXCEPT !.answered = @ + 1].id = e.id
        /\ [e EXCEPT !.answered = @ + 1].rejected = e.rejected
        /\ [e EXCEPT !.answered = @ + 1].answered = e.answered + 1
        /\ e.answered \in Nat /\ e.rejected \in Nat
    <3>1. e.answered + 1 \in Nat /\ e.answered \in Nat /\ e.rejected \in Nat
      BY DEF CallType
    <3>2. ASSUME NEW v \in Nat
          PROVE  /\ [e EXCEPT !.answered = v] \in CallType
                 /\ [e EXCEPT !.answered = v].id = e.id
                 /\ [e EXCEPT !.answered = v].rejected = e.rejected
                 /\ [e EXCEPT !.answered = v].answered = v
      BY DEF CallType
    <3> QED BY <3>1, <3>2
  <2>5. calls' = [calls EXCEPT ![c] = [e EXCEPT !.answered = @ + 1]]
    BY <2>2, <2>3
  <2>6. /\ calls' \in Seq(CallType) /\ DOMAIN calls' = DOMAIN calls
        /\ \A d \in DOMAIN calls : d # c => calls'[d] = calls[d]
        /\ calls'[c] = [e EXCEPT !.answered = @ + 1]
    BY <2>1, <2>4, <2>5
  <2>7. pending' \in [Ids -> Nat] BY <2>2
  <2>8. ASSUME NEW k \in Ids, pending'[k] # NoCall
        PROVE  pending'[k] \in DOMAIN calls' /\ calls'[pending'[k]].id = k
    <3>1. k # id /\ pending'[k] = pending[k] BY <2>2, <2>8
    <3>2. pending[k] # c BY <2>1, <2>8, <3>1 DEF EachCallOnce
    <3> QED BY <2>6, <2>8, <3>1, <3>2 DEF EachCallOnce
  <2>9. ASSUME NEW d \in DOMAIN calls'
        PROVE  calls'[d].answered + calls'[d].rejected
                 = IF Waiting(d)' THEN 0 ELSE 1
    <3>1. CASE d = c
      <4>1. Waiting(d) /\ ~Waiting(d)'
        BY <2>1, <2>2, <2>3, <2>4, <2>6, <3>1 DEF Waiting
      <4>2. e.answered + e.rejected = 0
        BY <2>3, <2>6, <3>1, <4>1 DEF EachCallOnce
      <4> QED BY <3>1, <4>1, <4>2, <2>4, <2>6
    <3>2. CASE d # c
      <4>1. Waiting(d)' <=> Waiting(d)
        BY <2>1, <2>2, <2>6, <3>2 DEF Waiting
      <4> QED BY <3>2, <4>1, <2>6 DEF EachCallOnce
    <3> QED BY <3>1, <3>2
  <2> QED BY <1>1, <2>6, <2>7, <2>8, <2>9 DEF EachCallOnce
<1> QED BY <1>2, <1>3

---------------------------------------------------------------------------
\* Documents and batches.

LEMMA ArriveFacts ==
  ASSUME ConfigOK, ServerOK, NEW t \in hooked, NEW doc \in Documents,
         NEW stopped \in BOOLEAN, Arrive(t, doc, stopped)
  PROVE  /\ received' \in Seq(ArrivalType) /\ Len(received') <= MaxArrivals
         /\ Arrival \in 1..MaxArrivals /\ Arrival \in DOMAIN received'
         /\ received'[Arrival].doc = doc
         /\ KeepsReceived
<1> DEFINE a == [doc |-> doc, from |-> t, stopped |-> stopped]
<1>1. a \in ArrivalType /\ a.doc = doc
  BY DEF ArrivalType, ConfigOK
<1>2. received' = Append(received, a)
  BY DEF Arrive
<1> HIDE DEF a
<1> QED BY <1>1, <1>2, ConstantsAssumption
        DEF Arrive, Arrival, ServerOK, KeepsReceived, ConstantsAssumption

\* What user code holds stays requests when requests are added to it.
LEMMA OpenStays ==
  ASSUME OpenAreRequests, KeepsReceived, NEW new, open' \subseteq open \cup new,
         \A r \in new : /\ r[1] \in DOMAIN received'
                        /\ r[2] \in DOMAIN received'[r[1]].doc.items
                        /\ IsRequest(received'[r[1]].doc.items[r[2]])
  PROVE  OpenAreRequests'
  BY DEF OpenAreRequests, KeepsReceived, ItemAt

LEMMA SetBatch ==
  ASSUME batch \in [1..MaxArrivals -> BatchType], NEW n \in 1..MaxArrivals,
         NEW b \in BatchType, batch' = [batch EXCEPT ![n] = b]
  PROVE  batch' \in [1..MaxArrivals -> BatchType]
  OBVIOUS

\* The changes the protocol makes to a batch.
LEMMA BatchChanges ==
  ASSUME NEW b \in BatchType
  PROVE  /\ \A body \in Body :
              [b EXCEPT !.finished = Append(@, body)] \in BatchType
         /\ [b EXCEPT !.pending = @ + 1] \in BatchType
         /\ [b EXCEPT !.pending = @ - 1] \in BatchType
         /\ [b EXCEPT !.state = "deleted"] \in BatchType
<1>1. /\ b.finished \in Seq(Body)
      /\ b.pending + 1 \in Int /\ b.pending - 1 \in Int
      /\ \A body \in Body : Append(b.finished, body) \in Seq(Body)
  BY DEF BatchType
<1>2. ASSUME NEW s \in Seq(Body) PROVE [b EXCEPT !.finished = s] \in BatchType
  BY DEF BatchType
<1>3. ASSUME NEW i \in Int PROVE [b EXCEPT !.pending = i] \in BatchType
  BY DEF BatchType
<1>4. [b EXCEPT !.state = "deleted"] \in BatchType
  BY DEF BatchType
<1> QED BY <1>1, <1>2, <1>3, <1>4

LEMMA FlushType ==
  ASSUME wire \in Seq(MessageType), NEW b \in BatchType, Flush(b)
  PROVE  wire' \in Seq(MessageType)
<1>1. CASE b.to = NoTransport \/ b.finished = <<>>
  BY <1>1 DEF Flush
<1>2. CASE ~(b.to = NoTransport \/ b.finished = <<>>)
  <2>1. Message(b.to, TRUE, b.finished) \in MessageType
    BY <1>2 DEF Message, MessageType, BatchType
  <2>2. PICK m \in MessageType : wire' = Append(wire, m)
    BY <1>2, <2>1 DEF Flush
  <2> QED BY <2>2
<1> QED BY <1>1, <1>2

\* The top frame and its element, for a loop that is running.
LEMMA SendTop ==
  ASSUME StackOK, Running("send")
  PROVE  /\ stack # <<>> /\ Top \in SendFrame /\ Top \notin ReadFrame
         /\ Top.array \in Seq(Body)
         /\ More => TopItem \in AnyId
<1>1. stack # <<>> /\ Top \in FrameType /\ Top.loop = "send"
  BY DEF StackOK, Running, Top
<1>2. Top \in SendFrame /\ Top \notin ReadFrame
  BY <1>1 DEF FrameType, SendFrame, ReadFrame
<1> QED BY <1>1, <1>2 DEF SendFrame, More, TopItem

LEMMA ReadTop ==
  ASSUME StackOK, ServerOK, NEW loop \in {"requests", "responses"},
         Running(loop)
  PROVE  /\ stack # <<>> /\ Top \in ReadFrame
         /\ Top.n \in 1..MaxArrivals /\ Top.next \in Nat \ {0}
         /\ Top.n \in DOMAIN received
         /\ More => /\ Top.next \in DOMAIN received[Top.n].doc.items
                    /\ TopItem = received[Top.n].doc.items[Top.next]
                    /\ TopItem \in Item
<1>1. /\ stack # <<>> /\ Top \in FrameType /\ Top.loop = loop
      /\ 1 \in DOMAIN stack /\ Top = stack[1]
  BY DEF StackOK, Running, Top
<1>2. Top \in ReadFrame
  BY <1>1 DEF FrameType, SendFrame
<1>3. Top.n \in DOMAIN received /\ Top.items = received[Top.n].doc.items
  BY <1>1 DEF StackOK, FramesRead
<1> QED BY <1>1, <1>2, <1>3 DEF ReadFrame, More, TopItem

---------------------------------------------------------------------------
\* The steps.

LEMMA ConfigureStep == Inv /\ Configure => Inv'
<1> SUFFICES ASSUME Inv, Configure PROVE Inv'
  OBVIOUS
<1> USE DEF Inv
<1>1. ASSUME NEW t \in Swaps, SetTransport(t) PROVE Inv'
  <2>1. ConfigOK'
    BY <1>1, ConstantsAssumption
    DEF SetTransport, ConfigOK, ConstantsAssumption
  <2>2. ClientOK' /\ ServerOK' /\ OutputOK'
    BY <1>1, ClientSame, ServerSame, OutputSame DEF SetTransport
  <2>3. StackOK'
    BY <1>1 DEF SetTransport, StackOK, FramesRead, serverVars
  <2> QED BY <2>1, <2>2, <2>3
<1>2. ASSUME NEW m \in Methods, NEW h \in HandlerArgs, SetMessageHandler(m, h)
      PROVE  Inv'
  <2>1. ConfigOK'
    BY <1>2, ConstantsAssumption
    DEF SetMessageHandler, ConfigOK, ConstantsAssumption
  <2>2. ClientOK' /\ ServerOK' /\ OutputOK'
    BY <1>2, ClientSame, ServerSame, OutputSame DEF SetMessageHandler
  <2>3. StackOK'
    BY <1>2 DEF SetMessageHandler, StackOK, FramesRead, serverVars
  <2> QED BY <2>1, <2>2, <2>3
<1>3. ASSUME NEW h \in HandlerArgs, SetDefaultMessageHandler(h) PROVE Inv'
  <2>1. ConfigOK'
    BY <1>3 DEF SetDefaultMessageHandler, ConfigOK
  <2>2. ClientOK' /\ ServerOK' /\ OutputOK'
    BY <1>3, ClientSame, ServerSame, OutputSame DEF SetDefaultMessageHandler
  <2>3. StackOK'
    BY <1>3 DEF SetDefaultMessageHandler, StackOK, FramesRead, serverVars
  <2> QED BY <2>1, <2>2, <2>3
<1>4. CASE Destroy
  <2>1. ConfigOK'
    BY <1>4 DEF Destroy, ConfigOK
  <2>2. ClientOK' /\ ServerOK' /\ OutputOK'
    BY <1>4, ClientSame, ServerSame, OutputSame DEF Destroy
  <2>3. StackOK'
    BY <1>4 DEF Destroy, StackOK, FramesRead, serverVars
  <2> QED BY <2>1, <2>2, <2>3
<1> QED BY <1>1, <1>2, <1>3, <1>4 DEF Configure

LEMMA CallStep == Inv /\ Call => Inv'
<1> SUFFICES ASSUME Inv, Call PROVE Inv'
  OBVIOUS
<1> USE DEF Inv
<1>0. NextCall \in Nat
  BY DEF NextCall, ClientOK
<1>1. ASSUME NEW id \in AnyId, SendRequest(id) PROVE Inv'
  <2>1. ClientOK'
    BY <1>1, RegisterClient DEF SendRequest
  <2>2. ConfigOK' /\ ServerOK'
    BY <1>1, ConfigSame, ServerSame DEF SendRequest
  <2>3. StackOK'
    BY <1>1 DEF SendRequest, StackOK, FramesRead, serverVars
  <2>4. OutputOK'
    <3>1. CASE CanRegister(id)
      <4>1. SendMessage(FALSE, <<RequestBody(id, NextCall)>>)
        BY <1>1, <3>1 DEF SendRequest
      <4>2. <<RequestBody(id, NextCall)>> \in Seq(Body)
        BY <1>0, BodyTypes
      <4> QED BY <4>1, <4>2, SendMessageType DEF OutputOK, ConfigOK
    <3>2. CASE ~CanRegister(id)
      BY <1>1, <3>2, OutputSame DEF SendRequest
    <3> QED BY <3>1, <3>2
  <2> QED BY <2>1, <2>2, <2>3, <2>4
<1>2. CASE SendNotification
  <2>1. ConfigOK' /\ ClientOK' /\ ServerOK'
    BY <1>2, ConfigSame, ClientSame, ServerSame DEF SendNotification
  <2>2. StackOK'
    BY <1>2 DEF SendNotification, StackOK, FramesRead, serverVars
  <2>3. OutputOK'
    <3>1. <<NotificationBody>> \in Seq(Body)
      BY BodyTypes
    <3> QED BY <1>2, <3>1, SendMessageType
            DEF SendNotification, OutputOK, ConfigOK
  <2> QED BY <2>1, <2>2, <2>3
<1>3. ASSUME NEW items \in OutBatches, SendBatch(items) PROVE Inv'
  <2>1. ConfigOK' /\ ClientOK' /\ ServerOK' /\ OutputOK'
    BY <1>3, ConfigSame, ClientSame, ServerSame, OutputSame DEF SendBatch
  <2>2. Frame("send", 0, items) \in FrameType
    BY NewFrames, ConstantsAssumption DEF ConstantsAssumption, FrameType
  <2>3. Frame("send", 0, items).loop = "send"
    BY DEF Frame
  <2>4. StackOK'
    BY <1>3, <2>2, <2>3, EnterFrames, SameReceived
    DEF SendBatch, StackOK, serverVars
  <2> QED BY <2>1, <2>4
<1> QED BY <1>1, <1>2, <1>3 DEF Call

\* The loop of sendBatch.
LEMMA SendLoopStep ==
  Inv /\ (SendBatchNotification \/ SendBatchRequest \/ SendBatchEnd) => Inv'
<1> SUFFICES ASSUME Inv,
                    SendBatchNotification \/ SendBatchRequest \/ SendBatchEnd
             PROVE  Inv'
  OBVIOUS
<1> USE DEF Inv
<1>0. NextCall \in Nat
  BY DEF NextCall, ClientOK
<1>1. CASE SendBatchNotification
  <2>1. ConfigOK' /\ ClientOK' /\ ServerOK' /\ OutputOK'
    BY <1>1, ConfigSame, ClientSame, ServerSame, OutputSame
    DEF SendBatchNotification
  <2>2. Append(Top.array, NotificationBody) \in Seq(Body)
    BY <1>1, SendTop, BodyTypes DEF SendBatchNotification
  <2>3. stack' \in Seq(FrameType) /\ NoNewLoop
    BY <1>1, <2>2, SendTop, AdvanceType DEF SendBatchNotification, StackOK
  <2>4. StackOK'
    BY <1>1, <2>3, FramesStay, SameReceived
    DEF SendBatchNotification, StackOK, serverVars
  <2> QED BY <2>1, <2>4
<1>2. CASE SendBatchRequest
  <2>1. ClientOK'
    BY <1>2, SendTop, RegisterClient DEF SendBatchRequest
  <2>2. ConfigOK' /\ ServerOK' /\ OutputOK'
    BY <1>2, ConfigSame, ServerSame, OutputSame DEF SendBatchRequest
  <2>3. Append(Top.array, RequestBody(TopItem, NextCall)) \in Seq(Body)
    BY <1>0, <1>2, SendTop, BodyTypes DEF SendBatchRequest
  <2>4. stack' \in Seq(FrameType) /\ NoNewLoop
    <3>1. CASE CanRegister(TopItem)
      BY <1>2, <2>3, <3>1, SendTop, AdvanceType DEF SendBatchRequest, StackOK
    <3>2. CASE ~CanRegister(TopItem)
      BY <1>2, <3>2, SendTop, AdvanceType DEF SendBatchRequest, StackOK
    <3> QED BY <3>1, <3>2
  <2>5. StackOK'
    BY <1>2, <2>4, FramesStay, SameReceived
    DEF SendBatchRequest, StackOK, serverVars
  <2> QED BY <2>1, <2>2, <2>5
<1>3. CASE SendBatchEnd
  <2>1. ConfigOK' /\ ClientOK' /\ ServerOK'
    BY <1>3, ConfigSame, ClientSame, ServerSame DEF SendBatchEnd
  <2>2. stack' \in Seq(FrameType) /\ NoNewLoop
    BY <1>3, SendTop, LeaveType DEF SendBatchEnd, StackOK
  <2>3. StackOK'
    BY <1>3, <2>2, FramesStay, SameReceived
    DEF SendBatchEnd, StackOK, serverVars
  <2>4. OutputOK'
    <3>1. CASE Top.array # <<>>
      BY <1>3, <3>1, SendTop, SendMessageType
      DEF SendBatchEnd, OutputOK, ConfigOK
    <3>2. CASE Top.array = <<>>
      BY <1>3, <3>2, OutputSame DEF SendBatchEnd
    <3> QED BY <3>1, <3>2
  <2> QED BY <2>1, <2>3, <2>4
<1> QED BY <1>1, <1>2, <1>3

\* Documents that arrive.
LEMMA ReceiveStep == Inv /\ Receive => Inv'
<1> SUFFICES ASSUME Inv, NEW t \in hooked, NEW doc \in Documents,
                    \/ ReceiveStopped(t, doc)
                    \/ ReceiveInvalid(t, doc)
                    \/ ReceiveRequest(t, doc)
                    \/ ReceiveNotification(t, doc)
                    \/ ReceiveResponse(t, doc)
                    \/ ReceiveRequestBatch(t, doc)
                    \/ ReceiveResponseBatch(t, doc)
             PROVE  Inv'
  BY DEF Receive
<1> USE DEF Inv
<1>1. PICK stopped \in BOOLEAN : Arrive(t, doc, stopped)
  BY DEF ReceiveStopped, ReceiveInvalid, ReceiveRequest, ReceiveNotification,
         ReceiveResponse, ReceiveRequestBatch, ReceiveResponseBatch
<1>2. /\ received' \in Seq(ArrivalType) /\ Len(received') <= MaxArrivals
      /\ Arrival \in 1..MaxArrivals /\ Arrival \in DOMAIN received'
      /\ received'[Arrival].doc = doc
      /\ KeepsReceived
  BY <1>1, ArriveFacts
<1>3. ConfigOK'
  BY <1>1, ConfigSame DEF Arrive
<1>4. /\ <<Arrival, 1>> \in (1..MaxArrivals) \X Nat
      /\ <<Arrival, 1>> \in Nat \X Nat
  BY <1>2, ConstantsAssumption DEF ConstantsAssumption
<1>5. UNCHANGED clientVars => ClientOK'
  BY ClientSame
<1>6. UNCHANGED stack => StackOK'
  BY <1>2, SameStack, FramesStay DEF StackOK
<1>7. UNCHANGED <<batch, open>> => ServerOK'
  <2> SUFFICES ASSUME UNCHANGED <<batch, open>> PROVE ServerOK'
    OBVIOUS
  <2>1. OpenAreRequests'
    BY <1>2 DEF ServerOK, OpenAreRequests, KeepsReceived, ItemAt
  <2> QED BY <1>2, <2>1 DEF ServerOK
\* User code gets the request.
<1>8. ASSUME UNCHANGED batch, open' = open \cup {<<Arrival, 1>>},
             doc.type = "object", IsRequest(doc.items[1])
      PROVE  ServerOK'
  <2> DEFINE new == {<<Arrival, 1>>}
  <2>1. OpenAreRequests'
    <3>1. \A r \in new : /\ r[1] \in DOMAIN received'
                         /\ r[2] \in DOMAIN received'[r[1]].doc.items
                         /\ IsRequest(received'[r[1]].doc.items[r[2]])
      BY <1>2, <1>8, DocumentItems
    <3>2. OpenAreRequests /\ KeepsReceived /\ open' \subseteq open \cup new
      BY <1>2, <1>8 DEF ServerOK
    <3> HIDE DEF new
    <3> QED BY <3>1, <3>2, OpenStays
  <2> QED BY <1>2, <1>4, <1>8, <2>1 DEF ServerOK
<1>9. UNCHANGED <<fault, wire>> => OutputOK'
  BY OutputSame
<1>10. ASSUME NEW body \in Body, SendMessage(FALSE, <<body>>) PROVE OutputOK'
  <2>1. <<body>> \in Seq(Body) OBVIOUS
  <2> QED BY <1>10, <2>1, SendMessageType DEF OutputOK, ConfigOK
<1>11. CASE ReceiveStopped(t, doc)
  BY <1>3, <1>5, <1>6, <1>7, <1>8, <1>9, <1>11 DEF ReceiveStopped
<1>12. CASE ReceiveInvalid(t, doc)
  <2>1. ErrorBody(<<Arrival, 1>>) \in Body BY <1>4, BodyTypes
  <2> QED BY <1>3, <1>5, <1>6, <1>7, <1>10, <1>12, <2>1 DEF ReceiveInvalid
<1>13. CASE ReceiveRequest(t, doc)
  <2>1. ResponseBody(doc.items[1].id, <<Arrival, 1>>) \in Body
    BY <1>4, <1>13, BodyTypes, DocumentItems, RequestId
    DEF ReceiveRequest, IsSingle
  <2>2. CASE HasHandler(doc.items[1].method)
    BY <1>3, <1>5, <1>6, <1>8, <1>9, <1>13, <2>2 DEF ReceiveRequest, IsSingle
  <2>3. CASE ~HasHandler(doc.items[1].method)
    BY <1>3, <1>5, <1>6, <1>7, <1>10, <1>13, <2>1, <2>3 DEF ReceiveRequest
  <2> QED BY <2>2, <2>3
<1>14. CASE ReceiveNotification(t, doc)
  BY <1>3, <1>5, <1>6, <1>7, <1>9, <1>14 DEF ReceiveNotification
<1>15. CASE ReceiveResponse(t, doc)
  <2>1. ClientOK'
    BY <1>4, <1>15, ProcessResponseClient DEF ReceiveResponse
  <2> QED BY <1>3, <1>6, <1>7, <1>9, <1>15, <2>1 DEF ReceiveResponse
<1>16. CASE ReceiveRequestBatch(t, doc)
  <2>1. NewBatch("alive", transport) \in BatchType
    BY DEF NewBatch, BatchType, ConfigOK
  <2>2. batch' \in [1..MaxArrivals -> BatchType]
    BY <1>2, <1>16, <2>1, SetBatch DEF ReceiveRequestBatch, ServerOK
  <2>3. ServerOK'
    <3>1. OpenAreRequests'
      BY <1>2, <1>16
      DEF ReceiveRequestBatch, ServerOK, OpenAreRequests, KeepsReceived, ItemAt
    <3> QED BY <1>2, <1>16, <2>2, <3>1 DEF ServerOK, ReceiveRequestBatch
  <2>4. /\ Frame("requests", Arrival, doc.items) \in FrameType
        /\ Frame("requests", Arrival, doc.items).n = Arrival
        /\ Frame("requests", Arrival, doc.items).items = doc.items
    BY <1>2, DocumentItems, NewFrames DEF FrameType, Frame
  <2>5. StackOK'
    BY <1>2, <1>16, <2>4, EnterFrames DEF ReceiveRequestBatch, StackOK
  <2> QED BY <1>3, <1>5, <1>9, <1>16, <2>3, <2>5 DEF ReceiveRequestBatch
<1>17. CASE ReceiveResponseBatch(t, doc)
  <2>1. /\ Frame("responses", Arrival, doc.items) \in FrameType
        /\ Frame("responses", Arrival, doc.items).n = Arrival
        /\ Frame("responses", Arrival, doc.items).items = doc.items
    BY <1>2, DocumentItems, NewFrames DEF FrameType, Frame
  <2>2. StackOK'
    BY <1>2, <1>17, <2>1, EnterFrames DEF ReceiveResponseBatch, StackOK
  <2> QED BY <1>3, <1>5, <1>7, <1>9, <1>17, <2>2 DEF ReceiveResponseBatch
<1> QED BY <1>11, <1>12, <1>13, <1>14, <1>15, <1>16, <1>17

\* The loop over a response array.
LEMMA ResponsesLoopStep == Inv /\ (ResponsesStep \/ ResponsesEnd) => Inv'
<1> SUFFICES ASSUME Inv, ResponsesStep \/ ResponsesEnd PROVE Inv'
  OBVIOUS
<1> USE DEF Inv
<1>1. CASE ResponsesStep
  <2>1. <<Top.n, Top.next>> \in Nat \X Nat
    BY <1>1, ReadTop, ConstantsAssumption
    DEF ResponsesStep, ConstantsAssumption
  <2>2. ClientOK'
    BY <1>1, <2>1, ProcessResponseClient DEF ResponsesStep
  <2>3. ConfigOK' /\ ServerOK' /\ OutputOK'
    BY <1>1, ConfigSame, ServerSame, OutputSame DEF ResponsesStep
  <2>4. stack' \in Seq(FrameType) /\ NoNewLoop
    <3>1. <<>> \in Seq(Body) OBVIOUS
    <3> QED BY <1>1, <3>1, ReadTop, AdvanceType DEF ResponsesStep, StackOK
  <2>5. StackOK'
    BY <1>1, <2>4, FramesStay, SameReceived
    DEF ResponsesStep, StackOK, serverVars
  <2> QED BY <2>2, <2>3, <2>5
<1>2. CASE ResponsesEnd
  <2>1. ConfigOK' /\ ClientOK' /\ ServerOK' /\ OutputOK'
    BY <1>2, ConfigSame, ClientSame, ServerSame, OutputSame DEF ResponsesEnd
  <2>2. stack' \in Seq(FrameType) /\ NoNewLoop
    BY <1>2, ReadTop, LeaveType DEF ResponsesEnd, StackOK
  <2>3. StackOK'
    BY <1>2, <2>2, FramesStay, SameReceived
    DEF ResponsesEnd, StackOK, serverVars
  <2> QED BY <2>1, <2>3
<1> QED BY <1>1, <1>2

\* RequestBatchHandler::processMessages.
LEMMA BatchLoopStep ==
  ASSUME Inv,
         BatchInvalid \/ BatchNotification \/ BatchRequest \/ BatchEnd
           \/ BatchUseAfterFree
  PROVE  Inv'
<1> USE DEF Inv
<1>1. /\ stack # <<>> /\ Top \in ReadFrame
      /\ Top.n \in 1..MaxArrivals /\ Top.next \in Nat \ {0}
      /\ Top.n \in DOMAIN received
      /\ More => /\ Top.next \in DOMAIN received[Top.n].doc.items
                 /\ TopItem = received[Top.n].doc.items[Top.next]
                 /\ TopItem \in Item
  BY ReadTop DEF BatchInvalid, BatchNotification, BatchRequest, BatchEnd,
                 BatchUseAfterFree
<1>2. batch[Top.n] \in BatchType /\ ThisBatch = batch[Top.n]
  BY <1>1 DEF ServerOK, ThisBatch
<1>3. /\ <<Top.n, Top.next>> \in (1..MaxArrivals) \X Nat
      /\ <<Top.n, Top.next>> \in Nat \X Nat
  BY <1>1, ConstantsAssumption DEF ConstantsAssumption
<1>4. ConfigOK' /\ ClientOK'
  BY ConfigSame, ClientSame
  DEF BatchInvalid, BatchNotification, BatchRequest, BatchEnd,
      BatchUseAfterFree
<1>5. KeepsReceived /\ UNCHANGED received
  BY SameReceived
  DEF BatchInvalid, BatchNotification, BatchRequest, BatchEnd,
      BatchUseAfterFree, serverVars
<1>6. ASSUME NEW user \in BOOLEAN, Advance(user, <<>>) PROVE StackOK'
  <2>1. <<>> \in Seq(Body) OBVIOUS
  <2> QED BY <1>1, <1>5, <1>6, <2>1, AdvanceType, FramesStay DEF StackOK
\* m_finished or m_pending of this batch changes.
<1>7. ASSUME NEW b \in BatchType, batch' = [batch EXCEPT ![Top.n] = b],
             UNCHANGED open
      PROVE  ServerOK'
  <2>1. OpenAreRequests'
    BY <1>5, <1>7 DEF ServerOK, OpenAreRequests, ItemAt
  <2> QED BY <1>1, <1>5, <1>7, <2>1, SetBatch DEF ServerOK
<1>8. ASSUME NEW body \in Body, batch' = Finish(Top.n, body), UNCHANGED open
      PROVE  ServerOK'
  <2> DEFINE b == [batch[Top.n] EXCEPT !.finished = Append(@, body)]
  <2>1. b \in BatchType BY <1>2, BatchChanges
  <2>2. batch' = [batch EXCEPT ![Top.n] = b]
    BY <1>1, <1>8 DEF Finish, ServerOK
  <2> HIDE DEF b
  <2> QED BY <1>7, <1>8, <2>1, <2>2
<1>9. CASE BatchInvalid
  <2>1. ErrorBody(<<Top.n, Top.next>>) \in Body BY <1>3, BodyTypes
  <2> QED BY <1>4, <1>6, <1>8, <1>9, <2>1, OutputSame DEF BatchInvalid
<1>10. CASE BatchNotification
  <2>1. HasHandler(TopItem.method) \in BOOLEAN
    BY <1>1, <1>10
    DEF HasHandler, BatchNotification, IsNotification, ConfigOK
  <2> QED BY <1>4, <1>6, <1>10, <2>1, ServerSame, OutputSame
          DEF BatchNotification
<1>11. CASE BatchRequest
  <2>1. CASE HasHandler(TopItem.method)
    <3> DEFINE b == [batch[Top.n] EXCEPT !.pending = @ + 1]
               new == {<<Top.n, Top.next>>}
    <3>1. b \in BatchType BY <1>2, BatchChanges
    <3>2. batch' = [batch EXCEPT ![Top.n] = b]
      BY <1>1, <1>11, <2>1 DEF BatchRequest, ServerOK
    <3> HIDE DEF b
    <3>3. batch' \in [1..MaxArrivals -> BatchType]
      BY <1>1, <3>1, <3>2, SetBatch DEF ServerOK
    <3>4. OpenAreRequests'
      <4>1. \A r \in new : /\ r[1] \in DOMAIN received'
                           /\ r[2] \in DOMAIN received'[r[1]].doc.items
                           /\ IsRequest(received'[r[1]].doc.items[r[2]])
        BY <1>1, <1>5, <1>11 DEF BatchRequest
      <4> QED BY <1>5, <1>11, <2>1, <4>1, OpenStays DEF BatchRequest, ServerOK
    <3>5. ServerOK'
      BY <1>3, <1>5, <1>11, <2>1, <3>3, <3>4 DEF ServerOK, BatchRequest
    <3> QED BY <1>4, <1>6, <1>11, <2>1, <3>5, OutputSame DEF BatchRequest
  <2>2. CASE ~HasHandler(TopItem.method)
    <3>1. ResponseBody(TopItem.id, <<Top.n, Top.next>>) \in Body
      BY <1>1, <1>3, <1>11, BodyTypes, RequestId DEF BatchRequest
    <3> QED BY <1>4, <1>6, <1>8, <1>11, <2>2, <3>1, OutputSame
            DEF BatchRequest
  <2> QED BY <2>1, <2>2
<1>12. CASE BatchEnd
  <2>1. StackOK'
    BY <1>1, <1>5, <1>12, LeaveType, FramesStay DEF BatchEnd, StackOK
  <2>2. CASE ThisBatch.pending = 0
    <3> DEFINE b == [batch[Top.n] EXCEPT !.state = "deleted"]
    <3>1. b \in BatchType BY <1>2, BatchChanges
    <3>2. batch' = [batch EXCEPT ![Top.n] = b]
      BY <1>1, <1>12, <2>2 DEF BatchEnd, ServerOK
    <3> HIDE DEF b
    <3>3. ServerOK'
      BY <1>7, <1>12, <3>1, <3>2 DEF BatchEnd
    <3>4. OutputOK'
      BY <1>2, <1>12, <2>2, FlushType DEF BatchEnd, OutputOK
    <3> QED BY <1>4, <2>1, <3>3, <3>4
  <2>3. CASE ThisBatch.pending # 0
    <3>1. ServerOK' /\ OutputOK'
      BY <1>5, <1>12, <2>3, ServerSame, OutputSame DEF BatchEnd, serverVars
    <3> QED BY <1>4, <2>1, <3>1
  <2> QED BY <2>2, <2>3
<1>13. CASE BatchUseAfterFree
  <2>1. ServerOK' BY <1>13, ServerSame DEF BatchUseAfterFree
  <2>2. StackOK'
    BY <1>5, <1>13, SameStack, FramesStay DEF BatchUseAfterFree, StackOK
  <2>3. OutputOK' BY <1>13 DEF BatchUseAfterFree, OutputOK
  <2> QED BY <1>4, <2>1, <2>2, <2>3
<1> QED BY <1>9, <1>10, <1>11, <1>12, <1>13

\* Answers of user code.
LEMMA ReplyStep ==
  ASSUME Inv, NEW r \in open, Reply(r)
  PROVE  Inv'
<1> USE DEF Inv
<1>1. /\ r \in (1..MaxArrivals) \X Nat /\ r \in Nat \X Nat
      /\ r[1] \in 1..MaxArrivals /\ batch[r[1]] \in BatchType
  BY ConstantsAssumption DEF ServerOK, ConstantsAssumption
<1>2. ItemAt(r).id \in AnyId
  <2>1. /\ r[1] \in DOMAIN received
        /\ r[2] \in DOMAIN received[r[1]].doc.items
        /\ IsRequest(ItemAt(r))
    BY DEF ServerOK, OpenAreRequests
  <2>2. received[r[1]].doc \in Documents
    <3>1. received[r[1]] \in ArrivalType BY <2>1 DEF ServerOK
    <3> QED BY <3>1 DEF ArrivalType
  <2>3. ItemAt(r) \in Item
    BY <2>1, <2>2, DocumentItems DEF ItemAt
  <2> QED BY <2>1, <2>3, RequestId
<1>3. ResponseBody(ItemAt(r).id, r) \in Body
  BY <1>1, <1>2, BodyTypes
<1>4. ConfigOK' /\ ClientOK' /\ UNCHANGED <<received, stack>>
  BY ConfigSame, ClientSame DEF Reply, ReplySingle, ReplyInBatch
<1>5. StackOK'
  BY <1>4, SameStack, SameReceived, FramesStay DEF StackOK
<1>6. open' = open \ {r}
  BY DEF Reply, ReplySingle, ReplyInBatch
<1>7. OpenAreRequests'
  BY <1>4, <1>6 DEF ServerOK, OpenAreRequests, ItemAt
<1>8. CASE ReplySingle(r)
  <2>1. ServerOK'
    BY <1>4, <1>6, <1>7, <1>8 DEF ReplySingle, ServerOK
  <2>2. <<ResponseBody(ItemAt(r).id, r)>> \in Seq(Body)
    BY <1>3
  <2>3. OutputOK'
    BY <1>8, <2>2, SendMessageType DEF ReplySingle, OutputOK, ConfigOK
  <2> QED BY <1>4, <1>5, <2>1, <2>3
<1>9. CASE ReplyInBatch(r)
  <2> DEFINE body == ResponseBody(ReplyId(r), r)
             b1 == [batch[r[1]] EXCEPT !.finished = Append(@, body)]
             b == [b1 EXCEPT !.pending = @ - 1]
             c == [batch[r[1]] EXCEPT !.finished = Append(@, body),
                                      !.pending = @ - 1]
  <2>1. b1 \in BatchType BY <1>1, <1>3, BatchChanges DEF ReplyId
  <2>2. b \in BatchType
    <3> HIDE DEF b1
    <3> QED BY <2>1, BatchChanges
  <2>3. c = b
    BY <1>1 DEF BatchType
  <2> HIDE DEF b1, b
  <2>4. [c EXCEPT !.state = "deleted"] \in BatchType /\ c \in BatchType
    BY <2>2, <2>3, BatchChanges
  <2>5. CASE c.pending = 0
    <3>1. /\ batch' = [batch EXCEPT ![r[1]] = [c EXCEPT !.state = "deleted"]]
          /\ Flush(c) /\ UNCHANGED fault
      BY <1>9, <2>5 DEF ReplyInBatch
    <3> HIDE DEF c
    <3>2. batch' \in [1..MaxArrivals -> BatchType]
      BY <1>1, <2>4, <3>1, SetBatch DEF ServerOK
    <3>3. ServerOK' BY <1>4, <1>6, <1>7, <3>2 DEF ServerOK
    <3>4. OutputOK' BY <2>4, <3>1, FlushType DEF OutputOK
    <3> QED BY <1>4, <1>5, <3>3, <3>4
  <2>6. CASE c.pending # 0
    <3>1. batch' = [batch EXCEPT ![r[1]] = c] /\ UNCHANGED <<wire, fault>>
      BY <1>9, <2>6 DEF ReplyInBatch
    <3> HIDE DEF c
    <3>2. batch' \in [1..MaxArrivals -> BatchType]
      BY <1>1, <2>4, <3>1, SetBatch DEF ServerOK
    <3>3. ServerOK' BY <1>4, <1>6, <1>7, <3>2 DEF ServerOK
    <3> QED BY <1>4, <1>5, <3>1, <3>3, OutputSame
  <2> QED BY <2>5, <2>6
<1> QED BY <1>8, <1>9 DEF Reply

\* The destroyed protocol is called.
LEMMA UseDestroyedStep == Inv /\ UseDestroyed => Inv'
<1> SUFFICES ASSUME Inv, UseDestroyed PROVE Inv'
  OBVIOUS
<1> USE DEF Inv
<1>1. ConfigOK' /\ ClientOK' /\ ServerOK'
  BY ConfigSame, ClientSame, ServerSame DEF UseDestroyed
<1>2. StackOK'
  BY DEF UseDestroyed, StackOK, FramesRead, serverVars
<1>3. OutputOK'
  BY DEF UseDestroyed, OutputOK
<1> QED BY <1>1, <1>2, <1>3

---------------------------------------------------------------------------
\* The theorems.

LEMMA InitInv == Init => Inv
<1> SUFFICES ASSUME Init PROVE Inv
  OBVIOUS
<1>1. batch \in [1..MaxArrivals -> BatchType]
  <2>1. NewBatch("none", NoTransport) \in BatchType BY DEF NewBatch, BatchType
  <2> QED BY <2>1 DEF Init
<1>2. FramesRead /\ OpenAreRequests /\ EachCallOnce
  BY DEF Init, FramesRead, OpenAreRequests, EachCallOnce
<1>3. ConfigOK BY DEF Init, ConfigOK
<1>4. ClientOK BY <1>2 DEF Init, ClientOK
<1>5. ServerOK
  BY <1>1, <1>2, ConstantsAssumption DEF Init, ServerOK, ConstantsAssumption
<1>6. StackOK /\ OutputOK BY <1>2 DEF Init, StackOK, OutputOK
<1> QED BY <1>3, <1>4, <1>5, <1>6 DEF Inv

\* Inv is an invariant.
THEOREM Invariance == Spec => []Inv
<1>1. Init => Inv BY InitInv
<1>2. Inv /\ [Next]_vars => Inv'
  <2> SUFFICES ASSUME Inv, [Next]_vars PROVE Inv'
    OBVIOUS
  <2>1. CASE Configure BY <2>1, ConfigureStep
  <2>2. CASE Call BY <2>2, CallStep
  <2>3. CASE Receive BY <2>3, ReceiveStep
  <2>4. CASE LoopStep
    BY <2>4, SendLoopStep, ResponsesLoopStep, BatchLoopStep DEF LoopStep
  <2>5. CASE \E r \in open : Reply(r) BY <2>5, ReplyStep
  <2>6. CASE UseDestroyed BY <2>6, UseDestroyedStep
  <2>7. CASE UNCHANGED vars
    <3>1. ConfigOK' /\ ClientOK' /\ ServerOK' /\ OutputOK'
      BY <2>7, ConfigSame, ClientSame, ServerSame, OutputSame
      DEF vars, Inv, configVars, clientVars, serverVars
    <3>2. StackOK'
      BY <2>7, SameStack, SameReceived, FramesStay DEF vars, Inv, StackOK
    <3> QED BY <3>1, <3>2 DEF Inv
  <2> QED BY <2>1, <2>2, <2>3, <2>4, <2>5, <2>6, <2>7 DEF Next
<1> QED BY <1>1, <1>2, PTL DEF Spec

\* Type correctness of the protocol object, with the facts that tie the loops
\* in progress and the requests user code holds to the documents received.
THEOREM TypeCorrect == Spec => []TypeOK
<1>1. Inv => TypeOK BY InvIsTypeOKAndEachCallOnce
<1> QED BY <1>1, Invariance, PTL

\* Whatever user code does in the callbacks of sendBatch and of the response
\* loop, the handler of every request is called exactly once, or is still
\* registered and will be called by the response with its id.
THEOREM HandlersCalledOnce == Spec => []EachCallOnce
<1>1. Inv => EachCallOnce BY InvIsTypeOKAndEachCallOnce
<1> QED BY <1>1, Invariance, PTL
=============================================================================
