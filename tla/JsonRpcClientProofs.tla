------------------------ MODULE JsonRpcClientProofs ------------------------
(***************************************************************************)
(* Proofs about the requests an endpoint sends and the responses it gets:  *)
(* that an accepted request is transmitted exactly once, and that a        *)
(* response array is delivered in its order; and, last, that an endpoint   *)
(* implements RpcExchange.                                                 *)
(*                                                                         *)
(* A request is in the bodies of a message on the wire, or in the array a  *)
(* loop of sendBatch is building.  Both are sequences of sequences of      *)
(* bodies, which a step makes longer or shorter by one, or of which it     *)
(* changes the one of the top loop.                                        *)
(***************************************************************************)
EXTENDS JsonRpcBatchProofs

---------------------------------------------------------------------------
\* Where requests are.

Carries(bodies, r) ==
  \E j \in DOMAIN bodies : bodies[j].kind = "request" /\ bodies[j].ref = r
NoRequests(bodies) == \A r : ~Carries(bodies, r)
OnceEach(bodies) ==
  \A i, j \in DOMAIN bodies :
    bodies[i].kind = "request" /\ bodies[j].kind = "request"
      /\ bodies[i].ref = bodies[j].ref => i = j

\* The same of a sequence of bodies.
CarriedIn(B, r) == \E k \in DOMAIN B : Carries(B[k], r)
Apart(B) ==
  /\ \A k \in DOMAIN B : OnceEach(B[k])
  /\ \A r : \A k, l \in DOMAIN B :
       Carries(B[k], r) /\ Carries(B[l], r) => k = l

Bodies(w) == [k \in DOMAIN w |-> w[k].bodies]
Arrays(s) == [k \in DOMAIN s |-> s[k].array]

Accepted(made, r) == \E c \in DOMAIN made :
                        r = <<c, 0>> /\ made[c].rejected = 0

\* The invariant: W are the bodies on the wire, S the arrays of the loops.
\* A request may be lost when there is no transport to send it to.
RequestsOK(W, S, made, lossless) ==
  /\ Apart(W) /\ Apart(S)
  /\ \A r : ~(CarriedIn(W, r) /\ CarriedIn(S, r))
  /\ \A r : CarriedIn(W, r) \/ CarriedIn(S, r) => Accepted(made, r)
  /\ lossless => \A r : Accepted(made, r) => CarriedIn(W, r) \/ CarriedIn(S, r)

SentInv == RequestsOK(Bodies(wire), Arrays(stack), calls, fault = "none")

---------------------------------------------------------------------------
\* Bodies.

LEMMA BodyCarries ==
  ASSUME NEW bodies \in Seq(Body), NEW body, NEW more,
         OneMore(more, bodies, body)
  PROVE  /\ \A r : Carries(more, r) <=>
                     Carries(bodies, r) \/ (body.kind = "request"
                                            /\ body.ref = r)
         /\ OnceEach(bodies) /\ (body.kind = "request" =>
                                   ~Carries(bodies, body.ref))
              => OnceEach(more)
<1>1. /\ DOMAIN more = DOMAIN bodies \cup {Len(bodies) + 1}
      /\ Len(bodies) + 1 \notin DOMAIN bodies
      /\ \A j \in DOMAIN bodies : more[j] = bodies[j]
      /\ more[Len(bodies) + 1] = body
  BY DEF OneMore
<1>2. \A r : Carries(more, r) <=>
               Carries(bodies, r) \/ (body.kind = "request" /\ body.ref = r)
  BY <1>1 DEF Carries
<1>3. OnceEach(bodies) /\ (body.kind = "request" => ~Carries(bodies, body.ref))
        => OnceEach(more)
  BY <1>1 DEF OnceEach, Carries
<1> QED BY <1>2, <1>3

LEMMA OneCarries ==
  ASSUME NEW body
  PROVE  /\ \A r : Carries(<<body>>, r) <=>
                     body.kind = "request" /\ body.ref = r
         /\ OnceEach(<<body>>)
BY DEF Carries, OnceEach

LEMMA NoneCarried ==
  /\ NoRequests(<<>>)
  /\ \A bodies : (\A j \in DOMAIN bodies : bodies[j].kind # "request")
                   => NoRequests(bodies)
  /\ \A bodies : NoRequests(bodies) => OnceEach(bodies)
BY DEF NoRequests, Carries, OnceEach

\* The bodies the protocol makes.
LEMMA WhatBodiesCarry ==
  /\ \A id, c : /\ RequestBody(id, c).kind = "request"
                /\ RequestBody(id, c).ref = <<c, 0>>
  /\ NotificationBody.kind # "request"
  /\ \A id, r : ResponseBody(id, r).kind # "request"
  /\ \A r : ErrorBody(r).kind # "request"
BY DEF RequestBody, NotificationBody, ResponseBody, ErrorBody

---------------------------------------------------------------------------
\* Sequences of bodies that differ in one.

\* B is C with bodies as one more element.
OneMoreIn(B, bodies, C) ==
  /\ \A r : CarriedIn(B, r) <=> Carries(bodies, r) \/ CarriedIn(C, r)
  /\ Apart(B) <=> /\ Apart(C) /\ OnceEach(bodies)
                  /\ \A r : ~(Carries(bodies, r) /\ CarriedIn(C, r))

\* It is at p, and the others are d places further than in C.
Shifted(B, bodies, C, p, d) ==
  /\ p \in DOMAIN B /\ B[p] = bodies
  /\ \A k \in DOMAIN C : k + d \in DOMAIN B /\ k + d # p /\ B[k + d] = C[k]
  /\ \A k \in DOMAIN B : k = p \/ (k - d \in DOMAIN C /\ B[k] = C[k - d])
  /\ DOMAIN B \subseteq Int /\ DOMAIN C \subseteq Int

LEMMA ShiftedIsOneMore ==
  ASSUME NEW B, NEW C, NEW bodies, NEW p \in Int, NEW d \in Int,
         Shifted(B, bodies, C, p, d)
  PROVE  OneMoreIn(B, bodies, C)
<1>1. \A r : CarriedIn(B, r) <=> Carries(bodies, r) \/ CarriedIn(C, r)
  BY DEF Shifted, CarriedIn
<1>2. ASSUME Apart(B)
      PROVE  /\ Apart(C) /\ OnceEach(bodies)
             /\ \A r : ~(Carries(bodies, r) /\ CarriedIn(C, r))
  <2>1. OnceEach(bodies) BY <1>2 DEF Shifted, Apart
  <2>2. \A k \in DOMAIN C : OnceEach(C[k])
    <3> SUFFICES ASSUME NEW k \in DOMAIN C PROVE OnceEach(C[k])
      OBVIOUS
    <3>1. k + d \in DOMAIN B /\ B[k + d] = C[k] BY DEF Shifted
    <3>2. OnceEach(B[k + d]) BY <1>2, <3>1 DEF Apart
    <3> QED BY <3>1, <3>2
  <2>3. ASSUME NEW r, NEW k \in DOMAIN C, NEW l \in DOMAIN C,
               Carries(C[k], r), Carries(C[l], r)
        PROVE  k = l
    <3>1. /\ k + d \in DOMAIN B /\ l + d \in DOMAIN B
          /\ B[k + d] = C[k] /\ B[l + d] = C[l] /\ k \in Int /\ l \in Int
      BY DEF Shifted
    <3>2. k + d = l + d
      BY <1>2, <2>3, <3>1 DEF Apart
    <3>3. k \in Int /\ l \in Int
      BY <3>1
    <3>4. \A x, y \in Int : x + d = y + d => x = y
      OBVIOUS
    <3> QED BY <3>2, <3>3, <3>4
  <2>4. ASSUME NEW r, Carries(bodies, r), NEW k \in DOMAIN C, Carries(C[k], r)
        PROVE  FALSE
    <3>1. k + d \in DOMAIN B /\ k + d # p /\ B[k + d] = C[k]
          /\ p \in DOMAIN B /\ B[p] = bodies
      BY DEF Shifted
    <3> QED BY <1>2, <2>4, <3>1 DEF Apart
  <2> QED BY <2>1, <2>2, <2>3, <2>4 DEF Apart, CarriedIn
<1>3. ASSUME Apart(C), OnceEach(bodies),
             \A r : ~(Carries(bodies, r) /\ CarriedIn(C, r))
      PROVE  Apart(B)
  <2>1. ASSUME NEW k \in DOMAIN B PROVE OnceEach(B[k])
    <3>1. CASE k = p BY <1>3, <3>1 DEF Shifted
    <3>2. CASE k # p
      <4>1. k - d \in DOMAIN C /\ B[k] = C[k - d]
        BY <3>2 DEF Shifted
      <4>2. OnceEach(C[k - d]) BY <1>3, <4>1 DEF Apart
      <4> QED BY <4>1, <4>2
    <3> QED BY <3>1, <3>2
  <2>2. ASSUME NEW r, NEW k \in DOMAIN B, NEW l \in DOMAIN B,
               Carries(B[k], r), Carries(B[l], r)
        PROVE  k = l
    <3>1. ~(k = p /\ l # p) /\ ~(k # p /\ l = p)
      BY <1>3, <2>2 DEF Shifted, CarriedIn
    <3>2. CASE k # p /\ l # p
      <4>1. /\ k - d \in DOMAIN C /\ B[k] = C[k - d]
            /\ l - d \in DOMAIN C /\ B[l] = C[l - d] /\ k \in Int /\ l \in Int
        BY <3>2 DEF Shifted
      <4>2. k - d = l - d
        BY <1>3, <2>2, <4>1 DEF Apart
      <4> QED BY <4>1, <4>2
    <3> QED BY <3>1, <3>2
  <2> QED BY <2>1, <2>2 DEF Apart
<1> QED BY <1>1, <1>2, <1>3 DEF OneMoreIn

\* The wire gets a message.
LEMMA WireGrows ==
  ASSUME wire \in Seq(MessageType), NEW m, wire' = Append(wire, m)
  PROVE  OneMoreIn(Bodies(wire'), m.bodies, Bodies(wire))
<1>1. /\ DOMAIN wire' = DOMAIN wire \cup {Len(wire) + 1}
      /\ Len(wire) + 1 \notin DOMAIN wire /\ Len(wire) + 1 \in Int
      /\ wire'[Len(wire) + 1] = m /\ DOMAIN wire \subseteq Int
      /\ \A k \in DOMAIN wire : wire'[k] = wire[k] /\ k + 0 = k /\ k - 0 = k
  OBVIOUS
<1>2. Shifted(Bodies(wire'), m.bodies, Bodies(wire), Len(wire) + 1, 0)
  BY <1>1 DEF Shifted, Bodies
<1> QED BY <1>1, <1>2, ShiftedIsOneMore

\* A frame is put before a stack, or taken from it.
LEMMA StackGrows ==
  ASSUME NEW s \in Seq(FrameType), NEW f \in FrameType
  PROVE  OneMoreIn(Arrays(<<f>> \o s), f.array, Arrays(s))
<1> DEFINE t == <<f>> \o s
<1>1. /\ DOMAIN t = 1 .. Len(s) + 1 /\ t[1] = f
      /\ \A k \in 2 .. Len(s) + 1 : t[k] = s[k - 1]
      /\ DOMAIN s = 1 .. Len(s) /\ Len(s) \in Nat
  <2>1. t \in Seq(FrameType) /\ Len(t) = Len(s) + 1 /\ t[1] = f
          /\ \A k \in 2 .. Len(s) + 1 : t[k] = s[k - 1]
    BY ConsType
  <2> HIDE DEF t
  <2> QED BY <2>1
<1> HIDE DEF t
<1>2. /\ 1 \in DOMAIN t /\ DOMAIN t \subseteq Int /\ DOMAIN s \subseteq Int
      /\ \A k \in DOMAIN s : k + 1 \in DOMAIN t /\ k + 1 # 1
                               /\ t[k + 1] = s[k]
      /\ \A k \in DOMAIN t : k = 1 \/ (k - 1 \in DOMAIN s /\ t[k] = s[k - 1])
  BY <1>1
<1>3. Shifted(Arrays(t), f.array, Arrays(s), 1, 1)
  BY <1>1, <1>2 DEF Shifted, Arrays
<1> QED BY <1>3, ShiftedIsOneMore DEF t

LEMMA StackShrinks ==
  ASSUME stack \in Seq(FrameType), stack # <<>>
  PROVE  /\ Tail(stack) \in Seq(FrameType) /\ Top \in FrameType
         /\ OneMoreIn(Arrays(stack), Top.array, Arrays(Tail(stack)))
<1>1. /\ Tail(stack) \in Seq(FrameType) /\ Top \in FrameType
      /\ stack = <<Top>> \o Tail(stack)
  BY DEF Top
<1> QED BY <1>1, StackGrows

LEMMA StackAdvances ==
  ASSUME stack \in Seq(FrameType), stack # <<>>,
         NEW user \in BOOLEAN, NEW array \in Seq(Body),
         Top \in ReadFrame => array = <<>>, Advance(user, array)
  PROVE  OneMoreIn(Arrays(stack'), array, Arrays(Tail(stack)))
<1> DEFINE f == NextFrame(Top, user, array)
           s == Tail(stack)
<1>1. s \in Seq(FrameType) /\ Top \in FrameType
  BY StackShrinks
<1>2. f \in FrameType
  BY <1>1, NextFrameType
<1>3. f.array = array
  BY <1>1 DEF NextFrame, FrameType, SendFrame, ReadFrame
<1>4. stack' = <<f>> \o s
  BY DEF Advance, NextFrame
<1> HIDE DEF f, s
<1>5. OneMoreIn(Arrays(stack'), array, Arrays(s))
  BY <1>1, <1>2, <1>3, <1>4, StackGrows
<1> QED BY <1>5 DEF s

---------------------------------------------------------------------------
\* Steps that leave every request where it is.

SameIn(B, C) ==
  (Apart(C) => Apart(B)) /\ \A r : CarriedIn(B, r) <=> CarriedIn(C, r)
SameAccepted == \A r : Accepted(calls', r) <=> Accepted(calls, r)

LEMMA NothingMoves ==
  ASSUME SentInv, SameAccepted, fault' = "none" => fault = "none",
         SameIn(Bodies(wire'), Bodies(wire)),
         SameIn(Arrays(stack'), Arrays(stack))
  PROVE  SentInv'
BY DEF SentInv, RequestsOK, SameIn, SameAccepted

LEMMA OneWithout ==
  ASSUME NEW B, NEW C, NEW bodies, OneMoreIn(B, bodies, C), NoRequests(bodies)
  PROVE  SameIn(B, C) /\ SameIn(C, B)
BY NoneCarried DEF OneMoreIn, SameIn, NoRequests

\* A message without requests is sent, or none.
Silent == \/ UNCHANGED wire
          \/ \E m : wire' = Append(wire, m) /\ NoRequests(m.bodies)
LEMMA SilentStays ==
  ASSUME OutputOK, Silent
  PROVE  SameIn(Bodies(wire'), Bodies(wire))
<1>1. CASE UNCHANGED wire BY <1>1 DEF SameIn
<1>2. ASSUME NEW m, wire' = Append(wire, m), NoRequests(m.bodies)
      PROVE  SameIn(Bodies(wire'), Bodies(wire))
  BY <1>2, WireGrows, OneWithout DEF OutputOK
<1> QED BY <1>1, <1>2 DEF Silent

LEMMA SendIsSilent ==
  ASSUME NEW array, NEW bodies, NoRequests(bodies), SendMessage(array, bodies)
  PROVE  Silent
<1>1. Message(transport, array, bodies).bodies = bodies
  BY DEF Message
<1> QED BY <1>1 DEF SendMessage, Silent

\* The answers to a batch are no requests.
LEMMA AnswersCarryNone ==
  ASSUME NEW n, NEW a, NEW bodies, RightBodies(n, a, bodies)
  PROVE  NoRequests(bodies)
BY NoneCarried DEF RightBodies, RightBody

LEMMA FlushIsSilent ==
  ASSUME NEW b, NoRequests(b.finished), Flush(b)
  PROVE  Silent
<1>1. Message(b.to, TRUE, b.finished).bodies = b.finished
  BY DEF Message
<1> QED BY <1>1 DEF Flush, Silent

\* A loop is entered, or one over a received array goes on or is left.
LEMMA EnterStays ==
  ASSUME StackOK, NEW f \in FrameType, f.array = <<>>, Enter(f)
  PROVE  SameIn(Arrays(stack'), Arrays(stack))
<1>1. stack' = <<f>> \o stack
  BY DEF Enter
<1>2. OneMoreIn(Arrays(stack'), <<>>, Arrays(stack))
  BY <1>1, StackGrows DEF StackOK
<1> QED BY <1>2, NoneCarried, OneWithout

LEMMA ReadStays ==
  ASSUME StackOK, ServerOK, NEW loop \in {"requests", "responses"},
         Running(loop),
         \/ Leave \/ UNCHANGED stack
         \/ \E user \in BOOLEAN : Advance(user, <<>>)
  PROVE  SameIn(Arrays(stack'), Arrays(stack))
<1>1. /\ stack # <<>> /\ stack \in Seq(FrameType) /\ Top \in ReadFrame
      /\ Top.array = <<>>
  BY ReadTop DEF StackOK, ReadFrame
<1>2. OneMoreIn(Arrays(stack), <<>>, Arrays(Tail(stack)))
  BY <1>1, StackShrinks
<1>3. /\ SameIn(Arrays(stack), Arrays(Tail(stack)))
      /\ SameIn(Arrays(Tail(stack)), Arrays(stack))
  BY <1>2, NoneCarried, OneWithout
<1>4. CASE Leave BY <1>3, <1>4 DEF Leave
<1>5. CASE UNCHANGED stack BY <1>5 DEF SameIn
<1>6. ASSUME NEW user \in BOOLEAN, Advance(user, <<>>)
      PROVE  SameIn(Arrays(stack'), Arrays(stack))
  <2>1. <<>> \in Seq(Body) OBVIOUS
  <2>2. OneMoreIn(Arrays(stack'), <<>>, Arrays(Tail(stack)))
    BY <1>1, <1>6, <2>1, StackAdvances
  <2>3. SameIn(Arrays(stack'), Arrays(Tail(stack)))
    BY <2>2, NoneCarried, OneWithout
  <2> QED BY <1>3, <2>3 DEF SameIn
<1> QED BY <1>4, <1>5, <1>6

\* A response changes nothing about what was accepted.
LEMMA ResponseStays ==
  ASSUME Inv, NEW r, NEW id, ProcessResponse(r, id)
  PROVE  SameAccepted
<1> DEFINE called == IF id \in Ids THEN pending[id] ELSE NoCall
<1>1. CASE called = NoCall
  BY <1>1 DEF ProcessResponse, SameAccepted
<1>2. CASE called # NoCall
  <2>1. PICK c \in DOMAIN calls : /\ id \in Ids /\ pending[id] = c
                                  /\ called = c
    BY <1>2 DEF Inv, ClientOK, EachCallOnce
  <2>2. calls' = [calls EXCEPT ![c].answered = @ + 1]
    BY <1>2, <2>1 DEF ProcessResponse
  <2> HIDE DEF called
  <2>3. PICK e \in CallType : e = calls[c]
    BY <2>1 DEF Inv, ClientOK
  <2>4. [e EXCEPT !.answered = @ + 1].rejected = e.rejected
    BY DEF CallType
  <2>5. /\ DOMAIN calls' = DOMAIN calls
        /\ calls'[c] = [e EXCEPT !.answered = @ + 1]
        /\ \A j \in DOMAIN calls : j # c => calls'[j] = calls[j]
    BY <2>1, <2>2, <2>3 DEF Inv, ClientOK
  <2>6. /\ DOMAIN calls' = DOMAIN calls
        /\ \A j \in DOMAIN calls : calls'[j].rejected = calls[j].rejected
    BY <2>3, <2>4, <2>5
  <2> QED BY <2>6 DEF SameAccepted, Accepted
<1> QED BY <1>1, <1>2

\* A request that is registered is accepted, another one is not.
LEMMA RegisterAccepts ==
  ASSUME Inv, NEW id, Register(id)
  PROVE  /\ CanRegister(id) => \A r : Accepted(calls', r) <=>
                                 Accepted(calls, r) \/ r = <<NextCall, 0>>
         /\ ~CanRegister(id) => SameAccepted
         /\ ~Accepted(calls, <<NextCall, 0>>)
<1> DEFINE new == NewCall(id, IF CanRegister(id) THEN 0 ELSE 1)
<1>0. calls' = Append(calls, new)
  BY DEF Register
<1>2. CanRegister(id) => new.rejected = 0
  BY DEF NewCall
<1>3. ~CanRegister(id) => new.rejected = 1
  BY DEF NewCall
<1> HIDE DEF new
<1>1. /\ DOMAIN calls' = DOMAIN calls \cup {NextCall}
      /\ NextCall \notin DOMAIN calls
      /\ \A c \in DOMAIN calls : calls'[c] = calls[c]
      /\ calls'[NextCall] = new
  BY <1>0 DEF NextCall, Inv, ClientOK
<1> QED BY <1>1, <1>2, <1>3 DEF SameAccepted, Accepted

---------------------------------------------------------------------------
\* Each step.

LEMMA ConfigureSent == BatchInv /\ SentInv /\ Configure => SentInv'
<1> SUFFICES ASSUME SentInv, Configure PROVE SentInv'
  OBVIOUS
<1>1. UNCHANGED <<calls, stack, fault, wire>>
  BY DEF Configure, SetTransport, SetMessageHandler,
         SetDefaultMessageHandler, Destroy, clientVars
<1> QED BY <1>1 DEF SentInv

LEMMA CallSent == BatchInv /\ SentInv /\ Call => SentInv'
<1> SUFFICES ASSUME BatchInv, SentInv, Call PROVE SentInv'
  OBVIOUS
<1>1. fault = "none" /\ transport # NoTransport
  BY DEF Call, SendRequest, SendNotification, SendBatch, MayCall, MayUse,
         InUser
<1>2. ASSUME NEW id \in AnyId, SendRequest(id) PROVE SentInv'
  <2>1. Register(id) /\ UNCHANGED stack
    BY <1>2 DEF SendRequest
  <2>2. CASE ~CanRegister(id)
    <3>1. SameAccepted BY <2>1, <2>2, RegisterAccepts DEF BatchInv
    <3>2. UNCHANGED <<wire, fault>> BY <1>2, <2>2 DEF SendRequest
    <3> QED BY <2>1, <3>1, <3>2, NothingMoves DEF SameIn
  <2>3. CASE CanRegister(id)
    <3> DEFINE bodies == <<RequestBody(id, NextCall)>>
               q == <<NextCall, 0>>
    <3>1. wire' = Append(wire, Message(transport, FALSE, bodies))
          /\ UNCHANGED fault
      BY <1>1, <1>2, <2>3 DEF SendRequest, SendMessage
    <3>2. /\ \A r : Carries(bodies, r) <=> r = q
          /\ OnceEach(bodies)
      BY OneCarries, WhatBodiesCarry
    <3>3. Message(transport, FALSE, bodies).bodies = bodies
      BY DEF Message
    <3> HIDE DEF bodies
    <3>4. OneMoreIn(Bodies(wire'), bodies, Bodies(wire))
      BY <3>1, <3>3, WireGrows DEF BatchInv, Inv, OutputOK
    <3>5. /\ \A r : Accepted(calls', r) <=> Accepted(calls, r) \/ r = q
          /\ ~Accepted(calls, q)
      BY <2>1, <2>3, RegisterAccepts DEF BatchInv
    <3> HIDE DEF q
    <3> QED
      BY <2>1, <3>1, <3>2, <3>4, <3>5 DEF SentInv, RequestsOK, OneMoreIn
  <2> QED BY <2>2, <2>3
<1>3. CASE SendNotification
  <2>1. Silent
    <3>1. NoRequests(<<NotificationBody>>)
      BY OneCarries, WhatBodiesCarry DEF NoRequests
    <3> QED BY <1>3, <3>1, SendIsSilent DEF SendNotification
  <2>2. UNCHANGED <<stack, calls>>
    BY <1>3 DEF SendNotification, clientVars
  <2> QED
    BY <1>1, <2>1, <2>2, SilentStays, NothingMoves
    DEF BatchInv, Inv, SameIn, SameAccepted
<1>4. ASSUME NEW items \in OutBatches, SendBatch(items) PROVE SentInv'
  <2>1. /\ Frame("send", 0, items) \in FrameType
        /\ Frame("send", 0, items).array = <<>>
    BY NewFrames, ConstantsAssumption
    DEF ConstantsAssumption, FrameType, Frame
  <2>2. SameIn(Arrays(stack'), Arrays(stack))
    BY <1>4, <2>1, EnterStays DEF SendBatch, BatchInv, Inv
  <2>3. UNCHANGED <<fault, wire, calls>>
    BY <1>4 DEF SendBatch, clientVars
  <2> QED BY <2>2, <2>3, NothingMoves DEF SameIn, SameAccepted
<1> QED BY <1>2, <1>3, <1>4 DEF Call

\* A request goes into the array of the batch; the array becomes a message.
LEMMA SendLoopSent ==
  BatchInv /\ SentInv
    /\ (SendBatchNotification \/ SendBatchRequest \/ SendBatchEnd) => SentInv'
<1> SUFFICES ASSUME BatchInv, SentInv,
                    SendBatchNotification \/ SendBatchRequest \/ SendBatchEnd
             PROVE  SentInv'
  OBVIOUS
<1> DEFINE rest == Arrays(Tail(stack))
<1>1. fault = "none" /\ Running("send")
  BY DEF SendBatchNotification, SendBatchRequest, SendBatchEnd, Running
<1>2. /\ stack # <<>> /\ Top \notin ReadFrame /\ Top.array \in Seq(Body)
      /\ stack \in Seq(FrameType)
  BY <1>1, SendTop DEF BatchInv, Inv, StackOK
<1>3. OneMoreIn(Arrays(stack), Top.array, rest)
  BY <1>2, StackShrinks
<1>4. ASSUME NEW body \in Body, NEW user \in BOOLEAN,
             Advance(user, Append(Top.array, body))
      PROVE  /\ OneMoreIn(Arrays(stack'), Append(Top.array, body), rest)
             /\ OneMore(Append(Top.array, body), Top.array, body)
  <2>1. Append(Top.array, body) \in Seq(Body)
    BY <1>2
  <2> QED BY <1>2, <1>4, <2>1, StackAdvances DEF OneMore
<1> HIDE DEF rest
<1>5. CASE SendBatchNotification
  <2> DEFINE more == Append(Top.array, NotificationBody)
  <2>1. /\ OneMoreIn(Arrays(stack'), more, rest)
        /\ OneMore(more, Top.array, NotificationBody)
    BY <1>4, <1>5, BodyTypes DEF SendBatchNotification
  <2> HIDE DEF more
  <2>2. /\ \A r : Carries(more, r) <=> Carries(Top.array, r)
        /\ OnceEach(Top.array) => OnceEach(more)
    BY <1>2, <2>1, BodyCarries, WhatBodiesCarry
  <2>3. SameIn(Arrays(stack'), Arrays(stack))
    BY <1>3, <2>1, <2>2 DEF OneMoreIn, SameIn
  <2>4. UNCHANGED <<fault, wire, calls>>
    BY <1>5 DEF SendBatchNotification, clientVars
  <2> QED BY <2>3, <2>4, NothingMoves DEF SameIn, SameAccepted
<1>6. CASE SendBatchRequest
  <2>1. /\ Register(TopItem) /\ UNCHANGED <<fault, wire>> /\ TopItem \in AnyId
        /\ NextCall \in Nat
    BY <1>1, <1>6, SendTop
    DEF SendBatchRequest, BatchInv, Inv, ClientOK, NextCall
  <2>2. CASE ~CanRegister(TopItem)
    <3>1. Advance(TRUE, Top.array) BY <1>6, <2>2 DEF SendBatchRequest
    <3>2. OneMoreIn(Arrays(stack'), Top.array, rest)
      BY <1>2, <3>1, StackAdvances DEF rest
    <3>3. SameIn(Arrays(stack'), Arrays(stack))
      BY <1>3, <3>2 DEF OneMoreIn, SameIn
    <3>4. SameAccepted BY <2>1, <2>2, RegisterAccepts DEF BatchInv
    <3> QED BY <2>1, <3>3, <3>4, NothingMoves DEF SameIn
  <2>3. CASE CanRegister(TopItem)
    <3> DEFINE body == RequestBody(TopItem, NextCall)
               more == Append(Top.array, body)
               q == <<NextCall, 0>>
    <3>1. /\ OneMoreIn(Arrays(stack'), more, rest)
          /\ OneMore(more, Top.array, body)
      BY <1>4, <1>6, <2>1, <2>3, BodyTypes DEF SendBatchRequest
    <3>2. body.kind = "request" /\ body.ref = q
      BY WhatBodiesCarry
    <3> HIDE DEF body, more
    <3> HIDE DEF q
    <3>3. /\ \A r : Carries(more, r) <=> Carries(Top.array, r) \/ r = q
          /\ OnceEach(Top.array) /\ ~Carries(Top.array, q) => OnceEach(more)
      <4>1. /\ \A r : Carries(more, r) <=>
                         Carries(Top.array, r) \/ (body.kind = "request"
                                                  /\ body.ref = r)
            /\ OnceEach(Top.array) /\ (body.kind = "request" =>
                                          ~Carries(Top.array, body.ref))
                 => OnceEach(more)
        BY <1>2, <3>1, BodyCarries
      <4> QED BY <3>2, <4>1
    <3>4. /\ \A r : Accepted(calls', r) <=> Accepted(calls, r) \/ r = q
          /\ ~Accepted(calls, q)
      BY <2>1, <2>3, RegisterAccepts DEF BatchInv, q
    <3>5. ~CarriedIn(Arrays(stack), q) /\ ~CarriedIn(Bodies(wire), q)
      BY <3>4 DEF SentInv, RequestsOK
    <3>6. ~Carries(Top.array, q) /\ ~CarriedIn(rest, q)
      BY <1>3, <3>5 DEF OneMoreIn
    <3>7. Apart(Arrays(stack'))
      BY <1>3, <3>1, <3>3, <3>6 DEF SentInv, RequestsOK, OneMoreIn
    <3>8. \A r : CarriedIn(Arrays(stack'), r) <=>
                   CarriedIn(Arrays(stack), r) \/ r = q
      BY <1>3, <3>1, <3>3 DEF OneMoreIn
    <3> QED BY <2>1, <3>4, <3>5, <3>7, <3>8 DEF SentInv, RequestsOK
  <2> QED BY <2>2, <2>3
<1>7. CASE SendBatchEnd
  <2>1. stack' = Tail(stack) /\ calls' = calls
    BY <1>7 DEF SendBatchEnd, Leave, clientVars
  <2>2. Arrays(stack') = rest BY <2>1 DEF rest
  <2>3. CASE Top.array = <<>>
    <3>1. UNCHANGED <<wire, fault>> BY <1>7, <2>3 DEF SendBatchEnd
    <3>2. SameIn(Arrays(stack'), Arrays(stack))
      BY <1>3, <2>2, <2>3, NoneCarried, OneWithout
    <3> QED BY <2>1, <3>1, <3>2, NothingMoves DEF SameIn, SameAccepted
  <2>4. CASE Top.array # <<>> /\ transport = NoTransport
    <3>1. fault' # "none" /\ UNCHANGED wire
      BY <1>7, <2>4 DEF SendBatchEnd, SendMessage
    <3> QED
      BY <1>3, <2>1, <2>2, <3>1 DEF SentInv, RequestsOK, OneMoreIn
  <2>5. CASE Top.array # <<>> /\ transport # NoTransport
    <3>1. /\ wire' = Append(wire, Message(transport, TRUE, Top.array))
          /\ UNCHANGED fault
      BY <1>7, <2>5 DEF SendBatchEnd, SendMessage
    <3>2. Message(transport, TRUE, Top.array).bodies = Top.array
      BY DEF Message
    <3>3. OneMoreIn(Bodies(wire'), Top.array, Bodies(wire))
      BY <3>1, <3>2, WireGrows DEF BatchInv, Inv, OutputOK
    <3> QED
      BY <1>3, <2>1, <2>2, <3>1, <3>3 DEF SentInv, RequestsOK, OneMoreIn
  <2> QED BY <2>3, <2>4, <2>5
<1> QED BY <1>5, <1>6, <1>7

\* Steps that send no request, if anything, and leave the arrays alone.
LEMMA QuietSent ==
  ASSUME BatchInv, SentInv, Silent, SameAccepted, fault = "none",
         SameIn(Arrays(stack'), Arrays(stack))
  PROVE  SentInv'
BY SilentStays, NothingMoves DEF BatchInv, Inv

LEMMA ReceiveSent == BatchInv /\ SentInv /\ Receive => SentInv'
<1> SUFFICES ASSUME BatchInv, SentInv, NEW t \in hooked, NEW doc \in Documents,
                    \/ ReceiveStopped(t, doc)
                    \/ ReceiveInvalid(t, doc)
                    \/ ReceiveRequest(t, doc)
                    \/ ReceiveNotification(t, doc)
                    \/ ReceiveResponse(t, doc)
                    \/ ReceiveRequestBatch(t, doc)
                    \/ ReceiveResponseBatch(t, doc)
             PROVE  SentInv'
  BY DEF Receive
<1>1. PICK stopped \in BOOLEAN : Arrive(t, doc, stopped)
  BY DEF ReceiveStopped, ReceiveInvalid, ReceiveRequest, ReceiveNotification,
         ReceiveResponse, ReceiveRequestBatch, ReceiveResponseBatch
<1>2. /\ fault = "none" /\ Arrival \in 1..MaxArrivals
      /\ StackOK
  BY <1>1, ArriveFacts DEF Arrive, MayUse, InUser, BatchInv, Inv
<1>3. ASSUME NEW id, NEW r, SendMessage(FALSE, <<ResponseBody(id, r)>>)
      PROVE  Silent
  <2>1. NoRequests(<<ResponseBody(id, r)>>)
    BY OneCarries, WhatBodiesCarry DEF NoRequests
  <2> QED BY <1>3, <2>1, SendIsSilent
<1>4. Silent
  <2>1. CASE UNCHANGED wire BY <2>1 DEF Silent
  <2>2. CASE ReceiveInvalid(t, doc)
    BY <1>3, <2>2 DEF ReceiveInvalid, ErrorBody
  <2>3. CASE ReceiveRequest(t, doc)
    BY <1>3, <2>1, <2>3 DEF ReceiveRequest
  <2> QED
    BY <2>1, <2>2, <2>3
    DEF ReceiveStopped, ReceiveNotification, ReceiveResponse,
        ReceiveRequestBatch, ReceiveResponseBatch
<1>5. SameAccepted
  <2>1. CASE UNCHANGED calls BY <2>1 DEF SameAccepted
  <2>2. CASE ReceiveResponse(t, doc)
    BY <2>2, ResponseStays DEF ReceiveResponse, BatchInv
  <2> QED
    BY <2>1, <2>2
    DEF ReceiveStopped, ReceiveInvalid, ReceiveRequest, ReceiveNotification,
        ReceiveRequestBatch, ReceiveResponseBatch, clientVars
<1>6. SameIn(Arrays(stack'), Arrays(stack))
  <2>1. CASE UNCHANGED stack BY <2>1 DEF SameIn
  <2>2. ASSUME NEW loop \in {"requests", "responses"},
               Enter(Frame(loop, Arrival, doc.items))
        PROVE  SameIn(Arrays(stack'), Arrays(stack))
    <3>1. /\ Frame(loop, Arrival, doc.items) \in FrameType
          /\ Frame(loop, Arrival, doc.items).array = <<>>
      BY <1>2, DocumentItems, NewFrames DEF FrameType, Frame
    <3> QED BY <1>2, <2>2, <3>1, EnterStays
  <2> QED
    BY <2>1, <2>2
    DEF ReceiveStopped, ReceiveInvalid, ReceiveRequest, ReceiveNotification,
        ReceiveResponse, ReceiveRequestBatch, ReceiveResponseBatch
<1> QED BY <1>2, <1>4, <1>5, <1>6, QuietSent

LEMMA ReadLoopSent ==
  BatchInv /\ SentInv
    /\ (\/ ResponsesStep \/ ResponsesEnd
        \/ BatchInvalid \/ BatchNotification \/ BatchRequest \/ BatchEnd
        \/ BatchUseAfterFree)
  => SentInv'
<1> SUFFICES ASSUME BatchInv, SentInv,
                    \/ ResponsesStep \/ ResponsesEnd
                    \/ BatchInvalid \/ BatchNotification \/ BatchRequest
                    \/ BatchEnd \/ BatchUseAfterFree
             PROVE  SentInv'
  OBVIOUS
<1>1. PICK loop \in {"requests", "responses"} : Running(loop)
  BY DEF ResponsesStep, ResponsesEnd, BatchInvalid, BatchNotification,
         BatchRequest, BatchEnd, BatchUseAfterFree
<1>2. fault = "none"
  BY <1>1 DEF Running
<1>3. \/ Leave \/ UNCHANGED stack
      \/ \E user \in BOOLEAN : Advance(user, <<>>)
  <2>1. CASE BatchNotification
    <3>1. PICK user : user = HasHandler(TopItem.method) OBVIOUS
    <3>2. handlers[TopItem.method] = "unset" => default \in BOOLEAN
      BY DEF BatchInv, Inv, ConfigOK
    <3>3. user \in BOOLEAN
      BY <3>1, <3>2 DEF HasHandler
    <3> QED BY <2>1, <3>1, <3>3 DEF BatchNotification
  <2> QED
    BY <2>1 DEF ResponsesStep, ResponsesEnd, BatchInvalid, BatchRequest,
                BatchEnd, BatchUseAfterFree
<1>4. SameIn(Arrays(stack'), Arrays(stack))
  BY <1>1, <1>3, ReadStays DEF BatchInv, Inv
<1>5. SameAccepted
  <2>1. CASE UNCHANGED calls BY <2>1 DEF SameAccepted
  <2>2. CASE ResponsesStep
    BY <2>2, ResponseStays DEF ResponsesStep, BatchInv
  <2> QED
    BY <2>1, <2>2
    DEF ResponsesEnd, BatchInvalid, BatchNotification, BatchRequest, BatchEnd,
        BatchUseAfterFree, clientVars
<1>6. ASSUME UNCHANGED wire PROVE SentInv'
  <2>1. Silent BY <1>6 DEF Silent
  <2> QED BY <1>2, <1>4, <1>5, <2>1, QuietSent
<1>7. CASE BatchEnd
  <2>1. BatchOK(Top.n, received[Top.n], batch[Top.n], HeldOf(open, Top.n),
                {Top.next}) /\ IsBatch(received[Top.n])
    BY <1>7, BatchTop DEF BatchEnd, InOrder, DocumentOK
  <2>2. NoRequests(ThisBatch.finished)
    BY <2>1, AnswersCarryNone DEF BatchOK, ThisBatch
  <2>3. Silent
    BY <1>7, <2>2, FlushIsSilent DEF BatchEnd, Silent
  <2> QED BY <1>2, <1>4, <1>5, <2>3, QuietSent
<1> QED
  BY <1>6, <1>7
  DEF ResponsesStep, ResponsesEnd, BatchInvalid, BatchNotification,
      BatchRequest, BatchUseAfterFree

LEMMA ReplySent ==
  ASSUME BatchInv, SentInv, NEW r \in open, Reply(r)
  PROVE  SentInv'
<1>1. /\ fault = "none" /\ SameAccepted
      /\ SameIn(Arrays(stack'), Arrays(stack))
  BY DEF Reply, ReplySingle, ReplyInBatch, MayUse, InUser, clientVars,
         SameAccepted, SameIn
<1>2. CASE ReplySingle(r)
  <2>1. NoRequests(<<ResponseBody(ItemAt(r).id, r)>>)
    BY OneCarries, WhatBodiesCarry DEF NoRequests
  <2>2. Silent
    BY <1>2, <2>1, SendIsSilent DEF ReplySingle
  <2> QED BY <1>1, <2>2, QuietSent
<1>3. CASE ReplyInBatch(r)
  <2>1. PICK n \in 1..MaxArrivals, i \in Nat :
             /\ r = <<n, i>> /\ n \in DOMAIN received
             /\ IsBatch(received[n]) \/ IsAlone(received[n])
             /\ ItemAt(r).id \in AnyId
    BY <1>1, HeldFacts
  <2>2. IsBatch(received[n])
    BY <1>3, <2>1 DEF ReplyInBatch, IsHeldAlone, IsAlone
  <2> DEFINE body == ResponseBody(ItemAt(r).id, r)
             c == [batch[n] EXCEPT !.finished = Append(@, body),
                                   !.pending = @ - 1]
  <2>3. UNCHANGED wire \/ Flush(c)
    BY <1>3, <2>1 DEF ReplyInBatch, ReplyId
  <2>4. batch[n] \in BatchType
    BY <2>1 DEF BatchInv, Inv, ServerOK
  <2>5. c.finished = Append(batch[n].finished, body)
          /\ batch[n].finished \in Seq(Body)
    BY <2>4 DEF BatchType
  <2>6. body.kind # "request"
    BY WhatBodiesCarry
  <2> HIDE DEF body, c
  <2>7. OneMore(c.finished, batch[n].finished, body)
    BY <2>5 DEF OneMore
  <2>8. NoRequests(batch[n].finished)
    <3>1. BatchOK(n, received[n], batch[n], HeldOf(open, n),
                  ReadAt(stack, n))
      BY <1>1, <2>1, DocFacts DEF InOrder, DocumentOK
    <3> QED BY <2>2, <3>1, AnswersCarryNone DEF BatchOK
  <2>9. NoRequests(c.finished)
    BY <2>5, <2>6, <2>7, <2>8, BodyCarries DEF NoRequests
  <2>10. Silent
    BY <2>3, <2>9, FlushIsSilent DEF Silent
  <2> QED BY <1>1, <2>10, QuietSent
<1> QED BY <1>2, <1>3 DEF Reply

LEMMA InitSent == Init => SentInv
<1> SUFFICES ASSUME Init PROVE SentInv
  OBVIOUS
<1>1. DOMAIN wire = {} /\ DOMAIN stack = {} /\ DOMAIN calls = {}
  BY DEF Init
<1>2. DOMAIN Bodies(wire) = {} /\ DOMAIN Arrays(stack) = {}
  BY <1>1 DEF Bodies, Arrays
<1> QED
  BY <1>1, <1>2 DEF SentInv, RequestsOK, Apart, CarriedIn, Accepted

\* SentInv is an invariant.
THEOREM SentInvariance == Spec => []SentInv
<1>1. BatchInv /\ SentInv /\ [Next]_vars => SentInv'
  <2> SUFFICES ASSUME BatchInv, SentInv, [Next]_vars PROVE SentInv'
    OBVIOUS
  <2>1. CASE Configure BY <2>1, ConfigureSent
  <2>2. CASE Call BY <2>2, CallSent
  <2>3. CASE Receive BY <2>3, ReceiveSent
  <2>4. CASE LoopStep
    BY <2>4, SendLoopSent, ReadLoopSent DEF LoopStep
  <2>5. CASE \E r \in open : Reply(r) BY <2>5, ReplySent
  <2>6. CASE UseDestroyed \/ UNCHANGED vars
    <3>1. UNCHANGED <<wire, stack, calls>>
      BY <2>6 DEF UseDestroyed, clientVars, vars
    <3>2. fault' = "none" => fault = "none"
      BY <2>6 DEF UseDestroyed, vars
    <3> QED BY <3>1, <3>2, NothingMoves DEF SameIn, SameAccepted
  <2> QED BY <2>1, <2>2, <2>3, <2>4, <2>5, <2>6 DEF Next
<1> QED BY <1>1, InitSent, BatchInvariance, PTL DEF Spec

---------------------------------------------------------------------------
\* The invariant gives the property.

LEMMA PlacesOnce ==
  ASSUME NEW B, NEW r, Apart(B)
  PROVE  Cardinality(Places(B, "request", r))
           = IF CarriedIn(B, r) THEN 1 ELSE 0
<1> DEFINE S == Places(B, "request", r)
<1>1. S = UNION {{<<k, j>> : j \in {j \in DOMAIN B[k] :
                                      /\ B[k][j].kind = "request"
                                      /\ B[k][j].ref = r}} : k \in DOMAIN B}
  BY DEF Places
<1>2. \A x : x \in S <=>
        \E k \in DOMAIN B : \E j \in DOMAIN B[k] :
          x = <<k, j>> /\ B[k][j].kind = "request" /\ B[k][j].ref = r
  BY <1>1
<1> HIDE DEF S
<1>3. \A x, y \in S : x = y
  <2> SUFFICES ASSUME NEW x \in S, NEW y \in S PROVE x = y
    OBVIOUS
  <2>1. PICK k, j : /\ k \in DOMAIN B /\ j \in DOMAIN B[k] /\ x = <<k, j>>
                    /\ B[k][j].kind = "request" /\ B[k][j].ref = r
    BY <1>2
  <2>2. PICK l, i : /\ l \in DOMAIN B /\ i \in DOMAIN B[l] /\ y = <<l, i>>
                    /\ B[l][i].kind = "request" /\ B[l][i].ref = r
    BY <1>2
  <2>3. k = l BY <2>1, <2>2 DEF Apart, Carries
  <2>4. OnceEach(B[k]) BY <2>1 DEF Apart
  <2>5. j = i BY <2>1, <2>2, <2>3, <2>4 DEF OnceEach
  <2> QED BY <2>1, <2>2, <2>3, <2>5
<1>4. S = {} <=> ~CarriedIn(B, r)
  BY <1>2 DEF CarriedIn, Carries
<1>5. Cardinality(S) = IF S = {} THEN 0 ELSE 1
  BY <1>3, OneAtMost
<1>6. Cardinality(S) = IF CarriedIn(B, r) THEN 1 ELSE 0
  BY <1>4, <1>5
<1> QED BY <1>6 DEF S

\* An accepted request is transmitted exactly once, or is in an array that
\* sendBatch is building; a rejected one never.
THEOREM RequestsAreSentOnce == Spec => []AcceptedSentOnce
<1>1. BatchInv /\ SentInv => AcceptedSentOnce
  <2> SUFFICES ASSUME BatchInv, SentInv, fault = "none", NEW c \in DOMAIN calls
               PROVE  Cardinality(Sent("request", <<c, 0>>))
                        + Cardinality(Building(<<c, 0>>))
                        = 1 - calls[c].rejected
    BY DEF AcceptedSentOnce
  <2> DEFINE r == <<c, 0>>
             W == Bodies(wire)
             S == Arrays(stack)
             sent == Cardinality(Sent("request", r))
             building == Cardinality(Building(r))
  <2>1. Sent("request", r) = Places(W, "request", r)
    BY DEF Sent, Bodies
  <2>2. Building(r) = Places(S, "request", r)
    BY DEF Building, Arrays
  <2>3. Apart(W) /\ Apart(S) /\ ~(CarriedIn(W, r) /\ CarriedIn(S, r))
    BY DEF SentInv, RequestsOK
  <2>4. CarriedIn(W, r) \/ CarriedIn(S, r) <=> calls[c].rejected = 0
    BY DEF SentInv, RequestsOK, Accepted
  <2>5. calls[c].rejected \in {0, 1}
    <3>1. calls[c] \in CallType
      BY DEF BatchInv, Inv, ClientOK
    <3>2. calls[c].answered + calls[c].rejected \in {0, 1}
      BY DEF BatchInv, Inv, ClientOK, EachCallOnce
    <3>3. \A x, y \in Nat : x + y \in {0, 1} => y \in {0, 1}
      OBVIOUS
    <3> QED BY <3>1, <3>2, <3>3 DEF CallType
  <2> HIDE DEF r, W, S
  <2>6. sent = IF CarriedIn(W, r) THEN 1 ELSE 0
    BY <2>1, <2>3, PlacesOnce
  <2>7. building = IF CarriedIn(S, r) THEN 1 ELSE 0
    BY <2>2, <2>3, PlacesOnce
  <2> HIDE DEF sent, building
  <2>8. sent + building = 1 - calls[c].rejected
    <3>1. CASE CarriedIn(W, r)
      BY <2>3, <2>4, <2>6, <2>7, <3>1
    <3>2. CASE ~CarriedIn(W, r) /\ CarriedIn(S, r)
      BY <2>4, <2>6, <2>7, <3>2
    <3>3. CASE ~CarriedIn(W, r) /\ ~CarriedIn(S, r)
      BY <2>4, <2>5, <2>6, <2>7, <3>3
    <3> QED BY <3>1, <3>2, <3>3
  <2> QED BY <2>8 DEF sent, building, r
<1> QED BY <1>1, SentInvariance, BatchInvariance, PTL

---------------------------------------------------------------------------
\* The loops over response arrays.

ReadsResponses(f, n) == f.loop = "responses" /\ f.n = n
At(s, n, p) == \E k \in DOMAIN s : ReadsResponses(s[k], n) /\ s[k].next = p
OneLoop(s) ==
  \A j, k \in DOMAIN s :
    s[j].loop = "responses" /\ s[k].loop = "responses" /\ s[j].n = s[k].n
      => j = k

\* A frame is put before a stack, or taken from it.
WithLoop(t, f, s) ==
  /\ \A n, p : At(t, n, p) <=> (ReadsResponses(f, n) /\ f.next = p)
                               \/ At(s, n, p)
  /\ OneLoop(t) <=> /\ OneLoop(s)
                    /\ f.loop = "responses" => \A p : ~At(s, f.n, p)

LEMMA StackWithLoop ==
  ASSUME NEW s \in Seq(FrameType), NEW f \in FrameType
  PROVE  WithLoop(<<f>> \o s, f, s)
<1> DEFINE t == <<f>> \o s
<1>1. /\ DOMAIN t = 1 .. Len(s) + 1 /\ t[1] = f
      /\ \A k \in 2 .. Len(s) + 1 : t[k] = s[k - 1]
      /\ DOMAIN s = 1 .. Len(s) /\ Len(s) \in Nat
  <2>1. t \in Seq(FrameType) /\ Len(t) = Len(s) + 1 /\ t[1] = f
          /\ \A k \in 2 .. Len(s) + 1 : t[k] = s[k - 1]
    BY ConsType
  <2> HIDE DEF t
  <2> QED BY <2>1
<1> HIDE DEF t
<1>2. /\ 1 \in DOMAIN t /\ DOMAIN t \subseteq Int /\ DOMAIN s \subseteq Int
      /\ \A k \in DOMAIN s : k + 1 \in DOMAIN t /\ k + 1 # 1
                               /\ t[k + 1] = s[k]
      /\ \A k \in DOMAIN t : k = 1 \/ (k - 1 \in DOMAIN s /\ t[k] = s[k - 1])
  BY <1>1
<1>3. ASSUME NEW n, NEW p
      PROVE  At(t, n, p) <=> (ReadsResponses(f, n) /\ f.next = p) \/ At(s, n, p)
  BY <1>1, <1>2 DEF At
<1>4. ASSUME OneLoop(t)
      PROVE  /\ OneLoop(s)
             /\ f.loop = "responses" => \A p : ~At(s, f.n, p)
  <2>1. OneLoop(s)
    <3> SUFFICES ASSUME NEW j \in DOMAIN s, NEW k \in DOMAIN s,
                        s[j].loop = "responses", s[k].loop = "responses",
                        s[j].n = s[k].n
                 PROVE  j = k
      BY DEF OneLoop
    <3>1. /\ j + 1 \in DOMAIN t /\ t[j + 1] = s[j]
          /\ k + 1 \in DOMAIN t /\ t[k + 1] = s[k] /\ j \in Int /\ k \in Int
      BY <1>2
    <3>2. j + 1 = k + 1
      BY <1>4, <3>1 DEF OneLoop
    <3> QED BY <3>1, <3>2
  <2>2. ASSUME f.loop = "responses", NEW p, At(s, f.n, p) PROVE FALSE
    <3>1. PICK k \in DOMAIN s : s[k].loop = "responses" /\ s[k].n = f.n
      BY <2>2 DEF At, ReadsResponses
    <3>2. k + 1 \in DOMAIN t /\ t[k + 1] = s[k] /\ k + 1 # 1 /\ 1 \in DOMAIN t
      BY <1>2, <3>1
    <3> QED BY <1>1, <1>4, <2>2, <3>1, <3>2 DEF OneLoop
  <2> QED BY <2>1, <2>2
<1>5. ASSUME OneLoop(s), f.loop = "responses" => \A p : ~At(s, f.n, p)
      PROVE  OneLoop(t)
  <2>1. ASSUME f.loop = "responses", NEW k \in DOMAIN s,
               s[k].loop = "responses", s[k].n = f.n
        PROVE  FALSE
    BY <1>5, <2>1 DEF At, ReadsResponses
  <2> SUFFICES ASSUME NEW j \in DOMAIN t, NEW k \in DOMAIN t,
                      t[j].loop = "responses", t[k].loop = "responses",
                      t[j].n = t[k].n
               PROVE  j = k
    BY DEF OneLoop
  <2>2. ~(j = 1 /\ k # 1) /\ ~(j # 1 /\ k = 1)
    BY <1>1, <1>2, <2>1
  <2>3. CASE j # 1 /\ k # 1
    <3>1. /\ j - 1 \in DOMAIN s /\ t[j] = s[j - 1] /\ j \in Int
          /\ k - 1 \in DOMAIN s /\ t[k] = s[k - 1] /\ k \in Int
      BY <1>2, <2>3
    <3>2. j - 1 = k - 1
      BY <1>5, <3>1 DEF OneLoop
    <3> QED BY <3>1, <3>2
  <2> QED BY <2>2, <2>3
<1> QED BY <1>3, <1>4, <1>5 DEF WithLoop, t

LEMMA EnterWithLoop ==
  ASSUME StackOK, NEW f \in FrameType, Enter(f)
  PROVE  WithLoop(stack', f, stack)
BY StackWithLoop DEF StackOK, Enter

LEMMA LeaveWithLoop ==
  ASSUME stack \in Seq(FrameType), stack # <<>>
  PROVE  WithLoop(stack, Top, Tail(stack))
<1>1. Tail(stack) \in Seq(FrameType) /\ Top \in FrameType
        /\ stack = <<Top>> \o Tail(stack)
  BY DEF Top
<1> QED BY <1>1, StackWithLoop

LEMMA AdvanceWithLoop ==
  ASSUME stack \in Seq(FrameType), stack # <<>>,
         NEW user \in BOOLEAN, NEW array \in Seq(Body),
         Top \in ReadFrame => array = <<>>, Advance(user, array)
  PROVE  \E f : /\ f.loop = Top.loop /\ f.n = Top.n /\ f.next = Top.next + 1
                /\ WithLoop(stack', f, Tail(stack))
<1> DEFINE f == NextFrame(Top, user, array)
           s == Tail(stack)
<1>1. s \in Seq(FrameType) /\ Top \in FrameType
  BY StackShrinks
<1>2. f \in FrameType /\ f.loop = Top.loop /\ f.n = Top.n
  BY <1>1, NextFrameType
<1>3. f.next = Top.next + 1
  BY <1>1 DEF NextFrame, FrameType, SendFrame, ReadFrame
<1>4. stack' = <<f>> \o s
  BY DEF Advance, NextFrame
<1> HIDE DEF f, s
<1>5. WithLoop(stack', f, s)
  BY <1>1, <1>2, <1>4, StackWithLoop
<1> QED BY <1>2, <1>3, <1>5 DEF s

\* The loops over response arrays are as they were.
SameResponseLoops ==
  /\ OneLoop(stack) => OneLoop(stack')
  /\ \A n, p : At(stack', n, p) <=> At(stack, n, p)

LEMMA OtherLoopStep ==
  ASSUME Inv, stack # <<>>, Top.loop # "responses",
         \/ Leave \/ UNCHANGED stack
         \/ \E user \in BOOLEAN, array \in Seq(Body) :
              Advance(user, array) /\ (Top \in ReadFrame => array = <<>>)
  PROVE  SameResponseLoops
<1>1. stack \in Seq(FrameType) /\ WithLoop(stack, Top, Tail(stack))
  BY LeaveWithLoop DEF Inv, StackOK
<1>2. CASE UNCHANGED stack BY <1>2 DEF SameResponseLoops
<1>3. CASE Leave
  BY <1>1, <1>3 DEF Leave, SameResponseLoops, WithLoop, ReadsResponses
<1>4. ASSUME NEW user \in BOOLEAN, NEW array \in Seq(Body),
             Advance(user, array), Top \in ReadFrame => array = <<>>
      PROVE  SameResponseLoops
  <2>1. PICK f : f.loop = Top.loop /\ WithLoop(stack', f, Tail(stack))
    BY <1>1, <1>4, AdvanceWithLoop
  <2> QED BY <1>1, <2>1 DEF SameResponseLoops, WithLoop, ReadsResponses
<1> QED BY <1>2, <1>3, <1>4

---------------------------------------------------------------------------
\* What has been delivered of an array.

\* d are the deliveries, array the elements of document n; there is a loop
\* over it at each p of which at[p] holds.
About(d, n) == {i \in DOMAIN d : d[i].ref[1] = n}
Increasing(d, n) ==
  \A i, j \in About(d, n) : i < j => d[i].ref[2] < d[j].ref[2]
Elements(d, n) == {d[i].ref[2] : i \in About(d, n)}
PastLoop(s, n, items) == {i \in DOMAIN items : \A p \in 1..i : ~At(s, n, p)}

ArrayOK(d, s, n, a) ==
  Increasing(d, n) /\ Elements(d, n) = PastLoop(s, n, a.doc.items)

OrderInv ==
  /\ OneLoop(stack)
  /\ \A n, p : At(stack, n, p) =>
       n \in DOMAIN received /\ IsResponseArray(received[n])
  /\ \A i \in DOMAIN delivered : delivered[i].ref[1] \in DOMAIN received
  /\ \A n \in DOMAIN received : IsResponseArray(received[n]) =>
       ArrayOK(delivered, stack, n, received[n])

LEMMA SameElements ==
  ASSUME NEW d, NEW e, NEW s, NEW t, NEW n, NEW a, ArrayOK(d, s, n, a),
         About(e, n) = About(d, n), \A i \in About(d, n) : e[i] = d[i],
         \A p : At(t, n, p) <=> At(s, n, p)
  PROVE  ArrayOK(e, t, n, a)
<1>1. Increasing(e, n) BY DEF ArrayOK, Increasing
<1>2. Elements(e, n) = Elements(d, n) BY DEF Elements
<1>3. PastLoop(t, n, a.doc.items) = PastLoop(s, n, a.doc.items)
  BY DEF PastLoop
<1> QED BY <1>1, <1>2, <1>3 DEF ArrayOK

\* A response is delivered.
LEMMA OneMoreDelivered ==
  ASSUME NEW d \in Seq(DeliveryType), NEW e, NEW x, e = Append(d, x)
  PROVE  /\ DOMAIN e = DOMAIN d \cup {Len(d) + 1}
         /\ DOMAIN d = 1 .. Len(d) /\ Len(d) \in Nat
         /\ e[Len(d) + 1] = x /\ \A i \in DOMAIN d : e[i] = d[i]
         /\ \A n : n # x.ref[1] => About(e, n) = About(d, n)
         /\ About(e, x.ref[1]) = About(d, x.ref[1]) \cup {Len(d) + 1}
<1>1. /\ DOMAIN e = DOMAIN d \cup {Len(d) + 1}
      /\ DOMAIN d = 1 .. Len(d) /\ Len(d) \in Nat
      /\ e[Len(d) + 1] = x /\ \A i \in DOMAIN d : e[i] = d[i]
  OBVIOUS
<1>2. ASSUME NEW n, n # x.ref[1] PROVE About(e, n) = About(d, n)
  BY <1>1, <1>2 DEF About
<1>3. About(e, x.ref[1]) = About(d, x.ref[1]) \cup {Len(d) + 1}
  BY <1>1 DEF About
<1> QED BY <1>1, <1>2, <1>3

LEMMA NothingDelivered ==
  ASSUME OrderInv, SameResponseLoops, UNCHANGED <<delivered, received>>
  PROVE  OrderInv'
<1>1. ASSUME NEW n \in DOMAIN received, IsResponseArray(received[n])
      PROVE  ArrayOK(delivered', stack', n, received'[n])
  BY <1>1, SameElements DEF OrderInv, SameResponseLoops
<1> QED BY <1>1 DEF OrderInv, SameResponseLoops

\* The loop over an array delivers its next element.
IsNextDelivery(d, e, x, s, t, n, a, p) ==
  /\ d \in Seq(DeliveryType) /\ e = Append(d, x) /\ p \in Nat \ {0}
  /\ x.ref[1] = n /\ x.ref[2] = p
  /\ DOMAIN a.doc.items \subseteq Nat /\ p \in DOMAIN a.doc.items
  /\ ArrayOK(d, s, n, a)
  /\ \A q : At(s, n, q) <=> q = p
  /\ \A q : At(t, n, q) <=> q = p + 1

LEMMA NextDelivered ==
  ASSUME NEW d, NEW e, NEW x, NEW s, NEW t, NEW n, NEW a, NEW p,
         IsNextDelivery(d, e, x, s, t, n, a, p)
  PROVE  ArrayOK(e, t, n, a)
<1>0. /\ d \in Seq(DeliveryType) /\ e = Append(d, x) /\ p \in Nat \ {0}
      /\ x.ref[1] = n /\ x.ref[2] = p
      /\ DOMAIN a.doc.items \subseteq Nat /\ p \in DOMAIN a.doc.items
      /\ ArrayOK(d, s, n, a)
      /\ \A q : At(s, n, q) <=> q = p
      /\ \A q : At(t, n, q) <=> q = p + 1
  BY DEF IsNextDelivery
<1> DEFINE new == Len(d) + 1
<1>1. /\ About(e, n) = About(d, n) \cup {new} /\ new \in Nat
      /\ \A i \in About(d, n) : i \in Nat /\ i < new /\ e[i] = d[i]
      /\ e[new] = x
  BY <1>0, OneMoreDelivered DEF About
<1> HIDE DEF new
<1>2. \A i : i \in PastLoop(s, n, a.doc.items) <=>
               i \in DOMAIN a.doc.items /\ i < p
  BY <1>0 DEF PastLoop
<1>3. \A i : i \in PastLoop(t, n, a.doc.items) <=>
               i \in DOMAIN a.doc.items /\ i < p + 1
  BY <1>0 DEF PastLoop
<1>4. \A i \in About(d, n) : d[i].ref[2] \in Nat /\ d[i].ref[2] < p
  <2>1. \A i \in About(d, n) : d[i].ref[2] \in PastLoop(s, n, a.doc.items)
    BY <1>0 DEF ArrayOK, Elements
  <2> QED BY <1>0, <1>2, <2>1
<1>5. Increasing(e, n)
  <2> SUFFICES ASSUME NEW i \in About(e, n), NEW j \in About(e, n), i < j
               PROVE  e[i].ref[2] < e[j].ref[2]
    BY DEF Increasing
  <2>1. i \in About(d, n)
    BY <1>1
  <2>2. CASE j \in About(d, n)
    BY <1>0, <1>1, <2>1, <2>2 DEF ArrayOK, Increasing
  <2>3. CASE j = new
    BY <1>0, <1>1, <1>4, <2>1, <2>3
  <2> QED BY <1>1, <2>2, <2>3
<1>6. Elements(e, n) = Elements(d, n) \cup {p}
  <2>1. /\ \A v : v \in Elements(e, n) <=>
                    \E i \in About(e, n) : v = e[i].ref[2]
        /\ \A v : v \in Elements(d, n) <=>
                    \E i \in About(d, n) : v = d[i].ref[2]
    BY DEF Elements
  <2>2. e[new].ref[2] = p /\ \A i \in About(d, n) : e[i] = d[i]
    BY <1>0, <1>1
  <2>3. About(e, n) = About(d, n) \cup {new}
    BY <1>1
  <2>4. ASSUME NEW v, v \in Elements(e, n)
        PROVE  v \in Elements(d, n) \cup {p}
    <3>1. PICK i \in About(e, n) : v = e[i].ref[2]
      BY <2>1, <2>4
    <3>2. CASE i = new BY <2>2, <3>1, <3>2
    <3>3. CASE i \in About(d, n) BY <2>1, <2>2, <3>1, <3>3
    <3> QED BY <2>3, <3>2, <3>3
  <2>5. ASSUME NEW v, v \in Elements(d, n)
        PROVE  v \in Elements(e, n)
    BY <2>1, <2>2, <2>3, <2>5
  <2>6. p \in Elements(e, n)
    BY <2>1, <2>2, <2>3
  <2> QED BY <2>4, <2>5, <2>6
<1>7. PastLoop(t, n, a.doc.items) = PastLoop(s, n, a.doc.items) \cup {p}
  <2>1. \A i, k \in Nat : i < k + 1 <=> i < k \/ i = k
    OBVIOUS
  <2> QED BY <1>0, <1>2, <1>3, <2>1
<1> QED BY <1>0, <1>5, <1>6, <1>7 DEF ArrayOK

\* What a response does to the deliveries.
LEMMA Delivers ==
  ASSUME NEW r, NEW id, ProcessResponse(r, id)
  PROVE  \E x : delivered' = Append(delivered, x) /\ x.ref = r
BY DEF ProcessResponse

LEMMA ResponsesLoopOrder ==
  Inv /\ OrderInv /\ (ResponsesStep \/ ResponsesEnd) => OrderInv'
<1> SUFFICES ASSUME Inv, OrderInv, ResponsesStep \/ ResponsesEnd
             PROVE  OrderInv'
  OBVIOUS
<1> DEFINE n == Top.n
           p == Top.next
           s == Tail(stack)
<1>1. /\ Running("responses") /\ stack \in Seq(FrameType) /\ UNCHANGED received
      /\ Top.loop = "responses"
  BY DEF ResponsesStep, ResponsesEnd, Inv, StackOK, serverVars, Running, Top
<1>2. /\ stack # <<>> /\ Top \in ReadFrame /\ n \in DOMAIN received
      /\ p \in Nat \ {0}
      /\ More => p \in DOMAIN received[n].doc.items
  BY <1>1, ReadTop DEF Inv
<1>3. DOMAIN received[n].doc.items = 1 .. Len(Top.items)
        /\ Len(Top.items) \in Nat
  <2>1. Top = stack[1] /\ 1 \in DOMAIN stack
    BY <1>1, <1>2 DEF Top
  <2>2. Top.items = received[n].doc.items
    BY <1>1, <2>1 DEF Inv, StackOK, FramesRead
  <2> QED BY <1>2, <2>2 DEF ReadFrame
<1>4. WithLoop(stack, Top, s)
  BY <1>1, <1>2, LeaveWithLoop
<1>5. /\ \A q : At(stack, n, q) <=> q = p
      /\ \A q : ~At(s, n, q)
      /\ OneLoop(s)
      /\ \A m, q : m # n => (At(stack, m, q) <=> At(s, m, q))
  BY <1>1, <1>4 DEF OrderInv, WithLoop, ReadsResponses
<1>6. IsResponseArray(received[n])
  BY <1>5 DEF OrderInv
<1>7. ArrayOK(delivered, stack, n, received[n])
  BY <1>2, <1>6 DEF OrderInv
<1> HIDE DEF n, p, s
<1>8. CASE ResponsesStep
  <2>1. PICK x : delivered' = Append(delivered, x) /\ x.ref = <<n, p>>
    BY <1>8, Delivers DEF ResponsesStep, n, p
  <2>2. x.ref[1] = n /\ x.ref[2] = p
    BY <2>1
  <2>3. delivered \in Seq(DeliveryType) BY DEF Inv, ClientOK
  <2>4. PICK f : /\ f.loop = "responses" /\ f.n = n /\ f.next = p + 1
                 /\ WithLoop(stack', f, s)
    <3>1. <<>> \in Seq(Body) OBVIOUS
    <3> QED BY <1>1, <1>2, <1>8, <3>1, AdvanceWithLoop
            DEF ResponsesStep, n, p, s
  <2>5. /\ \A q : At(stack', n, q) <=> q = p + 1
        /\ OneLoop(stack')
        /\ \A m, q : m # n => (At(stack', m, q) <=> At(stack, m, q))
    BY <1>5, <2>4 DEF WithLoop, ReadsResponses
  <2>6. ArrayOK(delivered', stack', n, received[n])
    <3>1. p \in DOMAIN received[n].doc.items
      BY <1>2, <1>8 DEF ResponsesStep
    <3>2. DOMAIN received[n].doc.items \subseteq Nat
      BY <1>3
    <3>3. IsNextDelivery(delivered, delivered', x, stack, stack', n,
                         received[n], p)
      BY <1>2, <1>5, <1>7, <2>1, <2>2, <2>3, <2>5, <3>1, <3>2
      DEF IsNextDelivery, p
    <3> QED BY <3>3, NextDelivered
  <2>7. ASSUME NEW m \in DOMAIN received, m # n, IsResponseArray(received[m])
        PROVE  ArrayOK(delivered', stack', m, received[m])
    <3>1. About(delivered', m) = About(delivered, m)
            /\ \A i \in About(delivered, m) : delivered'[i] = delivered[i]
      BY <2>1, <2>2, <2>3, <2>7, OneMoreDelivered DEF About
    <3> QED BY <2>5, <2>7, <3>1, SameElements DEF OrderInv
  <2>8. \A i \in DOMAIN delivered' : delivered'[i].ref[1] \in DOMAIN received
    BY <1>2, <2>1, <2>2, <2>3, OneMoreDelivered DEF OrderInv, n
  <2>9. \A m, q : At(stack', m, q) =>
           m \in DOMAIN received /\ IsResponseArray(received[m])
    BY <1>2, <1>6, <2>5 DEF OrderInv, n
  <2> QED BY <1>1, <2>5, <2>6, <2>7, <2>8, <2>9 DEF OrderInv
<1>9. CASE ResponsesEnd
  <2>1. UNCHANGED delivered /\ stack' = s /\ ~More
    BY <1>9 DEF ResponsesEnd, Leave, clientVars, s
  <2>2. \A i \in DOMAIN received[n].doc.items : i \in Nat /\ i < p
    BY <1>2, <1>3, <2>1 DEF More, p
  <2>3. PastLoop(stack', n, received[n].doc.items)
          = PastLoop(stack, n, received[n].doc.items)
    BY <1>2, <1>5, <2>1, <2>2 DEF PastLoop, p
  <2>4. ArrayOK(delivered', stack', n, received[n])
    BY <1>7, <2>1, <2>3 DEF ArrayOK
  <2>5. ASSUME NEW m \in DOMAIN received, m # n, IsResponseArray(received[m])
        PROVE  ArrayOK(delivered', stack', m, received[m])
    BY <1>5, <2>1, <2>5, SameElements DEF OrderInv
  <2> QED BY <1>1, <1>5, <2>1, <2>4, <2>5 DEF OrderInv
<1> QED BY <1>8, <1>9

\* A document arrives as a.
LEMMA ReceiveOrder == Inv /\ OrderInv /\ Receive => OrderInv'
<1> SUFFICES ASSUME Inv, OrderInv, NEW t \in hooked, NEW doc \in Documents,
                    \/ ReceiveStopped(t, doc)
                    \/ ReceiveInvalid(t, doc)
                    \/ ReceiveRequest(t, doc)
                    \/ ReceiveNotification(t, doc)
                    \/ ReceiveResponse(t, doc)
                    \/ ReceiveRequestBatch(t, doc)
                    \/ ReceiveResponseBatch(t, doc)
             PROVE  OrderInv'
  BY DEF Receive
<1>1. PICK stopped \in BOOLEAN :
           /\ Arrive(t, doc, stopped)
           /\ \/ stopped /\ ReceiveStopped(t, doc)
              \/ ReceiveInvalid(t, doc)
              \/ ReceiveRequest(t, doc)
              \/ ReceiveNotification(t, doc)
              \/ ReceiveResponse(t, doc)
              \/ ReceiveRequestBatch(t, doc)
              \/ ~stopped /\ ReceiveResponseBatch(t, doc)
  BY DEF ReceiveStopped, ReceiveInvalid, ReceiveRequest, ReceiveNotification,
         ReceiveResponse, ReceiveRequestBatch, ReceiveResponseBatch
<1> DEFINE a == [doc |-> doc, from |-> t, stopped |-> stopped]
           n == Arrival
<1>2. /\ received' = Append(received, a) /\ a.doc = doc /\ a.stopped = stopped
      /\ received \in Seq(ArrivalType) /\ delivered \in Seq(DeliveryType)
      /\ n \in 1..MaxArrivals /\ StackOK
  BY <1>1, ArriveFacts DEF Arrive, Inv, ServerOK, ClientOK
<1> HIDE DEF a
<1>3. /\ DOMAIN received' = DOMAIN received \cup {n} /\ n \notin DOMAIN received
      /\ \A m \in DOMAIN received : received'[m] = received[m]
      /\ received'[n] = a
  BY <1>2 DEF Arrival
<1> HIDE DEF n
<1>4. /\ \A p : ~At(stack, n, p)
      /\ About(delivered, n) = {}
  BY <1>3 DEF OrderInv, About
\* Nothing is delivered, or the response that the document is.
<1>5. ASSUME SameResponseLoops, ~IsResponseArray(a),
             \/ UNCHANGED delivered
             \/ \E x : delivered' = Append(delivered, x) /\ x.ref[1] = n
      PROVE  OrderInv'
  <2>1. /\ \A m : m # n => About(delivered', m) = About(delivered, m)
        /\ \A i \in DOMAIN delivered : delivered'[i] = delivered[i]
        /\ \A i \in DOMAIN delivered' : i \in DOMAIN delivered
                                        \/ delivered'[i].ref[1] = n
    <3>1. CASE UNCHANGED delivered BY <3>1
    <3>2. CASE \E x : delivered' = Append(delivered, x) /\ x.ref[1] = n
      <4>1. PICK x : delivered' = Append(delivered, x) /\ x.ref[1] = n
        BY <3>2
      <4> DEFINE e == delivered'
      <4>2. e = Append(delivered, x) BY <4>1
      <4> HIDE DEF e
      <4>3. /\ DOMAIN e = DOMAIN delivered \cup {Len(delivered) + 1}
            /\ e[Len(delivered) + 1] = x
            /\ \A i \in DOMAIN delivered : e[i] = delivered[i]
        BY <1>2, <4>2
      <4>4. \A m : m # x.ref[1] => About(e, m) = About(delivered, m)
        BY <4>2, <4>3 DEF About
      <4> QED BY <4>1, <4>3, <4>4 DEF e
    <3> QED BY <1>5, <3>1, <3>2
  <2>2. ASSUME NEW m \in DOMAIN received, IsResponseArray(received[m])
        PROVE  ArrayOK(delivered', stack', m, received'[m])
    <3>1. m # n BY <1>3
    <3>2. \A i \in About(delivered, m) : delivered'[i] = delivered[i]
      BY <2>1 DEF About
    <3> QED BY <1>3, <1>5, <2>1, <2>2, <3>1, <3>2, SameElements
            DEF OrderInv, SameResponseLoops
  <2> QED BY <1>3, <1>5, <2>1, <2>2 DEF OrderInv, SameResponseLoops
<1>6. UNCHANGED stack => SameResponseLoops
  BY DEF SameResponseLoops
<1>7. CASE stopped /\ ReceiveStopped(t, doc)
  BY <1>1, <1>2, <1>5, <1>6, <1>7
  DEF ReceiveStopped, IsResponseArray, clientVars
<1>8. CASE ReceiveInvalid(t, doc)
  BY <1>2, <1>5, <1>6, <1>8
  DEF ReceiveInvalid, IsInvalid, IsResponseArray, clientVars
<1>9. CASE ReceiveRequest(t, doc) \/ ReceiveNotification(t, doc)
  BY <1>2, <1>5, <1>6, <1>9
  DEF ReceiveRequest, ReceiveNotification, IsSingle, IsResponseArray,
      clientVars
<1>10. CASE ReceiveResponse(t, doc)
  <2>1. ~IsResponseArray(a) /\ SameResponseLoops
    BY <1>2, <1>6, <1>10 DEF ReceiveResponse, IsSingle, IsResponseArray
  <2>2. PICK x : delivered' = Append(delivered, x) /\ x.ref = <<n, 1>>
    BY <1>10, Delivers DEF ReceiveResponse, n
  <2> QED BY <1>5, <2>1, <2>2
<1>11. CASE ReceiveRequestBatch(t, doc)
  <2>1. ~IsResponseArray(a) /\ UNCHANGED delivered
    BY <1>2, <1>11 DEF ReceiveRequestBatch, IsResponseArray, clientVars
  <2> DEFINE f == Frame("requests", Arrival, doc.items)
  <2>2. f \in FrameType /\ f.loop = "requests" /\ Enter(f)
    BY <1>2, <1>11, DocumentItems, NewFrames
    DEF ReceiveRequestBatch, FrameType, Frame, n
  <2> HIDE DEF f
  <2>3. WithLoop(stack', f, stack)
    BY <1>2, <2>2, EnterWithLoop
  <2>4. SameResponseLoops
    BY <2>2, <2>3 DEF WithLoop, SameResponseLoops, ReadsResponses
  <2> QED BY <1>5, <2>1, <2>4
<1>12. CASE ~stopped /\ ReceiveResponseBatch(t, doc)
  <2>1. IsResponseArray(a) /\ UNCHANGED delivered
    BY <1>1, <1>2, <1>12
    DEF ReceiveResponseBatch, IsResponseArray, clientVars
  <2> DEFINE f == Frame("responses", Arrival, doc.items)
  <2>2. /\ f \in FrameType /\ f.loop = "responses" /\ Enter(f)
        /\ f.n = n /\ f.next = 1
    BY <1>2, <1>12, DocumentItems, NewFrames
    DEF ReceiveResponseBatch, FrameType, Frame, n
  <2> HIDE DEF f
  <2>3. WithLoop(stack', f, stack)
    BY <1>2, <2>2, EnterWithLoop
  <2>4. /\ OneLoop(stack')
        /\ \A p : At(stack', n, p) <=> p = 1
        /\ \A m, p : m # n => (At(stack', m, p) <=> At(stack, m, p))
    BY <1>4, <2>2, <2>3 DEF WithLoop, ReadsResponses, OrderInv
  <2>5. ArrayOK(delivered', stack', n, a)
    <3>1. PastLoop(stack', n, a.doc.items) = {}
      <4>1. DOMAIN a.doc.items \subseteq Nat \ {0}
        BY <1>2, DocumentItems
      <4>2. \A i \in Nat \ {0} : 1 \in 1..i
        OBVIOUS
      <4> QED BY <2>4, <4>1, <4>2 DEF PastLoop
    <3>2. Increasing(delivered', n) /\ Elements(delivered', n) = {}
      BY <1>4, <2>1 DEF Increasing, Elements
    <3> QED BY <3>1, <3>2 DEF ArrayOK
  <2>6. ASSUME NEW m \in DOMAIN received, IsResponseArray(received[m])
        PROVE  ArrayOK(delivered', stack', m, received'[m])
    BY <1>3, <2>1, <2>4, <2>6, SameElements DEF OrderInv
  <2> QED BY <1>3, <2>1, <2>4, <2>5, <2>6 DEF OrderInv
<1> QED BY <1>1, <1>7, <1>8, <1>9, <1>10, <1>11, <1>12

\* The loops of sendBatch and over batches deliver nothing.
LEMMA OtherLoopsOrder ==
  Inv /\ OrderInv
    /\ (\/ SendBatchNotification \/ SendBatchRequest \/ SendBatchEnd
        \/ BatchInvalid \/ BatchNotification \/ BatchRequest \/ BatchEnd
        \/ BatchUseAfterFree)
  => OrderInv'
<1> SUFFICES ASSUME Inv, OrderInv,
                    \/ SendBatchNotification \/ SendBatchRequest
                    \/ SendBatchEnd
                    \/ BatchInvalid \/ BatchNotification \/ BatchRequest
                    \/ BatchEnd \/ BatchUseAfterFree
             PROVE  OrderInv'
  OBVIOUS
<1>1. UNCHANGED <<delivered, received>>
  BY DEF SendBatchNotification, SendBatchRequest, SendBatchEnd, BatchInvalid,
         BatchNotification, BatchRequest, BatchEnd, BatchUseAfterFree,
         clientVars, serverVars, Register
<1>2. SameResponseLoops
  <2>1. CASE SendBatchNotification \/ SendBatchRequest \/ SendBatchEnd
    <3>1. Running("send")
      BY <2>1 DEF SendBatchNotification, SendBatchRequest, SendBatchEnd
    <3>2. /\ stack # <<>> /\ Top.loop # "responses" /\ Top \notin ReadFrame
          /\ Top.array \in Seq(Body)
      BY <3>1, SendTop DEF Inv, SendFrame
    <3>3. \A body \in Body : Append(Top.array, body) \in Seq(Body)
      BY <3>2
    <3>4. Leave \/ \E user \in BOOLEAN, array \in Seq(Body) :
                     Advance(user, array)
      <4>1. NotificationBody \in Body BY BodyTypes
      <4>2. SendBatchRequest => RequestBody(TopItem, NextCall) \in Body
        BY <3>1, SendTop, BodyTypes
        DEF SendBatchRequest, Inv, ClientOK, NextCall
      <4> QED
        BY <2>1, <3>2, <3>3, <4>1, <4>2
        DEF SendBatchNotification, SendBatchRequest, SendBatchEnd
    <3> QED BY <3>2, <3>4, OtherLoopStep
  <2>2. CASE BatchInvalid \/ BatchNotification \/ BatchRequest \/ BatchEnd
             \/ BatchUseAfterFree
    <3>1. Running("requests")
      BY <2>2 DEF BatchInvalid, BatchNotification, BatchRequest, BatchEnd,
                  BatchUseAfterFree
    <3>2. stack # <<>> /\ Top.loop # "responses"
      BY <3>1 DEF Running, Top
    <3>3. \/ Leave \/ UNCHANGED stack
          \/ \E user \in BOOLEAN : Advance(user, <<>>)
      <4>1. BatchNotification => HasHandler(TopItem.method) \in BOOLEAN
        BY DEF HasHandler, Inv, ConfigOK
      <4> QED
        BY <2>2, <4>1
        DEF BatchInvalid, BatchNotification, BatchRequest, BatchEnd,
            BatchUseAfterFree
    <3>4. <<>> \in Seq(Body) OBVIOUS
    <3> QED BY <3>2, <3>3, <3>4, OtherLoopStep
  <2> QED BY <2>1, <2>2
<1> QED BY <1>1, <1>2, NothingDelivered

LEMMA CallOrder == Inv /\ OrderInv /\ Call => OrderInv'
<1> SUFFICES ASSUME Inv, OrderInv, Call PROVE OrderInv'
  OBVIOUS
<1>1. UNCHANGED <<delivered, received>>
  BY DEF Call, SendRequest, SendNotification, SendBatch, Register,
         clientVars, serverVars
<1>2. SameResponseLoops
  <2>1. CASE UNCHANGED stack BY <2>1 DEF SameResponseLoops
  <2>2. ASSUME NEW items \in OutBatches, SendBatch(items)
        PROVE  SameResponseLoops
    <3> DEFINE f == Frame("send", 0, items)
    <3>1. f \in FrameType /\ f.loop = "send" /\ Enter(f)
      BY <2>2, NewFrames, ConstantsAssumption
      DEF ConstantsAssumption, FrameType, Frame, SendBatch
    <3> HIDE DEF f
    <3>2. WithLoop(stack', f, stack)
      BY <3>1, EnterWithLoop DEF Inv
    <3> QED BY <3>1, <3>2 DEF WithLoop, SameResponseLoops, ReadsResponses
  <2> QED BY <2>1, <2>2 DEF Call, SendRequest, SendNotification
<1> QED BY <1>1, <1>2, NothingDelivered

\* OrderInv is an invariant.
THEOREM OrderInvariance == Spec => []OrderInv
<1>1. Inv /\ OrderInv /\ [Next]_vars => OrderInv'
  <2> SUFFICES ASSUME Inv, OrderInv, [Next]_vars PROVE OrderInv'
    OBVIOUS
  <2>1. CASE Call BY <2>1, CallOrder
  <2>2. CASE Receive BY <2>2, ReceiveOrder
  <2>3. CASE LoopStep
    BY <2>3, ResponsesLoopOrder, OtherLoopsOrder DEF LoopStep
  <2>4. CASE \/ Configure \/ (\E r \in open : Reply(r))
             \/ UseDestroyed \/ UNCHANGED vars
    <3>1. UNCHANGED <<stack, delivered, received>>
      BY <2>4 DEF Configure, SetTransport, SetMessageHandler,
                  SetDefaultMessageHandler, Destroy, Reply, ReplySingle,
                  ReplyInBatch, UseDestroyed, clientVars, serverVars, vars
    <3>2. SameResponseLoops BY <3>1 DEF SameResponseLoops
    <3> QED BY <3>1, <3>2, NothingDelivered
  <2> QED BY <2>1, <2>2, <2>3, <2>4 DEF Next
<1>2. Init => OrderInv
  BY DEF Init, OrderInv, OneLoop, At
<1> QED BY <1>1, <1>2, Invariance, PTL DEF Spec

\* Every element of a response array is delivered once, in the order of the
\* array, up to where its loop is.
THEOREM ResponsesAreInOrder == Spec => []ResponsesInOrder
<1>1. OrderInv => ResponsesInOrder
  <2> SUFFICES ASSUME OrderInv, NEW n \in DOMAIN received,
                      IsResponseArray(received[n])
               PROVE  /\ \A i, j \in DeliveredOf(n) :
                           i < j => delivered[i].ref[2] < delivered[j].ref[2]
                      /\ {delivered[i].ref[2] : i \in DeliveredOf(n)}
                           = {i \in DOMAIN received[n].doc.items :
                                \A p \in 1..i : ~LoopAt(n, p)}
    BY DEF ResponsesInOrder
  <2>1. About(delivered, n) = DeliveredOf(n)
    BY DEF About, DeliveredOf
  <2>2. \A p : At(stack, n, p) <=> LoopAt(n, p)
    BY DEF At, ReadsResponses, LoopAt
  <2>3. ArrayOK(delivered, stack, n, received[n])
    BY DEF OrderInv
  <2>4. PastLoop(stack, n, received[n].doc.items)
          = {i \in DOMAIN received[n].doc.items :
               \A p \in 1..i : ~LoopAt(n, p)}
    BY <2>2 DEF PastLoop
  <2> QED BY <2>1, <2>3, <2>4 DEF ArrayOK, Increasing, Elements
<1> QED BY <1>1, OrderInvariance, PTL

---------------------------------------------------------------------------
(***************************************************************************)
(* The proof that JsonRpcProtocol implements RpcExchange: its initial      *)
(* states are initial states there, and each of its steps is a step or a   *)
(* stutter.  A step is known by what it does to three histories, the       *)
(* documents received, the requests sent and the wire.                     *)
(***************************************************************************)

\* What RpcExchange sees.

StatusOf(w, arrived, n) ==
  IF n \notin DOMAIN arrived THEN "new"
  ELSE IF AnswersTo(w, n) # {} THEN "answered"
  ELSE IF \E i : Owes(arrived[n], i) THEN "owed" ELSE "nothing owed"

PhaseOf(c) ==
  IF Told(c, 0, 0) THEN "waiting"
  ELSE IF Told(c, 1, 0) THEN "answered"
  ELSE IF Told(c, 0, 1) THEN "rejected" ELSE "called again"
CallOf(made, c) == IF c \in DOMAIN made THEN PhaseOf(made[c]) ELSE "new"

\* A document is answered once, so its messages need not be counted.
StatusesAre == \A n \in 1..MaxArrivals :
                 DocumentStatus(n) = StatusOf(wire, received, n)
LEMMA StatusIs == BatchInv => StatusesAre
<1> SUFFICES ASSUME BatchInv, NEW n \in 1..MaxArrivals, n \in DOMAIN received
             PROVE  DocumentStatus(n) = StatusOf(wire, received, n)
  BY DEF StatusesAre, DocumentStatus, StatusOf
<1> DEFINE S == AnswerMessages(n)
<1>1. AnswersOK(n, received[n], batch[n], AnswersTo(wire, n))
  BY DEF BatchInv, DocsOK, DocOK, DocumentOK
<1>2. S = {k \in DOMAIN wire : IsAbout(wire[k], n)}
  BY DEF AnswerMessages, IsAbout
<1>3. \A k \in S : <<k, wire[k]>> \in AnswersTo(wire, n)
  BY <1>2 DEF AnswersTo
<1>4. S = {} <=> AnswersTo(wire, n) = {}
  BY <1>2 DEF AnswersTo
<1>5. \A x, y \in S : x = y
  <2> SUFFICES ASSUME NEW x \in S, NEW y \in S PROVE x = y
    OBVIOUS
  <2>1. <<x, wire[x]>> = <<y, wire[y]>>
    BY <1>1, <1>3 DEF AnswersOK
  <2> QED BY <2>1
<1>6. Cardinality(S) = IF S = {} THEN 0 ELSE 1
  <2> HIDE DEF S
  <2> QED BY <1>5, OneAtMost
<1>7. OwedRefs(n) = {} <=> ~\E i : Owes(received[n], i)
  <2>1. ASSUME NEW i, Owes(received[n], i) PROVE OwedRefs(n) # {}
    <3>1. <<n, i>> \in OwedRefs(n)
      BY <2>1, OwedRefsAre DEF BatchInv
    <3> QED BY <3>1
  <2>2. ASSUME NEW r \in OwedRefs(n) PROVE \E i : Owes(received[n], i)
    BY OwedRefsAre DEF BatchInv
  <2> QED BY <2>1, <2>2
<1> HIDE DEF S
<1>8. CASE S = {}
  <2>1. Cardinality(S) = 0 BY <1>6, <1>8
  <2>2. DocumentStatus(n) = IF OwedRefs(n) = {} THEN "nothing owed" ELSE "owed"
    BY <1>8 DEF DocumentStatus, S
  <2> QED BY <1>4, <1>7, <1>8, <2>2 DEF StatusOf
<1>9. CASE S # {}
  <2>1. Cardinality(S) = 1 BY <1>6, <1>9
  <2>2. DocumentStatus(n) = "answered"
    BY <1>9, <2>1 DEF DocumentStatus, S
  <2> QED BY <1>4, <1>9, <2>2 DEF StatusOf
<1> QED BY <1>8, <1>9

LEMMA NextStatusIs == BatchInv' => StatusesAre'
BY StatusIs, PTL

LEMMA CallStatusIs ==
  /\ \A c : CallStatus(c) = CallOf(calls, c)
  /\ \A c : CallStatus(c)' = CallOf(calls', c)
BY DEF CallStatus, CallOf, PhaseOf, Told


---------------------------------------------------------------------------
\* What a step may do to the documents, and to the requests.

DocumentsStay == \A n \in 1..MaxArrivals :
                   StatusOf(wire', received', n) = StatusOf(wire, received, n)
Moves(n, old, new) ==
  /\ n \in 1..MaxArrivals
  /\ StatusOf(wire, received, n) = old
  /\ StatusOf(wire', received', n) = new
  /\ \A j \in (1..MaxArrivals) \ {n} :
       StatusOf(wire', received', j) = StatusOf(wire, received, j)

CallsStay == \A c : CallOf(calls', c) = CallOf(calls, c)
CallMoves(c, old, new) ==
  /\ CallOf(calls, c) = old /\ CallOf(calls', c) = new
  /\ \A j : j # c => CallOf(calls', j) = CallOf(calls, j)

\* Nothing but questions is sent.
LEMMA AskingStays ==
  ASSUME BatchInv, BatchInv', UNCHANGED received, Asks
  PROVE  DocumentsStay
<1>1. \A n : AnswersTo(wire', n) = AnswersTo(wire, n)
  BY AsksFacts, SameReceived DEF BatchInv, Inv
<1> QED BY <1>1 DEF DocumentsStay, StatusOf

\* A message is sent when no document arrives.  If it is an answer, it is the
\* first one, because it is the only one afterwards.
Sends == UNCHANGED wire \/ \E m : wire' = Append(wire, m)

LEMMA SendingAnswers ==
  ASSUME BatchInv, BatchInv', UNCHANGED received, Sends
  PROVE  DocumentsStay \/ \E n : Moves(n, "owed", "answered")
<1>1. CASE UNCHANGED wire
  BY <1>1 DEF DocumentsStay, StatusOf
<1>2. ASSUME NEW m, wire' = Append(wire, m)
      PROVE  DocumentsStay \/ \E n : Moves(n, "owed", "answered")
  <2>1. /\ DOMAIN wire' = DOMAIN wire \cup {Len(wire) + 1}
        /\ Len(wire) + 1 \notin DOMAIN wire
        /\ wire'[Len(wire) + 1] = m
        /\ \A k \in DOMAIN wire : wire'[k] = wire[k]
    BY <1>2 DEF BatchInv, Inv, OutputOK
  <2>2. MessageOK(m, DOMAIN received)
    BY <2>1 DEF BatchInv, WireOK
  <2>3. /\ \A n : ~IsAbout(m, n) => AnswersTo(wire', n) = AnswersTo(wire, n)
        /\ \A n : IsAbout(m, n) /\ AnswersTo(wire, n) = {}
             => AnswersTo(wire', n) = {<<Len(wire) + 1, m>>}
    BY <1>2, <2>2, OneMoreMessage, SameReceived DEF BatchInv, Inv, OutputOK
  <2>4. CASE NoAnswer(m.bodies)
    BY <1>2, <2>2, <2>4, AskingStays DEF Asks, MessageOK
  <2>5. ASSUME NEW n \in DOMAIN received, IsAbout(m, n)
        PROVE  Moves(n, "owed", "answered")
    <3>1. n \in 1..MaxArrivals
      BY ConstantsAssumption
      DEF BatchInv, Inv, ServerOK, ConstantsAssumption
    <3>2. AnswersOK(n, received[n], batch'[n], AnswersTo(wire', n))
      <4>1. DocOK(n)' BY <3>1 DEF BatchInv, DocsOK
      <4> QED BY <4>1 DEF DocOK, DocumentOK
    <3> DEFINE last == <<Len(wire) + 1, m>>
    <3>3. last \in AnswersTo(wire', n) /\ last[2] = m
      BY <2>1, <2>5 DEF AnswersTo
    <3>4. AnswersTo(wire, n) = {}
      <4> SUFFICES ASSUME NEW e \in AnswersTo(wire, n) PROVE FALSE
        OBVIOUS
      <4>1. PICK k \in DOMAIN wire : e = <<k, wire[k]>> /\ IsAbout(wire[k], n)
        BY DEF AnswersTo
      <4>2. e \in AnswersTo(wire', n)
        BY <2>1, <4>1 DEF AnswersTo
      <4>3. e = last
        BY <3>2, <3>3, <4>2 DEF AnswersOK
      <4> QED BY <2>1, <4>1, <4>3
    <3>5. \E i : Owes(received[n], i)
      <4>1. AnswersDocument(m, n, received[n])
        <5> HIDE DEF last
        <5> QED BY <3>2, <3>3 DEF AnswersOK
      <4>2. 1 \in DOMAIN m.bodies
        <5>1. m \in MessageType
          BY <2>1 DEF BatchInv, Inv, OutputOK
        <5> QED BY <4>1, <5>1 DEF AnswersDocument, MessageType
      <4>3. RightBody(n, received[n], m.bodies[1])
        BY <4>1, <4>2 DEF AnswersDocument, RightBodies
      <4> QED BY <4>3 DEF RightBody
    <3>6. \A j : j # n => ~IsAbout(m, j)
      BY <2>5 DEF IsAbout
    <3> QED
      BY <2>3, <3>1, <3>3, <3>4, <3>5, <3>6 DEF Moves, StatusOf
  <2> QED BY <2>2, <2>4, <2>5 DEF MessageOK
<1> QED BY <1>1, <1>2 DEF Sends

\* A document arrives, and may be answered at once.
Comes(a) ==
  /\ Arrival <= MaxArrivals /\ received' = Append(received, a)
  /\ \/ UNCHANGED wire
     \/ \E m : wire' = Append(wire, m) /\ IsAbout(m, Arrival)
LEMMA ArrivalMoves ==
  ASSUME BatchInv, BatchInv', NEW a, Comes(a)
  PROVE  \E status \in {"nothing owed", "owed", "answered"} :
           /\ Moves(Arrival, "new", status)
           /\ UNCHANGED wire /\ (\A i : ~Owes(a, i)) => status = "nothing owed"
<1>1. /\ DOMAIN received' = DOMAIN received \cup {Arrival}
      /\ Arrival \notin DOMAIN received /\ Arrival \in 1..MaxArrivals
      /\ received'[Arrival] = a
      /\ \A n \in DOMAIN received : received'[n] = received[n]
  BY DEF Comes, Arrival, BatchInv, Inv, ServerOK
<1>2. KeepsReceived
  BY <1>1 DEF KeepsReceived
<1>3. \A n : n # Arrival => AnswersTo(wire', n) = AnswersTo(wire, n)
  <2>1. CASE UNCHANGED wire BY <2>1
  <2>2. ASSUME NEW m, wire' = Append(wire, m), IsAbout(m, Arrival)
        PROVE  \A n : n # Arrival => AnswersTo(wire', n) = AnswersTo(wire, n)
    <3>1. \A n : n # Arrival => ~IsAbout(m, n)
      BY <2>2 DEF IsAbout
    <3>2. MessageOK(m, DOMAIN received')
      <4>1. Len(wire) + 1 \in DOMAIN wire' /\ wire'[Len(wire) + 1] = m
        BY <2>2 DEF BatchInv, Inv, OutputOK
      <4> QED BY <4>1 DEF BatchInv, WireOK
    <3> QED
      BY <1>2, <2>2, <3>1, <3>2, OneMoreMessage DEF BatchInv, Inv, OutputOK
  <2> QED BY <2>1, <2>2 DEF Comes
<1>4. \A j \in (1..MaxArrivals) \ {Arrival} :
        StatusOf(wire', received', j) = StatusOf(wire, received, j)
  BY <1>1, <1>3 DEF StatusOf
<1>5. StatusOf(wire, received, Arrival) = "new"
  BY <1>1 DEF StatusOf
<1>6. StatusOf(wire', received', Arrival)
        \in {"nothing owed", "owed", "answered"}
  BY <1>1 DEF StatusOf
<1>7. UNCHANGED wire /\ (\A i : ~Owes(a, i))
        => StatusOf(wire', received', Arrival) = "nothing owed"
  <2>1. AnswersTo(wire, Arrival) = {}
    BY <1>1 DEF BatchInv, DocsOK, DocOK
  <2> QED BY <1>1, <2>1 DEF StatusOf
<1> QED BY <1>1, <1>4, <1>5, <1>6, <1>7 DEF Moves

\* A request is registered or rejected.
LEMMA RegisterMoves ==
  ASSUME Inv, NEW id \in AnyId, Register(id)
  PROVE  \E status \in {"waiting", "rejected"} :
           CallMoves(NextCall, "new", status)
<1> DEFINE new == NewCall(id, IF CanRegister(id) THEN 0 ELSE 1)
<1>1. calls' = Append(calls, new)
  BY DEF Register
<1>2. PhaseOf(new) = IF CanRegister(id) THEN "waiting" ELSE "rejected"
  <2>1. new.answered = 0 /\ new.rejected = IF CanRegister(id) THEN 0 ELSE 1
    BY DEF NewCall
  <2>2. CASE CanRegister(id)
    <3>1. new.rejected = 0 BY <2>1, <2>2
    <3> HIDE DEF new
    <3> QED BY <2>1, <2>2, <3>1 DEF PhaseOf, Told
  <2>3. CASE ~CanRegister(id)
    <3>1. new.rejected = 1 BY <2>1, <2>3
    <3> HIDE DEF new
    <3> QED BY <2>1, <2>3, <3>1 DEF PhaseOf, Told
  <2> QED BY <2>2, <2>3
<1> HIDE DEF new
<1>3. /\ DOMAIN calls' = DOMAIN calls \cup {NextCall}
      /\ calls'[NextCall] = new /\ NextCall \notin DOMAIN calls
      /\ \A c \in DOMAIN calls : calls'[c] = calls[c]
  BY <1>1 DEF NextCall, Inv, ClientOK
<1> QED BY <1>2, <1>3 DEF CallMoves, CallOf

\* A response is delivered to the call it belongs to, if there is one.
LEMMA ResponseMoves ==
  ASSUME Inv, NEW r, NEW id, ProcessResponse(r, id)
  PROVE  CallsStay \/ \E c : CallMoves(c, "waiting", "answered")
<1> DEFINE called == IF id \in Ids THEN pending[id] ELSE NoCall
<1>1. CASE called = NoCall
  BY <1>1 DEF ProcessResponse, CallsStay
<1>2. CASE called # NoCall
  <2>1. PICK c \in DOMAIN calls : /\ id \in Ids /\ pending[id] = c
                                  /\ calls[c].id = id /\ called = c
    BY <1>2 DEF Inv, ClientOK, EachCallOnce
  <2>2. calls' = [calls EXCEPT ![c].answered = @ + 1]
    BY <1>2, <2>1 DEF ProcessResponse
  <2> HIDE DEF called
  <2>3. PICK e \in CallType : e = calls[c]
    BY <2>1 DEF Inv, ClientOK
  <2>4. e.answered = 0 /\ e.rejected = 0
    <3>1. calls[c].answered + calls[c].rejected = 0
      BY <2>1 DEF Inv, ClientOK, EachCallOnce, Waiting
    <3> QED BY <2>3, <3>1 DEF CallType
  <2>5. PhaseOf(e) = "waiting"
        /\ PhaseOf([e EXCEPT !.answered = @ + 1]) = "answered"
    BY <2>4 DEF PhaseOf, Told, CallType
  <2>6. /\ DOMAIN calls' = DOMAIN calls
        /\ calls'[c] = [e EXCEPT !.answered = @ + 1]
        /\ \A j \in DOMAIN calls : j # c => calls'[j] = calls[j]
    BY <2>1, <2>2, <2>3 DEF Inv, ClientOK
  <2>7. CallMoves(c, "waiting", "answered")
    BY <2>1, <2>3, <2>5, <2>6 DEF CallMoves, CallOf
  <2> QED BY <2>7
<1> QED BY <1>1, <1>2


---------------------------------------------------------------------------
\* The kinds of steps.

Answering == UNCHANGED <<received, calls>> /\ Sends
Requesting == /\ UNCHANGED received /\ Asks
              /\ \E id \in AnyId : Register(id)
Completing == /\ UNCHANGED <<received, wire>>
              /\ \E r, id : ProcessResponse(r, id)
Receiving == UNCHANGED calls /\ \E a : Comes(a)
ReceivingResponse ==
  /\ UNCHANGED wire
  /\ \E a : Comes(a) /\ \A i : ~Owes(a, i)
  /\ \E r, id : ProcessResponse(r, id)

LEMMA SendMessageSends ==
  ASSUME NEW array, NEW bodies, SendMessage(array, bodies)
  PROVE  Sends
BY DEF SendMessage, Sends

LEMMA CallKinds == Call => Answering \/ Requesting
<1>1. ASSUME NEW id \in AnyId, SendRequest(id) PROVE Requesting
  <2>1. UNCHANGED received /\ Register(id) /\ fault = "none"
    BY <1>1 DEF SendRequest, serverVars, MayCall, MayUse, InUser
  <2>2. Asks
    <3>1. CASE CanRegister(id)
      <4>1. NoAnswer(<<RequestBody(id, NextCall)>>) BY BodiesAsk
      <4> QED BY <1>1, <2>1, <3>1, <4>1, SendAsks DEF SendRequest
    <3>2. CASE ~CanRegister(id)
      BY <1>1, <3>2 DEF SendRequest, Asks
    <3> QED BY <3>1, <3>2
  <2> QED BY <2>1, <2>2 DEF Requesting
<1>2. CASE SendNotification
  BY <1>2, SendMessageSends
  DEF SendNotification, serverVars, clientVars, Answering
<1>3. ASSUME NEW items \in OutBatches, SendBatch(items) PROVE Answering
  BY <1>3 DEF SendBatch, serverVars, clientVars, Answering, Sends
<1> QED BY <1>1, <1>2, <1>3 DEF Call

\* The answer to a document that is invalid, or that nobody handles, is about
\* this document; a document that is a response calls for none.
LEMMA ReceiveKinds == Receive => Receiving \/ ReceivingResponse
<1> SUFFICES ASSUME NEW t \in hooked, NEW doc \in Documents,
                    \/ ReceiveStopped(t, doc) \/ ReceiveInvalid(t, doc)
                    \/ ReceiveRequest(t, doc) \/ ReceiveNotification(t, doc)
                    \/ ReceiveResponse(t, doc) \/ ReceiveRequestBatch(t, doc)
                    \/ ReceiveResponseBatch(t, doc)
             PROVE  Receiving \/ ReceivingResponse
  BY Zenon DEF Receive
<1>1. ASSUME NEW stopped, Arrive(t, doc, stopped), UNCHANGED wire
      PROVE  Comes([doc |-> doc, from |-> t, stopped |-> stopped])
  BY <1>1 DEF Arrive, Comes
<1>2. ASSUME NEW id, Arrive(t, doc, FALSE),
             SendMessage(FALSE, <<ResponseBody(id, <<Arrival, 1>>)>>)
      PROVE  Comes([doc |-> doc, from |-> t, stopped |-> FALSE])
  <2> DEFINE m == Message(transport, FALSE,
                          <<ResponseBody(id, <<Arrival, 1>>)>>)
  <2>1. IsAbout(m, Arrival)
    BY DEF IsAbout, Message, ResponseBody
  <2>2. UNCHANGED wire \/ wire' = Append(wire, m)
    BY <1>2 DEF SendMessage
  <2> HIDE DEF m
  <2> QED BY <1>2, <2>1, <2>2 DEF Arrive, Comes
<1>3. CASE ReceiveStopped(t, doc)
  BY <1>1, <1>3 DEF ReceiveStopped, clientVars, Receiving
<1>4. CASE ReceiveInvalid(t, doc)
  BY <1>2, <1>4 DEF ReceiveInvalid, ErrorBody, clientVars, Receiving
<1>5. CASE ReceiveRequest(t, doc)
  BY <1>1, <1>2, <1>5 DEF ReceiveRequest, clientVars, Receiving
<1>6. CASE ReceiveNotification(t, doc)
  BY <1>1, <1>6 DEF ReceiveNotification, clientVars, Receiving
<1>7. CASE ReceiveResponse(t, doc)
  <2> DEFINE a == [doc |-> doc, from |-> t, stopped |-> FALSE]
  <2>1. Comes(a) /\ UNCHANGED wire
    BY <1>1, <1>7 DEF ReceiveResponse
  <2>2. /\ doc.type = "object" /\ ~IsInvalid(doc) /\ ~IsRequest(doc.items[1])
    BY <1>7, ConstantsAssumption
    DEF ReceiveResponse, IsSingle, HasMethod, IsRequest, ConstantsAssumption
  <2>3. \A i : ~Owes(a, i)
    BY <2>2 DEF Owes, OwesOne, IsBatch, IsRequestBatch
  <2>4. \E r, id : ProcessResponse(r, id)
    BY <1>7 DEF ReceiveResponse
  <2> HIDE DEF a
  <2> QED BY <2>1, <2>3, <2>4 DEF ReceivingResponse
<1>8. CASE ReceiveRequestBatch(t, doc)
  BY <1>1, <1>8 DEF ReceiveRequestBatch, clientVars, Receiving
<1>9. CASE ReceiveResponseBatch(t, doc)
  BY <1>1, <1>9 DEF ReceiveResponseBatch, clientVars, Receiving
<1> QED BY <1>3, <1>4, <1>5, <1>6, <1>7, <1>8, <1>9

LEMMA LoopStepKinds ==
  BatchInv /\ LoopStep => Answering \/ Requesting \/ Completing
<1> SUFFICES ASSUME BatchInv, LoopStep
             PROVE  Answering \/ Requesting \/ Completing
  OBVIOUS
<1>1. CASE SendBatchRequest
  <2>1. TopItem \in AnyId
    BY <1>1, SendTop DEF SendBatchRequest, BatchInv, Inv
  <2> QED BY <1>1, <2>1 DEF SendBatchRequest, serverVars, Requesting, Asks
<1>2. CASE ResponsesStep
  BY <1>2 DEF ResponsesStep, serverVars, Completing
<1>3. CASE SendBatchEnd
  BY <1>3, SendMessageSends
  DEF SendBatchEnd, serverVars, clientVars, Answering, Sends
<1>4. CASE BatchEnd
  BY <1>4 DEF BatchEnd, Flush, clientVars, Answering, Sends
<1>5. CASE \/ SendBatchNotification \/ ResponsesEnd \/ BatchInvalid
           \/ BatchNotification \/ BatchRequest \/ BatchUseAfterFree
  BY <1>5
  DEF SendBatchNotification, ResponsesEnd, BatchInvalid, BatchNotification,
      BatchRequest, BatchUseAfterFree, serverVars, clientVars, Answering, Sends
<1> QED BY <1>1, <1>2, <1>3, <1>4, <1>5 DEF LoopStep

LEMMA NextKinds ==
  ASSUME BatchInv, [Next]_vars
  PROVE  Answering \/ Requesting \/ Completing \/ Receiving
           \/ ReceivingResponse
<1>1. CASE Configure
  BY <1>1 DEF Configure, SetTransport, SetMessageHandler,
              SetDefaultMessageHandler, Destroy, serverVars, clientVars,
              Answering, Sends
<1>2. ASSUME NEW r \in open, Reply(r) PROVE Answering
  <2>1. CASE ReplySingle(r)
    BY <2>1, SendMessageSends DEF ReplySingle, clientVars, Answering
  <2>2. CASE ReplyInBatch(r)
    BY <2>2 DEF ReplyInBatch, Flush, clientVars, Answering, Sends
  <2> QED BY <1>2, <2>1, <2>2 DEF Reply
<1>3. CASE UseDestroyed
  BY <1>3 DEF UseDestroyed, serverVars, clientVars, Answering, Sends
<1>4. CASE UNCHANGED vars
  BY <1>4 DEF vars, Answering, Sends
<1> QED
  BY <1>1, <1>2, <1>3, <1>4, CallKinds, ReceiveKinds, LoopStepKinds DEF Next

---------------------------------------------------------------------------
\* The steps of RpcExchange.

LEMMA DocumentsSeen ==
  ASSUME BatchInv, BatchInv'
  PROVE  /\ DocumentsStay => DocumentStatuses' = DocumentStatuses
         /\ \A n, old, new : Moves(n, old, new) =>
              /\ n \in 1..MaxArrivals /\ DocumentStatuses[n] = old
              /\ DocumentStatuses' = [DocumentStatuses EXCEPT ![n] = new]
<1>1. DocumentStatuses = [n \in 1..MaxArrivals |-> StatusOf(wire, received, n)]
  BY StatusIs DEF StatusesAre, DocumentStatuses
<1>2. DocumentStatuses'
        = [n \in 1..MaxArrivals |-> StatusOf(wire', received', n)]
  BY NextStatusIs DEF StatusesAre, DocumentStatuses
<1> QED BY <1>1, <1>2 DEF DocumentsStay, Moves

LEMMA CallsSeen ==
  /\ UNCHANGED calls \/ CallsStay => CallStatuses' = CallStatuses
  /\ \A c, old, new : CallMoves(c, old, new) =>
       IF c \in CallNumbers
       THEN /\ CallStatuses[c] = old
            /\ CallStatuses' = [CallStatuses EXCEPT ![c] = new]
       ELSE CallStatuses' = CallStatuses
<1>1. CallStatuses = [c \in CallNumbers |-> CallOf(calls, c)]
  BY CallStatusIs DEF CallStatuses
<1>2. CallStatuses' = [c \in CallNumbers |-> CallOf(calls', c)]
  BY CallStatusIs DEF CallStatuses
<1> QED BY <1>1, <1>2 DEF CallsStay, CallMoves

LEMMA InitExchange == Init => Exchange!Init
<1> SUFFICES ASSUME Init PROVE Exchange!Init
  OBVIOUS
<1>1. DocumentStatuses = [n \in 1..MaxArrivals |-> "new"]
  BY DEF Init, DocumentStatuses, DocumentStatus
<1>2. CallStatuses = [c \in CallNumbers |-> "new"]
  BY DEF Init, CallStatuses, CallStatus
<1> QED BY <1>1, <1>2 DEF Exchange!Init

LEMMA NextExchange ==
  ASSUME BatchInv, BatchInv', [Next]_vars
  PROVE  Exchange!Next \/ UNCHANGED <<DocumentStatuses, CallStatuses>>
<1>1. CASE Answering
  <2>1. CallStatuses' = CallStatuses
    BY <1>1, CallsSeen DEF Answering
  <2>2. CASE DocumentsStay
    BY <2>1, <2>2, DocumentsSeen
  <2>3. ASSUME NEW n, Moves(n, "owed", "answered") PROVE Exchange!Next
    <3>1. n \in 1..MaxArrivals /\ Exchange!Answer(n)
      BY <2>1, <2>3, DocumentsSeen DEF Exchange!Answer
    <3> QED BY <3>1 DEF Exchange!Next
  <2> QED BY <1>1, <2>2, <2>3, SendingAnswers DEF Answering
<1>2. CASE Requesting
  <2>1. DocumentStatuses' = DocumentStatuses
    BY <1>2, AskingStays, DocumentsSeen DEF Requesting
  <2>2. PICK status \in {"waiting", "rejected"} :
          CallMoves(NextCall, "new", status)
    BY <1>2, RegisterMoves DEF Requesting, BatchInv
  <2>3. CASE NextCall \in CallNumbers
    <3>1. Exchange!Request(NextCall)
      BY <2>1, <2>2, <2>3, CallsSeen DEF Exchange!Request
    <3> QED BY <2>3, <3>1 DEF Exchange!Next
  <2>4. CASE NextCall \notin CallNumbers
    BY <2>1, <2>2, <2>4, CallsSeen
  <2> QED BY <2>3, <2>4
<1>3. CASE Completing
  <2>1. DocumentStatuses' = DocumentStatuses
    BY <1>3, AskingStays, DocumentsSeen DEF Completing, Asks
  <2>2. CASE CallsStay
    BY <2>1, <2>2, CallsSeen
  <2>3. ASSUME NEW c, CallMoves(c, "waiting", "answered")
        PROVE  Exchange!Next \/ CallStatuses' = CallStatuses
    <3>1. CASE c \in CallNumbers
      <4>1. Exchange!Complete(c)
        BY <2>1, <2>3, <3>1, CallsSeen DEF Exchange!Complete
      <4> QED BY <3>1, <4>1 DEF Exchange!Next
    <3> QED BY <2>3, <3>1, CallsSeen
  <2> QED BY <1>3, <2>1, <2>2, <2>3, ResponseMoves DEF Completing, BatchInv
<1>4. CASE Receiving
  <2>1. CallStatuses' = CallStatuses
    BY <1>4, CallsSeen DEF Receiving
  <2>2. PICK status \in {"nothing owed", "owed", "answered"} :
          Moves(Arrival, "new", status)
    BY <1>4, ArrivalMoves DEF Receiving
  <2>3. Arrival \in 1..MaxArrivals /\ Exchange!Receive(Arrival)
    BY <2>1, <2>2, DocumentsSeen DEF Exchange!Receive
  <2> QED BY <2>3 DEF Exchange!Next
<1>5. CASE ReceivingResponse
  <2>1. Moves(Arrival, "new", "nothing owed")
    BY <1>5, ArrivalMoves DEF ReceivingResponse
  <2>2. /\ Arrival \in 1..MaxArrivals
        /\ DocumentStatuses[Arrival] = "new"
        /\ DocumentStatuses'
             = [DocumentStatuses EXCEPT ![Arrival] = "nothing owed"]
    BY <2>1, DocumentsSeen
  <2>3. ASSUME CallStatuses' = CallStatuses PROVE Exchange!Next
    <3>1. Exchange!Receive(Arrival)
      BY <2>2, <2>3 DEF Exchange!Receive
    <3> QED BY <2>2, <3>1 DEF Exchange!Next
  <2>4. CASE CallsStay
    BY <2>3, <2>4, CallsSeen
  <2>5. ASSUME NEW c, CallMoves(c, "waiting", "answered")
        PROVE  Exchange!Next
    <3>1. CASE c \in CallNumbers
      <4>1. Exchange!ReceiveResponse(Arrival, c)
        BY <2>2, <2>5, <3>1, CallsSeen DEF Exchange!ReceiveResponse
      <4> QED BY <2>2, <3>1, <4>1 DEF Exchange!Next
    <3> QED BY <2>3, <2>5, <3>1, CallsSeen
  <2> QED
    BY <1>5, <2>4, <2>5, ResponseMoves DEF ReceivingResponse, BatchInv
<1> QED BY <1>1, <1>2, <1>3, <1>4, <1>5, NextKinds

\* Every behaviour of the protocol object is one of RpcExchange: a document
\* is answered by one message at most, and only if it calls for an answer; the
\* handler of a request is called once at most, and never after a rejection.
THEOREM ExchangeImplemented == Spec => ImplementsExchange
<1>1. Init => Exchange!Init
  BY InitExchange
<1>2. BatchInv /\ BatchInv' /\ [Next]_vars => [Exchange!Next]_(Exchange!vars)
  BY NextExchange DEF Exchange!vars
<1> QED
  BY <1>1, <1>2, BatchInvariance, PTL
  DEF Spec, ImplementsExchange, Exchange!Spec

=============================================================================
