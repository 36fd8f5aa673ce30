-------------------------- MODULE LspSessionProofs --------------------------
(***************************************************************************)
(* Proofs about LspSession for every value of its constants: its safety    *)
(* properties and, last, that it implements RemoteCalls.                   *)
(***************************************************************************)
EXTENDS LspSessionProperties, FiniteSetTheorems, TLAPS

AnswerOrNothing == Data \cup ErrorCodes \cup {Nothing}
Outcomes == {"result", Nothing} \cup ErrorCodes
CallRecord == [from : Peers, kind : {"request", "notification"},
               id : Ids \cup {NoId}, method : Methods, by : Places,
               answer : AnswerOrNothing, outcome : Outcomes]

Message ==
  [kind : {"request"}, method : Methods, id : Ids, number : Nat]
    \cup [kind : {"notification"}, method : Methods, number : Nat]
    \cup [kind : {"response"}, id : Ids, data : Data \cup ErrorCodes,
          number : Nat]
    \cup [kind : {"garbage", "parseErrorAnswer"}]

---------------------------------------------------------------------------
\* The inductive invariant.

\* What is registered fits its method.
HandlersOK ==
  /\ handlers \in [Peers -> [Methods -> {"none", "request", "notification",
                                         "signal", "null"}]]
  /\ \A p \in Peers, m \in Methods :
       /\ handlers[p][m] = "signal" => m \in Signals
       /\ handlers[p][m] \in {"request", "notification"} => m \in Registrable
       /\ handlers[p][m] = "request" => HandlerShape[m] \in Shapes
  /\ undispatched \in [Peers -> SUBSET {"request", "notification"}]
  /\ connected \in [Peers -> SUBSET Signals]

\* The types of the variables that messages change.
Types ==
  /\ lastId \in [Peers -> 0 .. IdCount - 1]
  /\ pending \in [Peers -> [Ids -> 0 .. Len(sent)]]
  /\ wire \in [Peers -> Seq(Message)]
  /\ sent \in Seq(CallRecord) /\ Len(sent) <= MaxSent
  /\ garbled \subseteq DOMAIN sent

IsCall(x) == x.kind \in {"request", "notification"}
IsReply(x) == x.kind = "response"

\* What a message on its way to p says is what its sender knows, and nothing
\* has come of it yet; nothing that was sent after a call has been taken.
\* (With calls for sent and spoiled for garbled.)
Asks(calls, spoiled, p, x) ==
  /\ x.number \in DOMAIN calls
  /\ calls[x.number].from = Other(p) /\ calls[x.number].kind = x.kind
  /\ calls[x.number].method = x.method /\ calls[x.number].by = Nothing
  /\ x.kind = "request" => /\ calls[x.number].id = x.id
                           /\ calls[x.number].outcome = Nothing
                           /\ x.number \notin spoiled
  /\ \A k \in DOMAIN calls :
       calls[k].from = Other(p) /\ x.number < k => calls[k].by = Nothing
Replies(calls, spoiled, p, x) ==
  /\ x.number \in DOMAIN calls
  /\ calls[x.number].from = p /\ calls[x.number].kind = "request"
  /\ calls[x.number].id = x.id /\ calls[x.number].answer = x.data
  /\ calls[x.number].by # Nothing /\ calls[x.number].outcome = Nothing
  /\ x.number \notin spoiled
Sound(calls, spoiled, p, x) ==
  /\ IsCall(x) => Asks(calls, spoiled, p, x)
  /\ IsReply(x) => Replies(calls, spoiled, p, x)
WireOK == \A p \in Peers : \A i \in DOMAIN wire[p] :
            Sound(sent, garbled, p, wire[p][i])

\* Calls are on their way in the order of their numbers; an answer is on its
\* way once.
Before(x, y) == /\ IsCall(x) /\ IsCall(y) => x.number < y.number
                /\ IsReply(x) /\ IsReply(y) => x.number # y.number
OrderOK == \A p \in Peers : \A i, j \in DOMAIN wire[p] :
             i < j => Before(wire[p][i], wire[p][j])

\* Nobody answers what nobody has taken, and what became of a request fits
\* who took it; a handler holds only what its sender still waits for.
\* (With c for the call of number k, and map for pending.)
CallOK(c, k, spoiled, map) ==
  /\ c.by = Nothing => c.answer = Nothing
  /\ c.kind = "notification" => c.answer = Nothing /\ c.outcome = Nothing
  /\ c.kind = "request" =>
       /\ c.id \in Ids
       /\ c.by = "nobody" => c.answer \in ErrorCodes
       /\ c.by = "handler" =>
            /\ HandlerShape[c.method] \in Shapes
            /\ c.answer \in {Nothing} \cup ErrorCodes
                              \cup Fitting(HandlerShape[c.method])
       /\ c.by # Nothing /\ c.answer = Nothing =>
            c.outcome = Nothing /\ k \notin spoiled
       /\ c.outcome = Nothing <=> map[c.from][c.id] = k
CallsOK == \A k \in DOMAIN sent : CallOK(sent[k], k, garbled, pending)

\* An entry of the map is that of a request that waits under its id.
PendingOK ==
  \A p \in Peers : \A id \in Ids :
    LET k == pending[p][id] IN
    k # 0 => /\ sent[k].from = p /\ sent[k].kind = "request"
             /\ sent[k].id = id

\* What has been neither taken nor spoiled is on its way, and so is an answer.
CallIn(messages, k) ==
  \E i \in DOMAIN messages : IsCall(messages[i]) /\ messages[i].number = k
ReplyIn(messages, k) ==
  \E i \in DOMAIN messages : IsReply(messages[i]) /\ messages[i].number = k
Found(c, k, spoiled, messages) ==
  c.kind = "request" /\ c.outcome = Nothing /\ k \notin spoiled =>
    /\ c.by = Nothing => CallIn(messages[Other(c.from)], k)
    /\ c.answer # Nothing => ReplyIn(messages[c.from], k)
NothingLost == \A k \in DOMAIN sent : Found(sent[k], k, garbled, wire)

Inv == HandlersOK /\ Types /\ WireOK /\ OrderOK /\ CallsOK /\ PendingOK
         /\ NothingLost

---------------------------------------------------------------------------
\* The two ends.

LEMMA OtherPeer ==
  ASSUME NEW p \in Peers
  PROVE  /\ Other(p) \in Peers /\ Other(p) # p /\ Other(Other(p)) = p
         /\ \A q \in Peers : q = p \/ q = Other(p)
<1>1. IsFiniteSet(Peers \ {p}) /\ Cardinality(Peers \ {p}) = 1
  BY SessionAssumption, FS_RemoveElement
<1>2. PICK q : Peers \ {p} = {q}
  BY <1>1, FS_Singleton
<1>3. q \in Peers /\ q # p /\ \A r \in Peers : r = p \/ r = q
  BY <1>2
<1>4. Other(p) \in Peers /\ Other(p) # p
  BY <1>3 DEF Other
<1>5. Other(p) = q
  BY <1>3, <1>4
<1>6. Other(q) \in Peers /\ Other(q) # q
  BY <1>3 DEF Other
<1> QED
  BY <1>3, <1>4, <1>5, <1>6

---------------------------------------------------------------------------
\* Sequences.

LEMMA Appended ==
  ASSUME NEW S, NEW s \in Seq(S), NEW x \in S
  PROVE  /\ Append(s, x) \in Seq(S)
         /\ DOMAIN s = 1 .. Len(s) /\ Len(s) \in Nat
         /\ Len(Append(s, x)) = Len(s) + 1
         /\ DOMAIN Append(s, x) = 1 .. Len(s) + 1
         /\ \A i \in DOMAIN s : Append(s, x)[i] = s[i]
         /\ Append(s, x)[Len(s) + 1] = x
OBVIOUS

LEMMA Removed ==
  ASSUME NEW S, NEW s \in Seq(S), s # <<>>
  PROVE  /\ Tail(s) \in Seq(S)
         /\ DOMAIN s = 1 .. Len(s) /\ Len(s) \in Nat \ {0}
         /\ DOMAIN Tail(s) = 1 .. Len(s) - 1
         /\ \A i \in DOMAIN Tail(s) : Tail(s)[i] = s[i + 1]
         /\ Head(s) = s[1] /\ Head(s) \in S /\ 1 \in DOMAIN s
OBVIOUS

\* The record of one call is changed.
LEMMA SetBy ==
  ASSUME NEW s \in Seq(CallRecord), NEW k \in DOMAIN s, NEW b \in Places
  PROVE  LET t == [s EXCEPT ![k].by = b] IN
         /\ t \in Seq(CallRecord) /\ Len(t) = Len(s)
         /\ DOMAIN t = DOMAIN s /\ DOMAIN s = 1 .. Len(s)
         /\ \A j \in DOMAIN s \ {k} : t[j] = s[j]
         /\ t[k] \in CallRecord /\ t[k].by = b
         /\ t[k].from = s[k].from /\ t[k].kind = s[k].kind
         /\ t[k].id = s[k].id /\ t[k].method = s[k].method
         /\ t[k].answer = s[k].answer /\ t[k].outcome = s[k].outcome
<1> DEFINE t == [s EXCEPT ![k].by = b]
<1>1. s[k] \in CallRecord
  OBVIOUS
<1>2. [s[k] EXCEPT !.by = b] \in CallRecord
  BY <1>1 DEF CallRecord
<1>3. t = [s EXCEPT ![k] = [s[k] EXCEPT !.by = b]]
  OBVIOUS
<1>4. t[k] = [s[k] EXCEPT !.by = b]
  BY <1>3
<1>5. /\ t \in Seq(CallRecord) /\ Len(t) = Len(s)
      /\ DOMAIN t = DOMAIN s /\ DOMAIN s = 1 .. Len(s)
      /\ \A j \in DOMAIN s \ {k} : t[j] = s[j]
  BY <1>2, <1>3
<1> QED
  BY <1>1, <1>2, <1>4, <1>5 DEF CallRecord

LEMMA SetAnswer ==
  ASSUME NEW s \in Seq(CallRecord), NEW k \in DOMAIN s,
         NEW a \in AnswerOrNothing
  PROVE  LET t == [s EXCEPT ![k].answer = a] IN
         /\ t \in Seq(CallRecord) /\ Len(t) = Len(s)
         /\ DOMAIN t = DOMAIN s /\ DOMAIN s = 1 .. Len(s)
         /\ \A j \in DOMAIN s \ {k} : t[j] = s[j]
         /\ t[k] \in CallRecord /\ t[k].answer = a
         /\ t[k].from = s[k].from /\ t[k].kind = s[k].kind
         /\ t[k].id = s[k].id /\ t[k].method = s[k].method
         /\ t[k].by = s[k].by /\ t[k].outcome = s[k].outcome
<1> DEFINE t == [s EXCEPT ![k].answer = a]
<1>1. s[k] \in CallRecord
  OBVIOUS
<1>2. [s[k] EXCEPT !.answer = a] \in CallRecord
  BY <1>1 DEF CallRecord
<1>3. t = [s EXCEPT ![k] = [s[k] EXCEPT !.answer = a]]
  OBVIOUS
<1>4. t[k] = [s[k] EXCEPT !.answer = a]
  BY <1>3
<1>5. /\ t \in Seq(CallRecord) /\ Len(t) = Len(s)
      /\ DOMAIN t = DOMAIN s /\ DOMAIN s = 1 .. Len(s)
      /\ \A j \in DOMAIN s \ {k} : t[j] = s[j]
  BY <1>2, <1>3
<1> QED
  BY <1>1, <1>2, <1>4, <1>5 DEF CallRecord

LEMMA SetOutcome ==
  ASSUME NEW s \in Seq(CallRecord), NEW k \in DOMAIN s,
         NEW o \in Outcomes
  PROVE  LET t == [s EXCEPT ![k].outcome = o] IN
         /\ t \in Seq(CallRecord) /\ Len(t) = Len(s)
         /\ DOMAIN t = DOMAIN s /\ DOMAIN s = 1 .. Len(s)
         /\ \A j \in DOMAIN s \ {k} : t[j] = s[j]
         /\ t[k] \in CallRecord /\ t[k].outcome = o
         /\ t[k].from = s[k].from /\ t[k].kind = s[k].kind
         /\ t[k].id = s[k].id /\ t[k].method = s[k].method
         /\ t[k].by = s[k].by /\ t[k].answer = s[k].answer
<1> DEFINE t == [s EXCEPT ![k].outcome = o]
<1>1. s[k] \in CallRecord
  OBVIOUS
<1>2. [s[k] EXCEPT !.outcome = o] \in CallRecord
  BY <1>1 DEF CallRecord
<1>3. t = [s EXCEPT ![k] = [s[k] EXCEPT !.outcome = o]]
  OBVIOUS
<1>4. t[k] = [s[k] EXCEPT !.outcome = o]
  BY <1>3
<1>5. /\ t \in Seq(CallRecord) /\ Len(t) = Len(s)
      /\ DOMAIN t = DOMAIN s /\ DOMAIN s = 1 .. Len(s)
      /\ \A j \in DOMAIN s \ {k} : t[j] = s[j]
  BY <1>2, <1>3
<1> QED
  BY <1>1, <1>2, <1>4, <1>5 DEF CallRecord

---------------------------------------------------------------------------
\* Messages on their way.

LEMMA Messages ==
  /\ \A m \in Methods, id \in Ids, k \in Nat :
       /\ Request(m, id, k) \in Message
       /\ Request(m, id, k).kind = "request"
       /\ Request(m, id, k).number = k /\ Request(m, id, k).id = id
       /\ Request(m, id, k).method = m
  /\ \A m \in Methods, k \in Nat :
       /\ Notification(m, k) \in Message
       /\ Notification(m, k).kind = "notification"
       /\ Notification(m, k).number = k /\ Notification(m, k).method = m
  /\ \A id \in Ids, data \in Data \cup ErrorCodes, k \in Nat :
       /\ Response(id, data, k) \in Message
       /\ Response(id, data, k).kind = "response"
       /\ Response(id, data, k).number = k /\ Response(id, data, k).id = id
       /\ Response(id, data, k).data = data
  /\ Garbage \in Message /\ Garbage.kind = "garbage"
  /\ ParseErrorAnswer \in Message
  /\ ParseErrorAnswer.kind = "parseErrorAnswer"
BY DEF Message, Request, Notification, Response, Garbage, ParseErrorAnswer

\* What a message of each kind has.
LEMMA MessageFields ==
  ASSUME NEW x \in Message
  PROVE  /\ x.kind \in {"request", "notification", "response", "garbage",
                        "parseErrorAnswer"}
         /\ IsCall(x) => x.number \in Nat /\ x.method \in Methods
         /\ x.kind = "request" => x.id \in Ids
         /\ IsReply(x) => /\ x.number \in Nat /\ x.id \in Ids
                          /\ x.data \in Data \cup ErrorCodes
BY DEF Message, IsCall, IsReply

\* A message is put last.
LEMMA Posted ==
  ASSUME Types, NEW q \in Peers, NEW x \in Message,
         wire' = [wire EXCEPT ![q] = Append(@, x)]
  PROVE  /\ wire' \in [Peers -> Seq(Message)]
         /\ Len(wire[q]) \in Nat /\ DOMAIN wire[q] = 1 .. Len(wire[q])
         /\ DOMAIN wire'[q] = 1 .. Len(wire[q]) + 1
         /\ \A i \in DOMAIN wire[q] : wire'[q][i] = wire[q][i]
         /\ wire'[q][Len(wire[q]) + 1] = x
         /\ \A r \in Peers \ {q} : wire'[r] = wire[r]
<1>1. wire[q] \in Seq(Message) /\ wire'[q] = Append(wire[q], x)
  BY DEF Types
<1>2. Append(wire[q], x) \in Seq(Message)
  BY <1>1, Appended
<1>3. wire' \in [Peers -> Seq(Message)]
  BY <1>2 DEF Types
<1> QED
  BY <1>1, <1>3, Appended DEF Types

\* The first message is taken, and nothing or one message is sent.
LEMMA Exchanged ==
  ASSUME Types, NEW p \in Peers, wire[p] # <<>>, NEW messages,
         messages = <<>> \/ \E x \in Message : messages = <<x>>,
         Exchange(p, messages)
  PROVE  /\ wire' \in [Peers -> Seq(Message)]
         /\ Len(wire[p]) \in Nat \ {0} /\ DOMAIN wire[p] = 1 .. Len(wire[p])
         /\ DOMAIN wire'[p] = 1 .. Len(wire[p]) - 1
         /\ \A i \in DOMAIN wire'[p] : wire'[p][i] = wire[p][i + 1]
         /\ messages = <<>> => wire'[Other(p)] = wire[Other(p)]
         /\ \A x \in Message : messages = <<x>> =>
              LET q == Other(p) IN
              /\ Len(wire[q]) \in Nat /\ DOMAIN wire[q] = 1 .. Len(wire[q])
              /\ DOMAIN wire'[q] = 1 .. Len(wire[q]) + 1
              /\ \A i \in DOMAIN wire[q] : wire'[q][i] = wire[q][i]
              /\ wire'[q][Len(wire[q]) + 1] = x
         /\ Head(wire[p]) = wire[p][1] /\ wire[p][1] \in Message
         /\ 1 \in DOMAIN wire[p]
<1> DEFINE q == Other(p)
<1>1. q \in Peers /\ q # p
  BY OtherPeer
<1>2. wire \in [Peers -> Seq(Message)]
  BY DEF Types
<1>3. wire'[p] = Tail(wire[p]) /\ wire'[q] = wire[q] \o messages
  BY <1>1, <1>2 DEF Exchange
<1>4. messages = <<>> => wire'[q] = wire[q]
  BY <1>1, <1>2, <1>3
<1>5. ASSUME NEW x \in Message, messages = <<x>>
      PROVE  wire'[q] = Append(wire[q], x)
  BY <1>1, <1>2, <1>3, <1>5
<1>6. wire'[q] \in Seq(Message)
  <2>1. wire[q] \in Seq(Message)
    BY <1>1, <1>2
  <2>2. CASE messages = <<>>
    BY <2>1, <2>2, <1>4
  <2>3. ASSUME NEW x \in Message, messages = <<x>>
        PROVE  wire'[q] \in Seq(Message)
    <3>1. Append(wire[q], x) \in Seq(Message)
      BY <2>1, Appended
    <3>2. wire'[q] = Append(wire[q], x)
      BY <1>5, <2>3
    <3> QED
      BY <3>1, <3>2
  <2> QED
    BY <2>2, <2>3
<1>7. /\ wire'[p] \in Seq(Message)
      /\ Len(wire[p]) \in Nat \ {0} /\ DOMAIN wire[p] = 1 .. Len(wire[p])
      /\ DOMAIN wire'[p] = 1 .. Len(wire[p]) - 1
      /\ \A i \in DOMAIN wire'[p] : wire'[p][i] = wire[p][i + 1]
      /\ Head(wire[p]) = wire[p][1] /\ wire[p][1] \in Message
      /\ 1 \in DOMAIN wire[p]
  BY <1>2, <1>3, Removed
<1>8. wire' \in [Peers -> Seq(Message)]
  <2>1. DOMAIN wire' = Peers /\ wire' = [r \in Peers |-> wire'[r]]
    BY <1>2 DEF Exchange
  <2>2. \A r \in Peers : wire'[r] \in Seq(Message)
    BY <1>6, <1>7, OtherPeer
  <2> QED
    BY <2>1, <2>2
<1>9. \A x \in Message : messages = <<x>> =>
        /\ Len(wire[q]) \in Nat /\ DOMAIN wire[q] = 1 .. Len(wire[q])
        /\ DOMAIN wire'[q] = 1 .. Len(wire[q]) + 1
        /\ \A i \in DOMAIN wire[q] : wire'[q][i] = wire[q][i]
        /\ wire'[q][Len(wire[q]) + 1] = x
  BY <1>1, <1>2, <1>5, Appended
<1> QED
  BY <1>4, <1>7, <1>8, <1>9

---------------------------------------------------------------------------
\* What a step leaves on its way.

Idle(x) == ~IsCall(x) /\ ~IsReply(x)

\* The messages t after a step, when s were there: such as were there after
\* the first d, one that is new and last, and such as are of no consequence.
Moved(s, t, d, new) ==
  /\ DOMAIN s = 1 .. Len(s) /\ Len(s) \in Nat /\ DOMAIN t \subseteq Nat
  /\ \A i \in DOMAIN t :
       \/ Idle(t[i])
       \/ i + d \in DOMAIN s /\ i + d > d /\ t[i] = s[i + d]
       \/ i = Len(s) - d + 1 /\ t[i] = new

\* What comes after the first n messages of s stays there.
Stays(s, t, n) ==
  \A j \in DOMAIN s : j > n => \E i \in DOMAIN t : t[i] = s[j]

LEMMA MovedSound ==
  ASSUME NEW calls, NEW spoiled, NEW r, NEW s, NEW t, NEW d, NEW new,
         Moved(s, t, d, new), Sound(calls, spoiled, r, new),
         \A j \in DOMAIN s : j > d /\ ~Idle(s[j]) =>
           Sound(calls, spoiled, r, s[j])
  PROVE  \A i \in DOMAIN t : Sound(calls, spoiled, r, t[i])
BY DEF Moved, Idle, Sound

LEMMA MovedOrder ==
  ASSUME NEW s, NEW t, NEW d \in Nat, NEW new, Moved(s, t, d, new),
         \A i, j \in DOMAIN s : i < j => Before(s[i], s[j]),
         \A j \in DOMAIN s : j > d => Before(s[j], new)
  PROVE  \A i, j \in DOMAIN t : i < j => Before(t[i], t[j])
<1> TAKE i, j \in DOMAIN t
<1> HAVE i < j
<1>1. CASE Idle(t[i]) \/ Idle(t[j])
  BY <1>1 DEF Idle, Before
<1>2. CASE ~Idle(t[i]) /\ ~Idle(t[j])
  BY <1>2 DEF Moved
<1> QED
  BY <1>1, <1>2

LEMMA StaysIn ==
  ASSUME NEW s, NEW t, NEW n, Stays(s, t, n), NEW k,
         \A j \in DOMAIN s : ~(j > n) => Idle(s[j]) \/ s[j].number # k
  PROVE  /\ CallIn(s, k) => CallIn(t, k)
         /\ ReplyIn(s, k) => ReplyIn(t, k)
BY DEF Stays, CallIn, ReplyIn, Idle

\* The record of call k changes: what is on its way and is no message of that
\* call stays sound.
LEMMA SoundKept ==
  ASSUME NEW calls, NEW now, NEW spoiled, NEW r, NEW x, NEW k,
         DOMAIN now = DOMAIN calls,
         \A j \in DOMAIN calls \ {k} : now[j] = calls[j],
         now[k].from = calls[k].from,
         Sound(calls, spoiled, r, x),
         ~Idle(x) => x.number # k,
         IsCall(x) /\ now[k].from = Other(r) /\ x.number < k
           => now[k].by = Nothing
  PROVE  Sound(now, spoiled, r, x)
<1>1. ASSUME IsCall(x)
      PROVE  Asks(now, spoiled, r, x)
  <2>1. Asks(calls, spoiled, r, x) /\ x.number # k
    BY <1>1 DEF Sound, Idle
  <2>2. x.number \in DOMAIN now /\ now[x.number] = calls[x.number]
    BY <2>1 DEF Asks
  <2>3. \A j \in DOMAIN now : now[j].from = Other(r) /\ x.number < j
          => now[j].by = Nothing
    <3> TAKE j \in DOMAIN now
    <3>1. CASE j = k
      BY <1>1, <3>1
    <3>2. CASE j # k
      BY <2>1, <3>2 DEF Asks
    <3> QED
      BY <3>1, <3>2
  <2> QED
    BY <2>1, <2>2, <2>3 DEF Asks
<1>2. ASSUME IsReply(x)
      PROVE  Replies(now, spoiled, r, x)
  <2>1. Replies(calls, spoiled, r, x) /\ x.number # k
    BY <1>2 DEF Sound, Idle
  <2>2. x.number \in DOMAIN now /\ now[x.number] = calls[x.number]
    BY <2>1 DEF Replies
  <2> QED
    BY <2>1, <2>2 DEF Replies
<1> QED
  BY <1>1, <1>2 DEF Sound

\* The first message to p is taken, and x or nothing is sent.
LEMMA ExchangeMoves ==
  ASSUME Types, NEW p \in Peers, wire[p] # <<>>, NEW x \in Message,
         NEW messages \in {<<>>, <<x>>}, Exchange(p, messages)
  PROVE  LET q == Other(p) IN
         /\ Moved(wire[p], wire'[p], 1, Garbage) /\ Stays(wire[p], wire'[p], 1)
         /\ Moved(wire[q], wire'[q], 0, x) /\ Stays(wire[q], wire'[q], 0)
         /\ messages = <<x>> =>
              \E i \in DOMAIN wire'[q] : wire'[q][i] = x
         /\ wire' \in [Peers -> Seq(Message)]
<1> DEFINE q == Other(p)
<1>1. q \in Peers /\ q # p
  BY OtherPeer
<1>2. /\ wire' \in [Peers -> Seq(Message)]
      /\ Len(wire[p]) \in Nat \ {0} /\ DOMAIN wire[p] = 1 .. Len(wire[p])
      /\ DOMAIN wire'[p] = 1 .. Len(wire[p]) - 1
      /\ \A i \in DOMAIN wire'[p] : wire'[p][i] = wire[p][i + 1]
      /\ messages = <<>> => wire'[q] = wire[q]
  BY Exchanged
<1>3. messages = <<x>> =>
        /\ Len(wire[q]) \in Nat /\ DOMAIN wire[q] = 1 .. Len(wire[q])
        /\ DOMAIN wire'[q] = 1 .. Len(wire[q]) + 1
        /\ \A i \in DOMAIN wire[q] : wire'[q][i] = wire[q][i]
        /\ wire'[q][Len(wire[q]) + 1] = x
  BY Exchanged
<1>4. DOMAIN wire[q] = 1 .. Len(wire[q]) /\ Len(wire[q]) \in Nat
  BY <1>1 DEF Types
<1> HIDE DEF q
<1>5. Moved(wire[p], wire'[p], 1, Garbage)
  BY <1>2 DEF Moved
<1>6. Stays(wire[p], wire'[p], 1)
  <2> SUFFICES ASSUME NEW j \in DOMAIN wire[p], j > 1
               PROVE  \E i \in DOMAIN wire'[p] : wire'[p][i] = wire[p][j]
    BY DEF Stays
  <2>1. j - 1 \in DOMAIN wire'[p] /\ wire'[p][j - 1] = wire[p][(j - 1) + 1]
    BY <1>2
  <2> QED
    BY <1>2, <2>1
<1>7. Moved(wire[q], wire'[q], 0, x) /\ Stays(wire[q], wire'[q], 0)
  <2>1. CASE messages = <<>>
    <3>1. wire'[q] = wire[q]
      BY <1>2, <2>1
    <3>2. Moved(wire[q], wire'[q], 0, x)
      BY <1>4, <3>1 DEF Moved
    <3>3. Stays(wire[q], wire'[q], 0)
      BY <3>1 DEF Stays
    <3> QED
      BY <3>2, <3>3
  <2>2. CASE messages = <<x>>
    <3>1. /\ DOMAIN wire'[q] = 1 .. Len(wire[q]) + 1
          /\ \A i \in DOMAIN wire[q] : wire'[q][i] = wire[q][i]
          /\ wire'[q][Len(wire[q]) + 1] = x
      BY <1>3, <2>2
    <3>2. Moved(wire[q], wire'[q], 0, x)
      BY <1>4, <3>1 DEF Moved
    <3>3. Stays(wire[q], wire'[q], 0)
      BY <1>4, <3>1 DEF Stays
    <3> QED
      BY <3>2, <3>3
  <2> QED
    BY <2>1, <2>2
<1>8. messages = <<x>> => \E i \in DOMAIN wire'[q] : wire'[q][i] = x
  BY <1>3
<1> QED
  BY <1>2, <1>5, <1>6, <1>7, <1>8 DEF q

LEMMA ExchangeWire ==
  ASSUME Types, WireOK, OrderOK, NEW p \in Peers, wire[p] # <<>>,
         NEW x \in Message,
         NEW messages \in {<<>>, <<x>>}, Exchange(p, messages),
         Sound(sent', garbled', Other(p), x),
         \A j \in DOMAIN wire[p] : j > 1 /\ ~Idle(wire[p][j]) =>
           Sound(sent', garbled', p, wire[p][j]),
         \A j \in DOMAIN wire[Other(p)] : ~Idle(wire[Other(p)][j]) =>
           Sound(sent', garbled', Other(p), wire[Other(p)][j]),
         \A j \in DOMAIN wire[Other(p)] : Before(wire[Other(p)][j], x)
  PROVE  WireOK' /\ OrderOK'
<1> DEFINE q == Other(p)
<1>1. q \in Peers /\ \A r \in Peers : r = p \/ r = q
  BY OtherPeer
<1>2. /\ Moved(wire[p], wire'[p], 1, Garbage)
      /\ Moved(wire[q], wire'[q], 0, x)
  BY ExchangeMoves
<1>3. Sound(sent', garbled', p, Garbage) /\ \A y : Before(y, Garbage)
  BY Messages DEF Sound, IsCall, IsReply, Before
<1> HIDE DEF q
<1>4. \A i \in DOMAIN wire'[p] : Sound(sent', garbled', p, wire'[p][i])
  BY <1>2, <1>3, MovedSound
<1>5. \A i \in DOMAIN wire'[q] : Sound(sent', garbled', q, wire'[q][i])
  BY <1>2, MovedSound DEF q
<1>6. \A i, j \in DOMAIN wire'[p] : i < j => Before(wire'[p][i], wire'[p][j])
  BY <1>2, <1>3, MovedOrder DEF OrderOK
<1>7. \A i, j \in DOMAIN wire'[q] : i < j => Before(wire'[q][i], wire'[q][j])
  <2>1. \A i, j \in DOMAIN wire[q] : i < j => Before(wire[q][i], wire[q][j])
    BY <1>1 DEF OrderOK
  <2>2. \A j \in DOMAIN wire[q] : j > 0 => Before(wire[q][j], x)
    BY DEF q
  <2> QED
    BY <1>2, <2>1, <2>2, MovedOrder
<1>8. WireOK'
  BY <1>1, <1>4, <1>5 DEF WireOK
<1>9. OrderOK'
  BY <1>1, <1>6, <1>7 DEF OrderOK
<1> QED
  BY <1>8, <1>9

\* Only the first message to p is no longer on its way.
LEMMA ExchangeKeeps ==
  ASSUME Types, NEW p \in Peers, wire[p] # <<>>, NEW x \in Message,
         NEW messages \in {<<>>, <<x>>}, Exchange(p, messages)
  PROVE  \A k : Idle(wire[p][1]) \/ wire[p][1].number # k =>
           \A r \in Peers :
             /\ CallIn(wire[r], k) => CallIn(wire'[r], k)
             /\ ReplyIn(wire[r], k) => ReplyIn(wire'[r], k)
<1> TAKE k
<1> HAVE Idle(wire[p][1]) \/ wire[p][1].number # k
<1>1. Stays(wire[p], wire'[p], 1) /\ Stays(wire[Other(p)], wire'[Other(p)], 0)
  BY ExchangeMoves
<1>2. /\ DOMAIN wire[p] = 1 .. Len(wire[p])
      /\ DOMAIN wire[Other(p)] = 1 .. Len(wire[Other(p)])
  BY OtherPeer DEF Types
<1>3. \A j \in DOMAIN wire[p] :
        ~(j > 1) => Idle(wire[p][j]) \/ wire[p][j].number # k
  BY <1>2
<1>4. /\ CallIn(wire[p], k) => CallIn(wire'[p], k)
      /\ ReplyIn(wire[p], k) => ReplyIn(wire'[p], k)
  BY <1>1, <1>3, StaysIn
<1>5. \A j \in DOMAIN wire[Other(p)] : j > 0
  BY <1>2
<1>6. /\ CallIn(wire[Other(p)], k) => CallIn(wire'[Other(p)], k)
      /\ ReplyIn(wire[Other(p)], k) => ReplyIn(wire'[Other(p)], k)
  BY <1>1, <1>5, StaysIn
<1> QED
  BY <1>4, <1>6, OtherPeer

---------------------------------------------------------------------------
\* Receiving.

\* A call stays where it is.
LEMMA FoundStays ==
  ASSUME NEW c, c.from \in Peers, NEW k, NEW spoiled, NEW messages, NEW now,
         Found(c, k, spoiled, messages),
         \A r \in Peers :
           /\ CallIn(messages[r], k) => CallIn(now[r], k)
           /\ ReplyIn(messages[r], k) => ReplyIn(now[r], k)
  PROVE  Found(c, k, spoiled, now)
BY OtherPeer DEF Found

LEMMA CallTypes ==
  ASSUME Types
  PROVE  /\ DOMAIN sent = 1 .. Len(sent) /\ Len(sent) \in Nat
         /\ \A k \in DOMAIN sent :
              /\ sent[k] \in CallRecord
              /\ sent[k].from \in Peers /\ sent[k].method \in Methods
              /\ sent[k].kind \in {"request", "notification"}
              /\ sent[k].id \in Ids \cup {NoId} /\ sent[k].by \in Places
              /\ sent[k].answer \in AnswerOrNothing
              /\ sent[k].outcome \in Outcomes
<1>1. sent \in Seq(CallRecord)
  BY DEF Types
<1>2. \A k \in DOMAIN sent : sent[k] \in CallRecord
  BY <1>1
<1>3. \A c \in CallRecord :
        /\ c.from \in Peers /\ c.method \in Methods
        /\ c.kind \in {"request", "notification"}
        /\ c.id \in Ids \cup {NoId} /\ c.by \in Places
        /\ c.answer \in AnswerOrNothing
        /\ c.outcome \in Outcomes
  BY DEF CallRecord
<1> QED
  BY <1>1, <1>2, <1>3

LEMMA HandlersSame ==
  ASSUME HandlersOK, UNCHANGED <<handlers, undispatched, connected>>
  PROVE  HandlersOK'
BY DEF HandlersOK

LEMMA GarbageStep ==
  ASSUME Inv, NEW p \in Peers, TakeGarbage(p) \/ TakeParseErrorAnswer(p)
  PROVE  Inv'
<1> DEFINE q == Other(p)
<1>0. HandlersOK /\ Types /\ WireOK /\ OrderOK /\ CallsOK /\ PendingOK
        /\ NothingLost
  BY DEF Inv
<1>1. q \in Peers /\ q # p /\ \A r \in Peers : r = p \/ r = q
  BY OtherPeer
<1>2. PICK messages \in {<<>>, <<ParseErrorAnswer>>} : Exchange(p, messages)
  BY DEF TakeGarbage, TakeParseErrorAnswer
<1>3. /\ wire[p] # <<>>
      /\ Head(wire[p]).kind \in {"garbage", "parseErrorAnswer"}
      /\ UNCHANGED <<handlers, undispatched, connected, lastId, pending,
                     sent, garbled>>
  BY DEF TakeGarbage, TakeParseErrorAnswer, Incoming, configVars
<1>4. Idle(wire[p][1]) /\ wire' \in [Peers -> Seq(Message)]
  BY <1>0, <1>2, <1>3, Exchanged, Messages DEF Idle, IsCall, IsReply
<1>5. /\ Sound(sent', garbled', q, ParseErrorAnswer)
      /\ \A y : Before(y, ParseErrorAnswer)
      /\ ParseErrorAnswer \in Message
  BY Messages DEF Sound, IsCall, IsReply, Before
<1>6. WireOK' /\ OrderOK'
  <2>1. \A r \in Peers : \A j \in DOMAIN wire[r] :
          Sound(sent', garbled', r, wire[r][j])
    BY <1>0, <1>3 DEF WireOK
  <2> QED
    BY <1>0, <1>1, <1>2, <1>3, <1>5, <2>1, ExchangeWire
<1>7. Types'
  BY <1>0, <1>3, <1>4 DEF Types
<1>8. HandlersOK' /\ CallsOK' /\ PendingOK'
  BY <1>0, <1>3, HandlersSame DEF CallsOK, PendingOK
<1>9. NothingLost'
  <2>1. \A k : \A r \in Peers :
          /\ CallIn(wire[r], k) => CallIn(wire'[r], k)
          /\ ReplyIn(wire[r], k) => ReplyIn(wire'[r], k)
    BY <1>0, <1>2, <1>3, <1>4, <1>5, ExchangeKeeps
  <2>2. \A k \in DOMAIN sent : sent[k].from \in Peers
    BY <1>0, CallTypes
  <2> QED
    BY <1>0, <1>3, <2>1, <2>2, FoundStays DEF NothingLost
<1> QED
  BY <1>6, <1>7, <1>8, <1>9 DEF Inv

\* An entry of the map is the number of a call.
LEMMA SentAtPending ==
  ASSUME Types, NEW p \in Peers, NEW id \in Ids
  PROVE  pending[p][id] \in Nat
           /\ (pending[p][id] # 0 => pending[p][id] \in DOMAIN sent)
BY CallTypes DEF Types

\* What else is on its way is not about the call that the first message to p
\* is about.
LEMMA OthersNumber ==
  ASSUME Types, WireOK, OrderOK, NEW p \in Peers, wire[p] # <<>>,
         ~Idle(wire[p][1])
  PROVE  /\ wire[p][1].number \in DOMAIN sent
         /\ \A j \in DOMAIN wire[p] : j > 1 /\ ~Idle(wire[p][j]) =>
              /\ wire[p][j].number # wire[p][1].number
              /\ IsCall(wire[p][1]) /\ IsCall(wire[p][j]) =>
                   ~(wire[p][j].number < wire[p][1].number)
         /\ \A j \in DOMAIN wire[Other(p)] : ~Idle(wire[Other(p)][j]) =>
              wire[Other(p)][j].number # wire[p][1].number
<1> DEFINE q == Other(p)
           x == wire[p][1]
           k == x.number
<1>1. q \in Peers /\ q # p /\ Other(q) = p
  BY OtherPeer
<1>2. /\ 1 \in DOMAIN wire[p] /\ DOMAIN wire[p] = 1 .. Len(wire[p])
      /\ Len(wire[p]) \in Nat
  BY Removed DEF Types
<1>3. Sound(sent, garbled, p, x)
  BY <1>2 DEF WireOK
<1> HIDE DEF x, k, q
<1>4. /\ k = x.number /\ ~Idle(x) /\ k \in DOMAIN sent /\ k \in Nat
      /\ IsCall(x) => sent[k].from = q /\ sent[k].by = Nothing
      /\ IsReply(x) => sent[k].from = p /\ sent[k].by # Nothing
  BY <1>3, CallTypes DEF Sound, Asks, Replies, Idle, x, k, q
<1>5. ASSUME NEW j \in DOMAIN wire[p], j > 1, ~Idle(wire[p][j])
      PROVE  /\ wire[p][j].number # k
             /\ IsCall(x) /\ IsCall(wire[p][j]) => ~(wire[p][j].number < k)
  <2> DEFINE y == wire[p][j]
  <2>1. Sound(sent, garbled, p, y)
    BY DEF WireOK
  <2>2. Before(x, y)
    BY <1>2, <1>5 DEF OrderOK, x
  <2> HIDE DEF y
  <2>3. IsCall(y) => y.number \in Nat
    BY <2>1, CallTypes DEF Sound, Asks
  <2>4. CASE IsCall(x)
    <3>1. IsCall(y) => k < y.number
      BY <1>4, <2>2, <2>4 DEF Before
    <3>2. IsReply(y) => y.number # k
      BY <1>4, <2>1, <2>4 DEF Sound, Replies
    <3> QED
      BY <1>4, <1>5, <2>3, <3>1, <3>2 DEF Idle, y
  <2>5. CASE IsReply(x)
    BY <1>4, <1>5, <2>1, <2>2, <2>5
       DEF Sound, Asks, Before, Idle, IsCall, IsReply, y
  <2> QED
    BY <1>4, <2>4, <2>5 DEF Idle
<1>6. ASSUME NEW j \in DOMAIN wire[q], ~Idle(wire[q][j])
      PROVE  wire[q][j].number # k
  <2>1. Sound(sent, garbled, q, wire[q][j])
    BY <1>1 DEF WireOK
  <2> QED
    BY <1>1, <1>4, <1>6, <2>1 DEF Sound, Asks, Replies, Idle
<1> QED
  BY <1>4, <1>5, <1>6 DEF x, k, q

\* When the first message to p is about call k, what else is on its way stays
\* sound if only the record of call k changes.
LEMMA OthersSound ==
  ASSUME Types, WireOK, OrderOK, NEW p \in Peers, wire[p] # <<>>,
         ~Idle(wire[p][1]), NEW k, k = wire[p][1].number,
         NEW now, DOMAIN now = DOMAIN sent, now[k].from = sent[k].from,
         \A j \in DOMAIN sent \ {k} : now[j] = sent[j],
         IsReply(wire[p][1]) => now[k].by = sent[k].by
  PROVE  /\ \A j \in DOMAIN wire[p] : j > 1 /\ ~Idle(wire[p][j]) =>
              Sound(now, garbled, p, wire[p][j])
         /\ \A j \in DOMAIN wire[Other(p)] : ~Idle(wire[Other(p)][j]) =>
              Sound(now, garbled, Other(p), wire[Other(p)][j])
<1> DEFINE q == Other(p)
           x == wire[p][1]
<1>1. q \in Peers /\ q # p /\ Other(q) = p /\ p # Other(p)
  BY OtherPeer
<1>2. Sound(sent, garbled, p, x)
  BY Removed DEF WireOK, Types
<1> HIDE DEF x, q
<1>3. /\ k = x.number /\ ~Idle(x) /\ k \in DOMAIN sent
      /\ IsCall(x) => sent[k].from = q
      /\ IsReply(x) => sent[k].from = p /\ sent[k].by # Nothing
                         /\ now[k].by # Nothing
  BY <1>2 DEF Sound, Asks, Replies, Idle, x, q
<1>4. ASSUME NEW j \in DOMAIN wire[p], j > 1, ~Idle(wire[p][j])
      PROVE  Sound(now, garbled, p, wire[p][j])
  <2>1. Sound(sent, garbled, p, wire[p][j])
    BY DEF WireOK
  <2>2. /\ wire[p][j].number # k
        /\ IsCall(x) /\ IsCall(wire[p][j]) => ~(wire[p][j].number < k)
    BY <1>4, OthersNumber DEF x
  <2>3. IsReply(x) => now[k].from # Other(p)
    BY <1>1, <1>3
  <2> QED
    BY <1>3, <2>1, <2>2, <2>3, SoundKept DEF Idle
<1>5. ASSUME NEW j \in DOMAIN wire[q], ~Idle(wire[q][j])
      PROVE  Sound(now, garbled, q, wire[q][j])
  <2> DEFINE y == wire[q][j]
  <2>1. Sound(sent, garbled, q, y)
    BY <1>1 DEF WireOK
  <2> HIDE DEF y
  <2>2. y.number # k
    BY <1>5, OthersNumber DEF x, q, y
  <2>3. IsCall(x) => now[k].from # Other(q)
    BY <1>1, <1>3
  <2>4. IsReply(x) /\ IsCall(y) /\ y.number < k => FALSE
    BY <1>1, <1>3, <2>1 DEF Sound, Asks
  <2> QED
    BY <1>3, <2>1, <2>2, <2>3, <2>4, SoundKept DEF y, Idle
<1> QED
  BY <1>4, <1>5 DEF q

LEMMA TakeNotificationStep ==
  ASSUME Inv, NEW p \in Peers, TakeNotification(p)
  PROVE  Inv'
<1> DEFINE q == Other(p)
           x == wire[p][1]
           k == x.number
           by == Hears(p, x.method)
<1>0. HandlersOK /\ Types /\ WireOK /\ OrderOK /\ CallsOK /\ PendingOK
        /\ NothingLost
  BY DEF Inv
<1>1. q \in Peers /\ q # p /\ Other(q) = p /\ \A r \in Peers : r = p \/ r = q
  BY OtherPeer
<1>2. ParseErrorAnswer \in Message /\ Idle(ParseErrorAnswer)
  BY Messages DEF Idle, IsCall, IsReply
<1>3. /\ wire[p] # <<>> /\ Head(wire[p]).kind = "notification"
      /\ Exchange(p, <<>>)
      /\ sent' = [sent EXCEPT ![Head(wire[p]).number].by =
                                Hears(p, Head(wire[p]).method)]
      /\ UNCHANGED <<handlers, undispatched, connected, lastId, pending,
                     garbled>>
  BY DEF TakeNotification, Incoming, configVars
<1>4. /\ x = Head(wire[p]) /\ x \in Message /\ 1 \in DOMAIN wire[p]
      /\ DOMAIN wire[p] = 1 .. Len(wire[p])
      /\ wire' \in [Peers -> Seq(Message)]
  BY <1>0, <1>2, <1>3, Exchanged
<1> HIDE DEF x
<1>5. IsCall(x) /\ x.kind = "notification"
  BY <1>3, <1>4 DEF IsCall
<1>6. Asks(sent, garbled, p, x)
  BY <1>0, <1>4, <1>5 DEF WireOK, Sound, x
<1>7. by \in {"handler", "other", "nobody"} /\ by \in Places
  BY DEF Hears, Places
<1> HIDE DEF by, k, q
<1>8. /\ k \in DOMAIN sent /\ sent[k].kind = "notification"
      /\ sent[k].from = q /\ k = x.number
  BY <1>5, <1>6 DEF Asks, k, q
<1>9. sent' = [sent EXCEPT ![k].by = by]
  BY <1>3, <1>4 DEF k, by
<1>10. /\ sent' \in Seq(CallRecord) /\ Len(sent') = Len(sent)
       /\ DOMAIN sent' = DOMAIN sent
       /\ \A j \in DOMAIN sent \ {k} : sent'[j] = sent[j]
       /\ sent'[k].by = by /\ sent'[k].from = sent[k].from
       /\ sent'[k].kind = sent[k].kind /\ sent'[k].id = sent[k].id
       /\ sent'[k].method = sent[k].method
       /\ sent'[k].answer = sent[k].answer
       /\ sent'[k].outcome = sent[k].outcome
  BY <1>0, <1>7, <1>8, <1>9, SetBy, SMTT(30) DEF Types
<1>11. WireOK' /\ OrderOK'
  <2>1. ~Idle(wire[p][1]) /\ k = wire[p][1].number
    BY <1>5, <1>8 DEF Idle, x
  <2>2. /\ \A j \in DOMAIN wire[p] : j > 1 /\ ~Idle(wire[p][j]) =>
             Sound(sent', garbled', p, wire[p][j])
        /\ \A j \in DOMAIN wire[q] : ~Idle(wire[q][j]) =>
             Sound(sent', garbled', q, wire[q][j])
    BY <1>0, <1>3, <1>5, <1>8, <1>10, <2>1, OthersSound
       DEF IsCall, IsReply, q, x
  <2>3. /\ Sound(sent', garbled', q, ParseErrorAnswer)
        /\ \A y : Before(y, ParseErrorAnswer)
    BY <1>2 DEF Sound, Before, Idle
  <2> QED
    BY <1>0, <1>2, <1>3, <2>2, <2>3, ExchangeWire DEF q
<1>12. Types'
  BY <1>0, <1>3, <1>4, <1>10 DEF Types
<1>13. HandlersOK'
  BY <1>0, <1>3, HandlersSame
<1>14. CallsOK'
  <2> SUFFICES ASSUME NEW j \in DOMAIN sent
               PROVE  CallOK(sent'[j], j, garbled', pending')
    BY <1>10, SMTT(30) DEF CallsOK
  <2>1. CASE j = k
    BY <1>0, <1>3, <1>7, <1>8, <1>10, <2>1, ZenonT(60)
       DEF CallsOK, CallOK, Nothing
  <2>2. CASE j # k
    BY <1>0, <1>3, <1>10, <2>2, SMTT(30) DEF CallsOK
  <2> QED
    BY <2>1, <2>2
<1>15. PendingOK'
  <2> SUFFICES ASSUME NEW r \in Peers, NEW id \in Ids, pending[r][id] # 0
               PROVE  LET j == pending[r][id] IN
                      /\ sent'[j].from = r /\ sent'[j].kind = "request"
                      /\ sent'[j].id = id
    BY <1>3 DEF PendingOK
  <2> DEFINE j == pending[r][id]
  <2>1. sent[j].from = r /\ sent[j].kind = "request" /\ sent[j].id = id
    BY <1>0 DEF PendingOK
  <2>2. j \in DOMAIN sent
    BY <1>0, SentAtPending
  <2> HIDE DEF j
  <2>3. j # k
    BY <1>8, <2>1
  <2>4. sent'[j] = sent[j]
    BY <1>10, <2>2, <2>3
  <2> QED
    BY <2>1, <2>4 DEF j
<1>16. NothingLost'
  <2>1. \A j \in DOMAIN sent \ {k} : \A r \in Peers :
          /\ CallIn(wire[r], j) => CallIn(wire'[r], j)
          /\ ReplyIn(wire[r], j) => ReplyIn(wire'[r], j)
    BY <1>0, <1>2, <1>3, <1>8, ExchangeKeeps DEF x
  <2>2. \A j \in DOMAIN sent : sent[j].from \in Peers
    BY <1>0, CallTypes
  <2>3. \A j \in DOMAIN sent \ {k} : Found(sent'[j], j, garbled', wire')
    BY <1>0, <1>3, <1>10, <2>1, <2>2, FoundStays DEF NothingLost
  <2>4. Found(sent'[k], k, garbled', wire')
    BY <1>8, <1>10 DEF Found
  <2> QED
    BY <1>10, <2>3, <2>4 DEF NothingLost
<1> QED
  BY <1>11, <1>12, <1>13, <1>14, <1>15, <1>16 DEF Inv

\* What a response is decoded to is told to the sender.
LEMMA DecodedType ==
  ASSUME NEW shape \in Shapes, NEW data \in Data \cup ErrorCodes
  PROVE  Decoded(shape, data) \subseteq {"result"} \cup ErrorCodes
<1>1. CASE data \in ErrorCodes
  BY <1>1 DEF Decoded, Fitting, Data, ErrorCodes, Shapes
<1>2. CASE data \notin ErrorCodes
  BY <1>2 DEF Decoded, Fitting, Data, ErrorCodes, Shapes
<1> QED
  BY <1>1, <1>2

\* What is noted of a response x that is taken.
ResponseTaken(p, x, told) ==
  /\ told \in Decoded(RequestShape[sent[x.number].method], x.data)
  /\ sent' = [sent EXCEPT ![x.number].outcome = told]
  /\ pending' = [pending EXCEPT ![p][x.id] = 0]

LEMMA TakeResponseFacts ==
  ASSUME Inv, NEW p \in Peers, TakeResponse(p)
  PROVE  LET x == wire[p][1]
             k == x.number
         IN  /\ wire[p] # <<>> /\ x \in Message /\ 1 \in DOMAIN wire[p]
             /\ IsReply(x) /\ x.id \in Ids /\ x.data \in Data \cup ErrorCodes
             /\ Exchange(p, <<>>)
             /\ UNCHANGED <<handlers, undispatched, connected, lastId,
                            garbled>>
             /\ k \in DOMAIN sent /\ k \in Nat \ {0}
             /\ sent[k].kind = "request" /\ sent[k].from = p
             /\ sent[k].id = x.id /\ sent[k].answer = x.data
             /\ sent[k].by # Nothing /\ sent[k].outcome = Nothing
             /\ k \notin garbled /\ sent[k].answer # Nothing
             /\ pending[p][x.id] = k
             /\ \E told \in {"result"} \cup ErrorCodes :
                  ResponseTaken(p, x, told)
<1> DEFINE x == wire[p][1]
           k == x.number
<1>0. Types /\ WireOK /\ CallsOK
  BY Zenon DEF Inv
<1>3. /\ wire[p] # <<>> /\ Head(wire[p]).kind = "response"
      /\ Exchange(p, <<>>)
      /\ UNCHANGED <<handlers, undispatched, connected, lastId, garbled>>
  BY Zenon DEF TakeResponse, Incoming, configVars
<1>4. x = Head(wire[p]) /\ x \in Message /\ 1 \in DOMAIN wire[p]
  BY <1>0, <1>3, Removed DEF Types
<1> HIDE DEF x
<1>5. IsReply(x) /\ x.id \in Ids /\ x.data \in Data \cup ErrorCodes
  BY <1>3, <1>4, MessageFields DEF IsReply
<1>6. Replies(sent, garbled, p, x)
  BY <1>0, <1>4, <1>5 DEF WireOK, Sound, x
<1> HIDE DEF k
<1>7. /\ k \in DOMAIN sent /\ k \in Nat \ {0}
      /\ sent[k].kind = "request" /\ sent[k].from = p
      /\ sent[k].id = x.id /\ sent[k].answer = x.data
      /\ sent[k].by # Nothing /\ sent[k].outcome = Nothing
      /\ k \notin garbled /\ sent[k].answer # Nothing
  BY <1>0, <1>5, <1>6, CallTypes DEF Replies, k, Data, ErrorCodes, Nothing
<1>8. pending[p][x.id] = k
  BY <1>0, <1>7 DEF CallsOK, CallOK
<1>9. PICK told \in Decoded(RequestShape[sent[k].method], x.data) :
        sent' = [sent EXCEPT ![k].outcome = told]
  BY <1>4, <1>7, <1>8 DEF TakeResponse
<1>10. pending' = [pending EXCEPT ![p][x.id] = 0]
  BY <1>4, <1>7, <1>8 DEF TakeResponse, Forget
<1>11. told \in {"result"} \cup ErrorCodes
  <2>1. RequestShape[sent[k].method] \in Shapes
    BY <1>0, <1>7, CallTypes, SessionAssumption
  <2> QED
    BY <1>5, <1>9, <2>1, DecodedType
<1>12. ResponseTaken(p, x, told)
  BY <1>9, <1>10 DEF ResponseTaken, k
<1> QED
  BY <1>3, <1>4, <1>5, <1>7, <1>8, <1>11, <1>12 DEF x, k

LEMMA TakeResponseStep ==
  ASSUME Inv, NEW p \in Peers, TakeResponse(p)
  PROVE  Inv'
<1> DEFINE q == Other(p)
           x == wire[p][1]
           k == x.number
<1>0. HandlersOK /\ Types /\ WireOK /\ OrderOK /\ CallsOK /\ PendingOK
        /\ NothingLost
  BY DEF Inv
<1>1. q \in Peers /\ q # p /\ Other(q) = p /\ \A r \in Peers : r = p \/ r = q
  BY OtherPeer
<1>2. ParseErrorAnswer \in Message /\ Idle(ParseErrorAnswer)
  BY Messages DEF Idle, IsCall, IsReply
<1>3. /\ wire[p] # <<>> /\ Exchange(p, <<>>)
      /\ UNCHANGED <<handlers, undispatched, connected, lastId, garbled>>
  BY TakeResponseFacts
<1>4. /\ x \in Message /\ 1 \in DOMAIN wire[p]
      /\ DOMAIN wire[p] = 1 .. Len(wire[p])
      /\ wire' \in [Peers -> Seq(Message)]
  BY <1>0, <1>2, <1>3, Exchanged
<1>5. IsReply(x) /\ x.id \in Ids /\ x.data \in Data \cup ErrorCodes
  BY TakeResponseFacts
<1>7. /\ k \in DOMAIN sent /\ k \in Nat \ {0} /\ k = x.number
      /\ sent[k].kind = "request" /\ sent[k].from = p
      /\ sent[k].id = x.id /\ sent[k].answer = x.data
      /\ sent[k].by # Nothing /\ sent[k].outcome = Nothing
      /\ k \notin garbled /\ sent[k].answer # Nothing
  BY TakeResponseFacts
<1>8. pending[p][x.id] = k
  BY TakeResponseFacts
<1>9. PICK told \in {"result"} \cup ErrorCodes : ResponseTaken(p, x, told)
  BY TakeResponseFacts
<1> HIDE DEF x, k, q
<1>10. /\ sent' = [sent EXCEPT ![k].outcome = told]
       /\ pending' = [pending EXCEPT ![p][x.id] = 0]
  BY <1>9 DEF ResponseTaken, k
<1>11. told \in {"result"} \cup ErrorCodes /\ told # Nothing
  BY <1>9 DEF ErrorCodes, Nothing
<1>12. /\ sent' \in Seq(CallRecord) /\ Len(sent') = Len(sent)
       /\ DOMAIN sent' = DOMAIN sent
       /\ \A j \in DOMAIN sent \ {k} : sent'[j] = sent[j]
       /\ sent'[k].outcome = told /\ sent'[k].from = sent[k].from
       /\ sent'[k].kind = sent[k].kind /\ sent'[k].id = sent[k].id
       /\ sent'[k].method = sent[k].method
       /\ sent'[k].by = sent[k].by
       /\ sent'[k].answer = sent[k].answer
  <2>1. sent \in Seq(CallRecord) /\ told \in Outcomes
    BY <1>0, <1>11 DEF Types, Outcomes
  <2> QED
    BY <1>7, <1>10, <2>1, SetOutcome
<1>13. WireOK' /\ OrderOK'
  <2>1. ~Idle(wire[p][1]) /\ k = wire[p][1].number
    BY <1>5, <1>7 DEF Idle, x
  <2>2. /\ \A j \in DOMAIN wire[p] : j > 1 /\ ~Idle(wire[p][j]) =>
             Sound(sent', garbled', p, wire[p][j])
        /\ \A j \in DOMAIN wire[q] : ~Idle(wire[q][j]) =>
             Sound(sent', garbled', q, wire[q][j])
    BY <1>0, <1>3, <1>12, <2>1, OthersSound DEF q
  <2>3. /\ Sound(sent', garbled', q, ParseErrorAnswer)
        /\ \A y : Before(y, ParseErrorAnswer)
    BY <1>2 DEF Sound, Before, Idle
  <2> QED
    BY <1>0, <1>2, <1>3, <2>2, <2>3, ExchangeWire DEF q
<1>14. pending' \in [Peers -> [Ids -> 0 .. Len(sent)]]
  <2>1. pending \in [Peers -> [Ids -> 0 .. Len(sent)]]
    BY <1>0 DEF Types
  <2>2. 0 \in 0 .. Len(sent)
    BY <1>0, CallTypes
  <2> QED
    BY <1>5, <1>10, <2>1, <2>2
<1>15. \A r \in Peers, id \in Ids :
         pending'[r][id] = IF r = p /\ id = x.id THEN 0 ELSE pending[r][id]
  <2>1. pending \in [Peers -> [Ids -> 0 .. Len(sent)]]
    BY <1>0 DEF Types
  <2> QED
    BY <1>5, <1>10, <2>1
<1>16. Types'
  BY <1>0, <1>3, <1>4, <1>12, <1>14 DEF Types
<1>17. HandlersOK'
  BY <1>0, <1>3, HandlersSame
<1>18. CallsOK'
  <2> SUFFICES ASSUME NEW j \in DOMAIN sent
               PROVE  CallOK(sent'[j], j, garbled', pending')
    BY <1>12 DEF CallsOK
  <2>1. CallOK(sent[j], j, garbled, pending) /\ sent[j].from \in Peers
    BY <1>0, CallTypes DEF CallsOK
  <2>2. CASE j = k
    <3>1. pending'[sent[k].from][sent[k].id] = 0
      BY <1>1, <1>5, <1>7, <1>15
    <3> QED
      BY <1>3, <1>7, <1>11, <1>12, <2>1, <2>2, <3>1 DEF CallOK
  <2>3. CASE j # k
    <3>1. sent'[j] = sent[j]
      BY <1>12, <2>3
    <3>2. sent[j].kind = "request" =>
            (pending'[sent[j].from][sent[j].id] = j
              <=> pending[sent[j].from][sent[j].id] = j)
      <4>1. sent[j].kind = "request" => sent[j].id \in Ids
        BY <2>1 DEF CallOK
      <4>2. j # 0
        BY <1>0, CallTypes
      <4> QED
        BY <1>8, <1>15, <2>1, <2>3, <4>1, <4>2
    <3> QED
      BY <1>3, <2>1, <3>1, <3>2 DEF CallOK
  <2> QED
    BY <2>2, <2>3
<1>19. PendingOK'
  <2> SUFFICES ASSUME NEW r \in Peers, NEW id \in Ids, pending'[r][id] # 0
               PROVE  LET n == pending'[r][id] IN
                      /\ sent'[n].from = r /\ sent'[n].kind = "request"
                      /\ sent'[n].id = id
    BY DEF PendingOK
  <2>1. pending'[r][id] = pending[r][id] /\ pending[r][id] \in DOMAIN sent
    BY <1>0, <1>15, SentAtPending
  <2> QED
    BY <1>0, <1>12, <2>1 DEF PendingOK
<1>20. NothingLost'
  <2>1. \A j \in DOMAIN sent \ {k} : \A r \in Peers :
          /\ CallIn(wire[r], j) => CallIn(wire'[r], j)
          /\ ReplyIn(wire[r], j) => ReplyIn(wire'[r], j)
    BY <1>0, <1>2, <1>3, <1>7, ExchangeKeeps DEF x
  <2>2. \A j \in DOMAIN sent : sent[j].from \in Peers
    BY <1>0, CallTypes
  <2>3. \A j \in DOMAIN sent \ {k} : Found(sent'[j], j, garbled', wire')
    BY <1>0, <1>3, <1>12, <2>1, <2>2, FoundStays DEF NothingLost
  <2>4. Found(sent'[k], k, garbled', wire')
    BY <1>11, <1>12 DEF Found
  <2> QED
    BY <1>12, <2>3, <2>4 DEF NothingLost
<1> QED
  BY <1>13, <1>16, <1>17, <1>18, <1>19, <1>20 DEF Inv

\* What is sent for a request x that is taken, and what is noted of it.
RequestTaken(p, x, by, error) ==
  /\ by = "handler" => HandlerShape[x.method] \in Shapes
  /\ Exchange(p, IF by = "nobody"
                 THEN <<Response(x.id, error, x.number)>> ELSE <<>>)
  /\ sent' = [sent EXCEPT ![x.number].by = by,
                          ![x.number].answer = IF by = "nobody" THEN error
                                                              ELSE Nothing]

LEMMA TakeRequestFacts ==
  ASSUME Inv, NEW p \in Peers, TakeRequest(p)
  PROVE  LET x == wire[p][1] IN
         /\ wire[p] # <<>> /\ x \in Message /\ x.kind = "request"
         /\ x.id \in Ids /\ x.number \in Nat
         /\ Asks(sent, garbled, p, x)
         /\ UNCHANGED <<handlers, undispatched, connected, lastId, pending,
                        garbled>>
         /\ \E by \in {"handler", "other", "nobody"}, error \in ErrorCodes :
              RequestTaken(p, x, by, error)
<1> DEFINE x == wire[p][1]
           k == x.number
<1>0. HandlersOK /\ Types /\ WireOK
  BY DEF Inv
<1>1. /\ wire[p] # <<>> /\ Head(wire[p]).kind = "request"
      /\ UNCHANGED <<handlers, undispatched, connected, lastId, pending,
                     garbled>>
  BY DEF TakeRequest, Incoming, configVars
<1>2. x = Head(wire[p]) /\ x \in Message /\ 1 \in DOMAIN wire[p]
  BY <1>0, <1>1, Removed DEF Types
<1> HIDE DEF x
<1>3. IsCall(x) /\ x.kind = "request"
  BY <1>1, <1>2 DEF IsCall
<1>4. x.id \in Ids /\ x.method \in Methods /\ k \in Nat
  BY <1>2, <1>3, MessageFields
<1>5. Asks(sent, garbled, p, x)
  BY <1>0, <1>2, <1>3 DEF WireOK, Sound, x
<1> DEFINE by == Handles(p, x.method)
           error == IF handlers[p][x.method] = "none" THEN "MethodNotFound"
                                                      ELSE "InvalidRequest"
           answers == IF by = "nobody" THEN <<Response(x.id, error, k)>>
                                       ELSE <<>>
           answer == IF answers = <<>> THEN Nothing ELSE answers[1].data
<1>6. /\ Exchange(p, answers)
      /\ sent' = [sent EXCEPT ![k].by = by, ![k].answer = answer]
  BY <1>2 DEF TakeRequest, Unhandled
<1>7. error \in ErrorCodes
  BY DEF ErrorCodes
<1>8. by \in {"handler", "other", "nobody"}
  BY DEF Handles
<1>9. by = "handler" => HandlerShape[x.method] \in Shapes
  BY <1>0, <1>4 DEF Handles, HandlersOK
<1> HIDE DEF by, error
<1>10. answer = IF by = "nobody" THEN error ELSE Nothing
  <2>1. Response(x.id, error, k).data = error
    BY DEF Response
  <2>2. CASE by = "nobody"
    BY <2>1, <2>2
  <2>3. CASE by # "nobody"
    BY <2>3
  <2> QED
    BY <2>2, <2>3
<1>11. answers = IF by = "nobody" THEN <<Response(x.id, error, k)>> ELSE <<>>
  OBVIOUS
<1> HIDE DEF answers, answer
<1>12. RequestTaken(p, x, by, error)
  BY <1>6, <1>9, <1>10, <1>11 DEF RequestTaken
<1> QED
  BY <1>1, <1>2, <1>3, <1>4, <1>5, <1>7, <1>8, <1>12 DEF x

LEMMA TakeRequestStep ==
  ASSUME Inv, NEW p \in Peers, TakeRequest(p)
  PROVE  Inv'
<1> DEFINE q == Other(p)
           x == wire[p][1]
           k == x.number
<1>0. HandlersOK /\ Types /\ WireOK /\ OrderOK /\ CallsOK /\ PendingOK
        /\ NothingLost
  BY DEF Inv
<1>1. q \in Peers /\ q # p /\ Other(q) = p /\ \A r \in Peers : r = p \/ r = q
  BY OtherPeer
<1>2. /\ wire[p] # <<>> /\ x \in Message /\ x.kind = "request"
      /\ x.id \in Ids /\ k \in Nat /\ Asks(sent, garbled, p, x)
      /\ UNCHANGED <<handlers, undispatched, connected, lastId, pending,
                     garbled>>
  BY TakeRequestFacts
<1>3. PICK by \in {"handler", "other", "nobody"}, error \in ErrorCodes :
        RequestTaken(p, x, by, error)
  BY TakeRequestFacts
<1> DEFINE answer == IF by = "nobody" THEN error ELSE Nothing
           reply == Response(x.id, error, k)
           messages == IF by = "nobody" THEN <<reply>> ELSE <<>>
<1>4. /\ by = "handler" => HandlerShape[x.method] \in Shapes
      /\ Exchange(p, messages)
      /\ sent' = [sent EXCEPT ![k].by = by, ![k].answer = answer]
  BY <1>3 DEF RequestTaken
<1>5. /\ reply \in Message /\ IsReply(reply) /\ reply.number = k
      /\ reply.id = x.id /\ reply.data = error /\ ~IsCall(reply)
  <2>1. error \in Data \cup ErrorCodes
    BY <1>3
  <2> QED
    BY <1>2, <2>1, Messages DEF IsReply, IsCall
<1>6. /\ by = "nobody" => messages = <<reply>> /\ answer = error
      /\ by # "nobody" => messages = <<>> /\ answer = Nothing
      /\ messages \in {<<>>, <<reply>>}
  OBVIOUS
<1> HIDE DEF messages, reply, answer, x
<1>7. IsCall(x) /\ ~Idle(x)
  BY <1>2 DEF IsCall, Idle
<1> HIDE DEF k, q
<1>8. /\ k \in DOMAIN sent /\ sent[k].kind = "request" /\ k = x.number
      /\ sent[k].from = q /\ sent[k].id = x.id /\ sent[k].method = x.method
      /\ sent[k].by = Nothing /\ sent[k].outcome = Nothing
      /\ k \notin garbled
  BY <1>2 DEF Asks, k, q
<1>9. /\ sent' \in Seq(CallRecord) /\ Len(sent') = Len(sent)
      /\ DOMAIN sent' = DOMAIN sent
      /\ \A j \in DOMAIN sent \ {k} : sent'[j] = sent[j]
      /\ sent'[k].by = by /\ sent'[k].from = sent[k].from
      /\ sent'[k].kind = sent[k].kind /\ sent'[k].id = sent[k].id
      /\ sent'[k].method = sent[k].method
      /\ sent'[k].answer = answer
      /\ sent'[k].outcome = sent[k].outcome
  <2> DEFINE mid == [sent EXCEPT ![k].by = by]
  <2>1. sent \in Seq(CallRecord) /\ by \in Places
    BY <1>0, <1>3 DEF Types, Places
  <2>2. /\ mid \in Seq(CallRecord) /\ Len(mid) = Len(sent)
        /\ DOMAIN mid = DOMAIN sent
        /\ \A j \in DOMAIN sent \ {k} : mid[j] = sent[j]
        /\ mid[k].by = by /\ mid[k].from = sent[k].from
        /\ mid[k].kind = sent[k].kind /\ mid[k].id = sent[k].id
        /\ mid[k].method = sent[k].method
        /\ mid[k].answer = sent[k].answer
        /\ mid[k].outcome = sent[k].outcome
    BY <1>8, <2>1, SetBy
  <2>3. sent' = [mid EXCEPT ![k].answer = answer]
    BY <1>4
  <2>4. answer \in AnswerOrNothing
    BY <1>6, <1>3 DEF AnswerOrNothing
  <2> HIDE DEF mid
  <2> QED
    BY <1>8, <2>2, <2>3, <2>4, SetAnswer
<1>10. WireOK' /\ OrderOK'
  <2>1. /\ \A j \in DOMAIN wire[p] : j > 1 /\ ~Idle(wire[p][j]) =>
             Sound(sent', garbled', p, wire[p][j])
        /\ \A j \in DOMAIN wire[q] : ~Idle(wire[q][j]) =>
             Sound(sent', garbled', q, wire[q][j])
    BY <1>0, <1>2, <1>7, <1>8, <1>9, OthersSound
       DEF IsCall, IsReply, q, x
  <2>2. \A j \in DOMAIN wire[q] : Before(wire[q][j], reply)
    <3> TAKE j \in DOMAIN wire[q]
    <3>1. Sound(sent, garbled, q, wire[q][j])
      BY <1>0, <1>1 DEF WireOK
    <3>2. IsReply(wire[q][j]) => wire[q][j].number # k
      BY <1>8, <3>1 DEF Sound, Replies
    <3> QED
      BY <1>5, <3>2 DEF Before
  <2>3. CASE by = "nobody"
    <3>1. Sound(sent', garbled', q, reply)
      BY <1>2, <1>5, <1>6, <1>8, <1>9, <2>3
         DEF Sound, Replies, Nothing
    <3> QED
      BY <1>0, <1>2, <1>4, <1>5, <1>6, <2>1, <2>2, <3>1, ExchangeWire
         DEF q, x
  <2>4. CASE by # "nobody"
    <3>1. /\ Sound(sent', garbled', q, ParseErrorAnswer)
          /\ \A y : Before(y, ParseErrorAnswer)
          /\ ParseErrorAnswer \in Message
          /\ messages \in {<<>>, <<ParseErrorAnswer>>}
      BY <1>6, <2>4, Messages DEF Sound, IsCall, IsReply, Before
    <3> QED
      BY <1>0, <1>2, <1>4, <2>1, <3>1, ExchangeWire DEF q, x
  <2> QED
    BY <2>3, <2>4
<1>11. Types'
  <2>1. wire' \in [Peers -> Seq(Message)]
    BY <1>0, <1>2, <1>4, <1>5, <1>6, ExchangeMoves DEF x
  <2> QED
    BY <1>0, <1>2, <1>9, <2>1 DEF Types
<1>12. HandlersOK'
  BY <1>0, <1>2, HandlersSame
<1>13. CallsOK'
  <2> SUFFICES ASSUME NEW j \in DOMAIN sent
               PROVE  CallOK(sent'[j], j, garbled', pending')
    BY <1>9 DEF CallsOK
  <2>1. CallOK(sent[j], j, garbled, pending)
    BY <1>0 DEF CallsOK
  <2>2. CASE j = k
    <3>1. /\ by = "nobody" => answer \in ErrorCodes /\ answer # Nothing
          /\ by # "nobody" => answer = Nothing
          /\ by # Nothing
      BY <1>3, <1>6 DEF ErrorCodes, Nothing
    <3> QED
      BY <1>2, <1>4, <1>8, <1>9, <2>1, <2>2, <3>1 DEF CallOK
  <2>3. CASE j # k
    BY <1>2, <1>9, <2>1, <2>3
  <2> QED
    BY <2>2, <2>3
<1>14. PendingOK'
  BY <1>0, <1>2, <1>8, <1>9, SentAtPending DEF PendingOK
<1>15. NothingLost'
  <2>1. \A j \in DOMAIN sent \ {k} : \A r \in Peers :
          /\ CallIn(wire[r], j) => CallIn(wire'[r], j)
          /\ ReplyIn(wire[r], j) => ReplyIn(wire'[r], j)
    BY <1>0, <1>2, <1>4, <1>5, <1>6, <1>8, ExchangeKeeps DEF x
  <2>2. \A j \in DOMAIN sent : sent[j].from \in Peers
    BY <1>0, CallTypes
  <2>3. \A j \in DOMAIN sent \ {k} : Found(sent'[j], j, garbled', wire')
    BY <1>0, <1>2, <1>9, <2>1, <2>2, FoundStays DEF NothingLost
  <2>4. Found(sent'[k], k, garbled', wire')
    <3>1. by # Nothing /\ (by # "nobody" => answer = Nothing)
      BY <1>3, <1>6 DEF Nothing
    <3>2. ASSUME by = "nobody"
          PROVE  ReplyIn(wire'[q], k)
      <4>1. \E i \in DOMAIN wire'[q] : wire'[q][i] = reply
        BY <1>0, <1>2, <1>4, <1>5, <1>6, <3>2, ExchangeMoves DEF q, x
      <4> QED
        BY <1>5, <4>1 DEF ReplyIn
    <3> QED
      BY <1>8, <1>9, <3>1, <3>2 DEF Found
  <2> QED
    BY <1>9, <2>3, <2>4 DEF NothingLost
<1> QED
  BY <1>10, <1>11, <1>12, <1>13, <1>14, <1>15 DEF Inv

---------------------------------------------------------------------------
\* Sending.

\* A call is added that nobody has taken.
LEMMA SoundGrows ==
  ASSUME NEW calls, NEW now, NEW spoiled, NEW r, NEW x,
         \A j \in DOMAIN calls : j \in DOMAIN now /\ now[j] = calls[j],
         \A j \in DOMAIN now : j \in DOMAIN calls \/ now[j].by = Nothing,
         Sound(calls, spoiled, r, x)
  PROVE  Sound(now, spoiled, r, x)
<1>1. ASSUME IsCall(x)
      PROVE  Asks(now, spoiled, r, x)
  <2>1. Asks(calls, spoiled, r, x)
    BY <1>1 DEF Sound
  <2>2. x.number \in DOMAIN now /\ now[x.number] = calls[x.number]
    BY <2>1 DEF Asks
  <2>3. \A j \in DOMAIN now : now[j].from = Other(r) /\ x.number < j
          => now[j].by = Nothing
    <3> TAKE j \in DOMAIN now
    <3>1. CASE j \in DOMAIN calls
      BY <2>1, <3>1 DEF Asks
    <3> QED
      BY <3>1
  <2> QED
    BY <2>1, <2>2, <2>3 DEF Asks
<1>2. ASSUME IsReply(x)
      PROVE  Replies(now, spoiled, r, x)
  <2>1. Replies(calls, spoiled, r, x)
    BY <1>2 DEF Sound
  <2>2. x.number \in DOMAIN now /\ now[x.number] = calls[x.number]
    BY <2>1 DEF Replies
  <2> QED
    BY <2>1, <2>2 DEF Replies
<1> QED
  BY <1>1, <1>2 DEF Sound

\* Message x is sent to q.
LEMMA PostMoves ==
  ASSUME Types, NEW q \in Peers, NEW x \in Message,
         wire' = [wire EXCEPT ![q] = Append(@, x)]
  PROVE  /\ wire' \in [Peers -> Seq(Message)]
         /\ Moved(wire[q], wire'[q], 0, x) /\ Stays(wire[q], wire'[q], 0)
         /\ \E i \in DOMAIN wire'[q] : wire'[q][i] = x
         /\ \A r \in Peers \ {q} : wire'[r] = wire[r]
<1>1. /\ wire' \in [Peers -> Seq(Message)]
      /\ Len(wire[q]) \in Nat /\ DOMAIN wire[q] = 1 .. Len(wire[q])
      /\ DOMAIN wire'[q] = 1 .. Len(wire[q]) + 1
      /\ \A i \in DOMAIN wire[q] : wire'[q][i] = wire[q][i]
      /\ wire'[q][Len(wire[q]) + 1] = x
      /\ \A r \in Peers \ {q} : wire'[r] = wire[r]
  BY Posted
<1>2. Moved(wire[q], wire'[q], 0, x)
  BY <1>1 DEF Moved
<1>3. Stays(wire[q], wire'[q], 0)
  BY <1>1 DEF Stays
<1> QED
  BY <1>1, <1>2, <1>3

LEMMA PostWire ==
  ASSUME Types, OrderOK, NEW q \in Peers, NEW x \in Message,
         wire' = [wire EXCEPT ![q] = Append(@, x)],
         Sound(sent', garbled', q, x),
         \A r \in Peers : \A j \in DOMAIN wire[r] :
           Sound(sent', garbled', r, wire[r][j]),
         \A j \in DOMAIN wire[q] : Before(wire[q][j], x)
  PROVE  /\ WireOK' /\ OrderOK'
         /\ \A k : \A r \in Peers :
              /\ CallIn(wire[r], k) => CallIn(wire'[r], k)
              /\ ReplyIn(wire[r], k) => ReplyIn(wire'[r], k)
<1>1. /\ Moved(wire[q], wire'[q], 0, x) /\ Stays(wire[q], wire'[q], 0)
      /\ \A r \in Peers \ {q} : wire'[r] = wire[r]
  BY PostMoves
<1>2. \A i \in DOMAIN wire'[q] : Sound(sent', garbled', q, wire'[q][i])
  BY <1>1, MovedSound
<1>3. WireOK'
  BY <1>1, <1>2 DEF WireOK
<1>4. \A i, j \in DOMAIN wire'[q] : i < j => Before(wire'[q][i], wire'[q][j])
  <2>1. \A i, j \in DOMAIN wire[q] : i < j => Before(wire[q][i], wire[q][j])
    BY DEF OrderOK
  <2> QED
    BY <1>1, <2>1, MovedOrder
<1>5. OrderOK'
  BY <1>1, <1>4 DEF OrderOK
<1>6. \A k : /\ CallIn(wire[q], k) => CallIn(wire'[q], k)
             /\ ReplyIn(wire[q], k) => ReplyIn(wire'[q], k)
  <2>1. \A j \in DOMAIN wire[q] : j > 0
    BY DEF Types
  <2> QED
    BY <1>1, <2>1, StaysIn
<1> QED
  BY <1>1, <1>3, <1>5, <1>6

\* A record is added to the history.
LEMMA SentGrows ==
  ASSUME Types, NEW c \in CallRecord, sent' = Append(sent, c)
  PROVE  /\ sent' \in Seq(CallRecord) /\ Len(sent') = Len(sent) + 1
         /\ Number = Len(sent) + 1 /\ Number \in Nat
         /\ \A j \in DOMAIN sent : j \in DOMAIN sent' /\ sent'[j] = sent[j]
                                     /\ j \in Nat \ {0} /\ j < Number
         /\ \A j \in DOMAIN sent' : j \in DOMAIN sent \/ j = Number
         /\ Number \in DOMAIN sent' /\ sent'[Number] = c
         /\ 0 .. Len(sent) \subseteq 0 .. Len(sent')
<1>1. sent \in Seq(CallRecord)
  BY DEF Types
<1> QED
  BY <1>1, Appended DEF Number

LEMMA SendNotificationStep ==
  ASSUME Inv, NEW p \in Peers, NEW m \in Methods, SendNotification(p, m)
  PROVE  Inv'
<1> DEFINE q == Other(p)
           c == Sent(p, "notification", NoId, m, Nothing)
           x == Notification(m, Number)
<1>0. HandlersOK /\ Types /\ WireOK /\ OrderOK /\ CallsOK /\ PendingOK
        /\ NothingLost
  BY DEF Inv
<1>1. q \in Peers /\ q # p /\ Other(q) = p /\ \A r \in Peers : r = p \/ r = q
  BY OtherPeer
<1>2. /\ Number <= MaxSent
      /\ wire' = [wire EXCEPT ![q] = Append(@, x)]
      /\ sent' = Append(sent, c)
      /\ UNCHANGED <<handlers, undispatched, connected, lastId, pending,
                     garbled>>
  BY DEF SendNotification, configVars
<1>3. /\ c \in CallRecord /\ c.from = p /\ c.kind = "notification"
      /\ c.method = m /\ c.by = Nothing /\ c.answer = Nothing
      /\ c.outcome = Nothing
  BY DEF Sent, CallRecord, Places, AnswerOrNothing, Outcomes, Nothing
<1> HIDE DEF c
<1>4. /\ sent' \in Seq(CallRecord) /\ Len(sent') = Len(sent) + 1
      /\ Number = Len(sent) + 1 /\ Number \in Nat
      /\ \A j \in DOMAIN sent : j \in DOMAIN sent' /\ sent'[j] = sent[j]
                                  /\ j \in Nat \ {0} /\ j < Number
      /\ \A j \in DOMAIN sent' : j \in DOMAIN sent \/ j = Number
      /\ Number \in DOMAIN sent' /\ sent'[Number] = c
      /\ 0 .. Len(sent) \subseteq 0 .. Len(sent')
  BY <1>0, <1>2, <1>3, SentGrows
<1>5. /\ x \in Message /\ x.kind = "notification" /\ x.number = Number
      /\ x.method = m /\ IsCall(x) /\ ~IsReply(x)
  BY <1>4, Messages DEF IsCall, IsReply
<1> HIDE DEF x, q
<1>6. Sound(sent', garbled', q, x)
  BY <1>1, <1>3, <1>4, <1>5 DEF Sound, Asks
<1>7. \A r \in Peers : \A j \in DOMAIN wire[r] :
        Sound(sent', garbled', r, wire[r][j])
  BY <1>0, <1>2, <1>3, <1>4, SoundGrows DEF WireOK
<1>8. \A j \in DOMAIN wire[q] : Before(wire[q][j], x)
  BY <1>0, <1>1, <1>4, <1>5 DEF WireOK, Sound, Asks, Before
<1>9. /\ WireOK' /\ OrderOK' /\ wire' \in [Peers -> Seq(Message)]
      /\ \A k : \A r \in Peers :
           /\ CallIn(wire[r], k) => CallIn(wire'[r], k)
           /\ ReplyIn(wire[r], k) => ReplyIn(wire'[r], k)
  BY <1>0, <1>1, <1>2, <1>5, <1>6, <1>7, <1>8, PostWire, PostMoves
<1>10. Types'
  BY <1>0, <1>2, <1>4, <1>9 DEF Types
<1>11. HandlersOK'
  BY <1>0, <1>2, HandlersSame
<1>12. CallsOK'
  <2>1. CallOK(c, Number, garbled', pending')
    BY <1>3 DEF CallOK
  <2> QED
    BY <1>0, <1>2, <1>4, <2>1 DEF CallsOK
<1>13. PendingOK'
  BY <1>0, <1>2, <1>4, SentAtPending DEF PendingOK
<1>14. NothingLost'
  <2>1. \A j \in DOMAIN sent : Found(sent'[j], j, garbled', wire')
    BY <1>0, <1>2, <1>4, <1>9, CallTypes, FoundStays DEF NothingLost
  <2>2. Found(c, Number, garbled', wire')
    BY <1>3 DEF Found
  <2> QED
    BY <1>4, <2>1, <2>2 DEF NothingLost
<1> QED
  BY <1>9, <1>10, <1>11, <1>12, <1>13, <1>14 DEF Inv

LEMMA SendRequestIdStep ==
  ASSUME Inv, NEW p \in Peers, NEW id \in Ids, NEW m \in Methods,
         SendRequestId(p, id, m), lastId' \in [Peers -> 0 .. IdCount - 1]
  PROVE  Inv'
<1> DEFINE q == Other(p)
           outcome == IF Free(p, id) THEN Nothing ELSE "InvalidRequest"
           c == Sent(p, "request", id, m, outcome)
           x == Request(m, id, Number)
<1>0. HandlersOK /\ Types /\ WireOK /\ OrderOK /\ CallsOK /\ PendingOK
        /\ NothingLost
  BY DEF Inv
<1>1. q \in Peers /\ q # p /\ Other(q) = p /\ \A r \in Peers : r = p \/ r = q
  BY OtherPeer
<1>2. /\ Number <= MaxSent
      /\ Free(p, id) => /\ pending' = [pending EXCEPT ![p][id] = Number]
                        /\ wire' = [wire EXCEPT ![q] = Append(@, x)]
      /\ ~Free(p, id) => UNCHANGED <<pending, wire>>
      /\ sent' = Append(sent, c)
      /\ UNCHANGED <<handlers, undispatched, connected, garbled>>
  BY DEF SendRequestId, configVars
<1>3. /\ c \in CallRecord /\ c.from = p /\ c.kind = "request"
      /\ c.id = id /\ c.method = m /\ c.by = Nothing /\ c.answer = Nothing
      /\ c.outcome = outcome
      /\ outcome = Nothing <=> Free(p, id)
  BY DEF Sent, CallRecord, Places, AnswerOrNothing, Outcomes, Nothing,
         ErrorCodes
<1> HIDE DEF c, outcome
<1>4. /\ sent' \in Seq(CallRecord) /\ Len(sent') = Len(sent) + 1
      /\ Number = Len(sent) + 1 /\ Number \in Nat
      /\ \A j \in DOMAIN sent : j \in DOMAIN sent' /\ sent'[j] = sent[j]
                                  /\ j \in Nat \ {0} /\ j < Number
      /\ \A j \in DOMAIN sent' : j \in DOMAIN sent \/ j = Number
      /\ Number \in DOMAIN sent' /\ sent'[Number] = c
      /\ 0 .. Len(sent) \subseteq 0 .. Len(sent')
  BY <1>0, <1>2, <1>3, SentGrows
<1>5. /\ x \in Message /\ x.kind = "request" /\ x.number = Number
      /\ x.id = id /\ x.method = m /\ IsCall(x) /\ ~IsReply(x)
  BY <1>4, Messages DEF IsCall, IsReply
<1> HIDE DEF x, q
<1>6. \A r \in Peers : \A j \in DOMAIN wire[r] :
        Sound(sent', garbled', r, wire[r][j])
  <2>1. /\ garbled' = garbled
        /\ \A j \in DOMAIN sent : j \in DOMAIN sent' /\ sent'[j] = sent[j]
        /\ \A j \in DOMAIN sent' : j \in DOMAIN sent \/ sent'[j].by = Nothing
    BY <1>2, <1>3, <1>4
  <2> QED
    BY <1>0, <2>1, SoundGrows DEF WireOK
<1>7. Number \notin garbled
  BY <1>0, <1>4 DEF Types
<1>8. /\ WireOK' /\ OrderOK' /\ wire' \in [Peers -> Seq(Message)]
      /\ \A k : \A r \in Peers :
           /\ CallIn(wire[r], k) => CallIn(wire'[r], k)
           /\ ReplyIn(wire[r], k) => ReplyIn(wire'[r], k)
      /\ Free(p, id) => CallIn(wire'[q], Number)
  <2>1. CASE Free(p, id)
    <3>1. Sound(sent', garbled', q, x)
      BY <1>1, <1>2, <1>3, <1>4, <1>5, <1>7, <2>1 DEF Sound, Asks
    <3>2. \A j \in DOMAIN wire[q] : Before(wire[q][j], x)
      BY <1>0, <1>1, <1>4, <1>5 DEF WireOK, Sound, Asks, Before
    <3>3. /\ WireOK' /\ OrderOK'
          /\ \A k : \A r \in Peers :
               /\ CallIn(wire[r], k) => CallIn(wire'[r], k)
               /\ ReplyIn(wire[r], k) => ReplyIn(wire'[r], k)
      BY <1>0, <1>1, <1>2, <1>5, <1>6, <2>1, <3>1, <3>2, PostWire
    <3>4. /\ wire' \in [Peers -> Seq(Message)]
          /\ \E i \in DOMAIN wire'[q] : wire'[q][i] = x
      BY <1>0, <1>1, <1>2, <1>5, <2>1, PostMoves
    <3> QED
      BY <1>5, <3>3, <3>4 DEF CallIn
  <2>2. CASE ~Free(p, id)
    BY <1>0, <1>2, <1>6, <2>2 DEF WireOK, OrderOK, Types
  <2> QED
    BY <2>1, <2>2
<1>9. /\ pending' \in [Peers -> [Ids -> 0 .. Len(sent')]]
      /\ \A r \in Peers, i \in Ids :
           pending'[r][i] = IF Free(p, id) /\ r = p /\ i = id THEN Number
                                                         ELSE pending[r][i]
  <2>1. pending \in [Peers -> [Ids -> 0 .. Len(sent')]]
    BY <1>0, <1>4 DEF Types
  <2>2. Number \in 0 .. Len(sent')
    BY <1>4
  <2>3. CASE Free(p, id)
    <3>1. pending' = [pending EXCEPT ![p][id] = Number]
      BY <1>2, <2>3
    <3>2. pending' \in [Peers -> [Ids -> 0 .. Len(sent')]]
      BY <2>1, <2>2, <3>1
    <3>3. \A r \in Peers, i \in Ids :
            pending'[r][i] = IF r = p /\ i = id THEN Number ELSE pending[r][i]
      BY <2>1, <3>1
    <3> QED
      BY <2>3, <3>2, <3>3
  <2>4. CASE ~Free(p, id)
    BY <1>2, <2>1, <2>4
  <2> QED
    BY <2>3, <2>4
<1>10. pending[p][id] \in 0 .. Len(sent) /\ (Free(p, id) <=> pending[p][id] = 0)
  BY <1>0 DEF Types, Free
<1>11. Types'
  BY <1>0, <1>2, <1>4, <1>8, <1>9 DEF Types
<1>12. HandlersOK'
  BY <1>0, <1>2, HandlersSame
<1>13. CallsOK'
  <2>1. CallOK(c, Number, garbled', pending')
    <3>1. pending'[p][id] = Number <=> Free(p, id)
      BY <1>4, <1>9, <1>10
    <3> QED
      BY <1>3, <3>1, HandlersSame DEF CallOK, Nothing
  <2>2. ASSUME NEW j \in DOMAIN sent
        PROVE  CallOK(sent[j], j, garbled', pending')
    <3>1. CallOK(sent[j], j, garbled, pending) /\ sent[j].from \in Peers
      BY <1>0, CallTypes DEF CallsOK
    <3>2. sent[j].kind = "request" =>
            (pending'[sent[j].from][sent[j].id] = j
               <=> pending[sent[j].from][sent[j].id] = j)
      <4>1. sent[j].kind = "request" => sent[j].id \in Ids
        BY <3>1 DEF CallOK
      <4> QED
        BY <1>4, <1>9, <1>10, <3>1, <4>1
    <3> QED
      BY <1>2, <3>1, <3>2 DEF CallOK
  <2> QED
    BY <1>4, <2>1, <2>2 DEF CallsOK
<1>14. PendingOK'
  <2> SUFFICES ASSUME NEW r \in Peers, NEW i \in Ids, pending'[r][i] # 0
               PROVE  LET n == pending'[r][i] IN
                      /\ sent'[n].from = r /\ sent'[n].kind = "request"
                      /\ sent'[n].id = i
    BY DEF PendingOK
  <2>1. CASE Free(p, id) /\ r = p /\ i = id
    BY <1>3, <1>4, <1>9, <2>1
  <2>2. CASE ~(Free(p, id) /\ r = p /\ i = id)
    <3>1. pending'[r][i] = pending[r][i] /\ pending[r][i] \in DOMAIN sent
      BY <1>0, <1>9, <2>2, SentAtPending
    <3> QED
      BY <1>0, <1>4, <3>1 DEF PendingOK
  <2> QED
    BY <2>1, <2>2
<1>15. NothingLost'
  <2>1. \A j \in DOMAIN sent : Found(sent'[j], j, garbled', wire')
    BY <1>0, <1>2, <1>4, <1>8, CallTypes, FoundStays DEF NothingLost
  <2>2. Found(c, Number, garbled', wire')
    BY <1>1, <1>3, <1>8 DEF Found, q
  <2> QED
    BY <1>4, <2>1, <2>2 DEF NothingLost
<1> QED
  BY <1>8, <1>11, <1>12, <1>13, <1>14, <1>15 DEF Inv

LEMMA SendRequestStep ==
  ASSUME Inv, NEW p \in Peers, NEW m \in Methods,
         \/ SendRequest(p, m)
         \/ \E id \in ExplicitIds : SendRequestWithId(p, id, m)
  PROVE  Inv'
<1>1. CASE SendRequest(p, m)
  <2>1. NextId(p) \in 0 .. IdCount - 1
    <3>1. lastId[p] \in Nat /\ IdCount \in Nat \ {0}
      BY SessionAssumption DEF Inv, Types
    <3> QED
      BY <3>1 DEF NextId
  <2>2. /\ lastId' = [lastId EXCEPT ![p] = NextId(p)]
        /\ SendRequestId(p, NextId(p), m)
    BY <1>1 DEF SendRequest
  <2>3. lastId' \in [Peers -> 0 .. IdCount - 1]
    BY <2>1, <2>2 DEF Inv, Types
  <2>4. NextId(p) \in Ids
    BY <2>1 DEF Ids
  <2> QED
    BY <2>2, <2>3, <2>4, SendRequestIdStep
<1>2. ASSUME NEW id \in ExplicitIds, SendRequestWithId(p, id, m)
      PROVE  Inv'
  <2>1. id \in Ids
    BY DEF Ids
  <2>2. SendRequestId(p, id, m) /\ lastId' \in [Peers -> 0 .. IdCount - 1]
    BY <1>2 DEF SendRequestWithId, Inv, Types
  <2> QED
    BY <2>1, <2>2, SendRequestIdStep
<1> QED
  BY <1>1, <1>2

---------------------------------------------------------------------------
\* Answering.

\* A handler that has a request to answer is the only place of the request.
LEMMA HeldNowhereElse ==
  ASSUME Types, WireOK, CallsOK, NEW p \in Peers, NEW k \in DOMAIN sent,
         Held(p, k)
  PROVE  /\ \A r \in Peers : \A j \in DOMAIN wire[r] :
              ~Idle(wire[r][j]) => wire[r][j].number # k
         /\ sent[k].outcome = Nothing /\ k \notin garbled
         /\ sent[k].by # Nothing
<1>1. /\ sent[k].kind = "request" /\ sent[k].by # Nothing
      /\ sent[k].answer = Nothing
  BY DEF Held, Nothing
<1>2. ASSUME NEW r \in Peers, NEW j \in DOMAIN wire[r], ~Idle(wire[r][j])
      PROVE  wire[r][j].number # k
  <2> DEFINE y == wire[r][j]
  <2>1. Sound(sent, garbled, r, y) /\ y \in Message
    BY DEF WireOK, Types
  <2> HIDE DEF y
  <2>2. IsReply(y) => y.data # Nothing
    BY <2>1, MessageFields DEF Data, ErrorCodes, Nothing
  <2> QED
    BY <1>1, <1>2, <2>1, <2>2 DEF Sound, Asks, Replies, Idle, y
<1> QED
  BY <1>1, <1>2 DEF CallsOK, CallOK

LEMMA AnswersType ==
  ASSUME Types, CallsOK, NEW p \in Peers, NEW k \in DOMAIN sent, Held(p, k)
  PROVE  /\ Answers(k) \subseteq Data
         /\ sent[k].by = "handler" =>
              Answers(k) \subseteq Fitting(HandlerShape[sent[k].method])
<1>1. \A shape \in Shapes : Fitting(shape) \subseteq Data
  BY DEF Shapes, Fitting, Data
<1>2. CASE sent[k].by = "other"
  BY <1>2 DEF Answers
<1>3. CASE sent[k].by = "handler"
  <2>1. HandlerShape[sent[k].method] \in Shapes
    BY <1>3 DEF Held, CallsOK, CallOK
  <2> QED
    BY <1>1, <1>3, <2>1 DEF Answers
<1> QED
  BY <1>2, <1>3 DEF Held

LEMMA AnswerStep ==
  ASSUME Inv, NEW p \in Peers, NEW k \in DOMAIN sent, Answer(p, k)
  PROVE  Inv'
<1> DEFINE q == Other(p)
<1>0. HandlersOK /\ Types /\ WireOK /\ OrderOK /\ CallsOK /\ PendingOK
        /\ NothingLost
  BY DEF Inv
<1>1. q \in Peers /\ q # p /\ Other(q) = p /\ \A r \in Peers : r = p \/ r = q
  BY OtherPeer
<1>2. /\ sent[k].kind = "request" /\ sent[k].answer = Nothing
      /\ sent[k].by \in {"handler", "other"} /\ sent[k].from = q
      /\ Held(p, k)
      /\ UNCHANGED <<handlers, undispatched, connected, lastId, pending,
                     garbled>>
  BY DEF Answer, Held, configVars
<1>3. PICK data \in Answers(k) \cup {"RequestFailed", "InternalError"} :
        /\ sent' = [sent EXCEPT ![k].answer = data]
        /\ wire' = [wire EXCEPT ![q] =
                      Append(@, Response(sent[k].id, data, k))]
  BY DEF Answer
<1> DEFINE x == Response(sent[k].id, data, k)
<1>4. /\ sent[k].outcome = Nothing /\ k \notin garbled
      /\ sent[k].by # Nothing
      /\ \A r \in Peers : \A j \in DOMAIN wire[r] :
           ~Idle(wire[r][j]) => wire[r][j].number # k
  BY <1>0, <1>2, HeldNowhereElse
<1>5. /\ data \in Data \cup ErrorCodes /\ data # Nothing
      /\ data \in AnswerOrNothing
      /\ sent[k].by = "handler" =>
           data \in ErrorCodes \cup Fitting(HandlerShape[sent[k].method])
  <2>1. /\ data \in Data \cup ErrorCodes
        /\ sent[k].by = "handler" =>
             data \in ErrorCodes \cup Fitting(HandlerShape[sent[k].method])
    BY <1>0, <1>2, <1>3, AnswersType DEF ErrorCodes
  <2> QED
    BY <2>1 DEF AnswerOrNothing, Data, ErrorCodes, Nothing
<1>6. sent[k].id \in Ids /\ k \in Nat
  BY <1>0, <1>2, CallTypes DEF CallsOK, CallOK
<1>7. /\ x \in Message /\ IsReply(x) /\ x.number = k
      /\ x.id = sent[k].id /\ x.data = data /\ ~IsCall(x)
  BY <1>5, <1>6, Messages DEF IsReply, IsCall
<1> HIDE DEF x, q
<1>8. wire' = [wire EXCEPT ![q] = Append(@, x)]
  BY <1>3 DEF x
<1>9. /\ sent' \in Seq(CallRecord) /\ Len(sent') = Len(sent)
      /\ DOMAIN sent' = DOMAIN sent
      /\ \A j \in DOMAIN sent \ {k} : sent'[j] = sent[j]
      /\ sent'[k].by = sent[k].by /\ sent'[k].from = sent[k].from
      /\ sent'[k].kind = sent[k].kind /\ sent'[k].id = sent[k].id
      /\ sent'[k].method = sent[k].method
      /\ sent'[k].answer = data
      /\ sent'[k].outcome = sent[k].outcome
  BY <1>0, <1>3, <1>5, SetAnswer DEF Types
<1>10. \A r \in Peers : \A j \in DOMAIN wire[r] :
         Sound(sent', garbled', r, wire[r][j])
  <2> TAKE r \in Peers
  <2> TAKE j \in DOMAIN wire[r]
  <2>1. Sound(sent, garbled, r, wire[r][j])
    BY <1>0 DEF WireOK
  <2>2. IsCall(wire[r][j]) /\ sent'[k].from = Other(r)
            /\ wire[r][j].number < k
          => sent'[k].by = Nothing
    BY <1>9, <2>1 DEF Sound, Asks
  <2> QED
    BY <1>2, <1>4, <1>9, <2>1, <2>2, SoundKept
<1>11. Sound(sent', garbled', q, x)
  BY <1>2, <1>4, <1>7, <1>9 DEF Sound, Replies
<1>12. \A j \in DOMAIN wire[q] : Before(wire[q][j], x)
  BY <1>1, <1>4, <1>7 DEF Before, Idle
<1>13. /\ WireOK' /\ OrderOK'
       /\ \A n : \A r \in Peers :
            /\ CallIn(wire[r], n) => CallIn(wire'[r], n)
            /\ ReplyIn(wire[r], n) => ReplyIn(wire'[r], n)
  BY <1>0, <1>1, <1>7, <1>8, <1>10, <1>11, <1>12, PostWire
<1>14. /\ wire' \in [Peers -> Seq(Message)]
       /\ \E i \in DOMAIN wire'[q] : wire'[q][i] = x
  BY <1>0, <1>1, <1>7, <1>8, PostMoves
<1>15. Types'
  BY <1>0, <1>2, <1>9, <1>14 DEF Types
<1>16. HandlersOK'
  BY <1>0, <1>2, HandlersSame
<1>17. CallsOK'
  <2> SUFFICES ASSUME NEW j \in DOMAIN sent
               PROVE  CallOK(sent'[j], j, garbled', pending')
    BY <1>9 DEF CallsOK
  <2>1. CallOK(sent[j], j, garbled, pending)
    BY <1>0 DEF CallsOK
  <2>2. CASE j = k
    BY <1>2, <1>4, <1>5, <1>9, <2>1, <2>2 DEF CallOK
  <2>3. CASE j # k
    BY <1>2, <1>9, <2>1, <2>3
  <2> QED
    BY <2>2, <2>3
<1>18. PendingOK'
  BY <1>0, <1>2, <1>9, SentAtPending DEF PendingOK
<1>19. NothingLost'
  <2>1. \A j \in DOMAIN sent \ {k} : Found(sent'[j], j, garbled', wire')
    BY <1>0, <1>2, <1>9, <1>13, CallTypes, FoundStays DEF NothingLost
  <2>2. ReplyIn(wire'[q], k)
    BY <1>7, <1>14 DEF ReplyIn
  <2>3. Found(sent'[k], k, garbled', wire')
    BY <1>2, <1>4, <1>9, <2>2 DEF Found
  <2> QED
    BY <1>9, <2>1, <2>3 DEF NothingLost
<1> QED
  BY <1>13, <1>15, <1>16, <1>17, <1>18, <1>19 DEF Inv

---------------------------------------------------------------------------
\* Spoiling, and registration.

LEMMA SoundSpoiled ==
  ASSUME NEW calls, NEW spoiled, NEW now, NEW r, NEW x,
         Sound(calls, spoiled, r, x), x.number \in now => x.number \in spoiled
  PROVE  Sound(calls, now, r, x)
BY DEF Sound, Asks, Replies

LEMMA GarbleStep ==
  ASSUME Inv, NEW p \in Peers, Garble(p)
  PROVE  Inv'
<1> DEFINE q == Other(p)
           x == wire[p][1]
           k == x.number
<1>0. HandlersOK /\ Types /\ WireOK /\ OrderOK /\ CallsOK /\ PendingOK
        /\ NothingLost
  BY DEF Inv
<1>1. q \in Peers /\ q # p /\ Other(q) = p /\ \A r \in Peers : r = p \/ r = q
  BY OtherPeer
<1>2. /\ wire[p] # <<>>
      /\ Head(wire[p]).kind \in {"request", "notification", "response"}
      /\ garbled' = garbled \cup {Head(wire[p]).number}
      /\ wire' = [wire EXCEPT ![p][1] = Garbage]
      /\ UNCHANGED <<handlers, undispatched, connected, lastId, pending,
                     sent>>
  BY DEF Garble, configVars
<1>3. /\ x = Head(wire[p]) /\ x \in Message /\ 1 \in DOMAIN wire[p]
      /\ DOMAIN wire[p] = 1 .. Len(wire[p]) /\ Len(wire[p]) \in Nat
      /\ wire[p] \in Seq(Message)
  BY <1>0, <1>2, Removed DEF Types
<1>4. ~Idle(x)
  BY <1>2, <1>3 DEF Idle, IsCall, IsReply
<1>5. Sound(sent, garbled, p, x)
  BY <1>0, <1>3 DEF WireOK
<1>6. /\ k \in DOMAIN sent
      /\ \A j \in DOMAIN wire[p] :
           j > 1 /\ ~Idle(wire[p][j]) => wire[p][j].number # k
      /\ \A j \in DOMAIN wire[q] : ~Idle(wire[q][j]) => wire[q][j].number # k
  BY <1>0, <1>2, <1>4, OthersNumber
<1>7. Garbage \in Message /\ Idle(Garbage)
  BY Messages DEF Idle, IsCall, IsReply
<1>8. /\ wire'[p] \in Seq(Message) /\ DOMAIN wire'[p] = DOMAIN wire[p]
      /\ wire'[p][1] = Garbage
      /\ \A j \in DOMAIN wire[p] : j > 1 => wire'[p][j] = wire[p][j]
      /\ wire'[q] = wire[q] /\ wire' \in [Peers -> Seq(Message)]
  <2>1. wire \in [Peers -> Seq(Message)]
    BY <1>0 DEF Types
  <2>2. wire'[p] = [wire[p] EXCEPT ![1] = Garbage] /\ wire'[q] = wire[q]
    BY <1>1, <1>2, <2>1
  <2>3. [wire[p] EXCEPT ![1] = Garbage] \in Seq(Message)
    BY <1>3, <1>7
  <2>4. wire' = [wire EXCEPT ![p] = [wire[p] EXCEPT ![1] = Garbage]]
    BY <1>2, <2>1
  <2>5. wire' \in [Peers -> Seq(Message)]
    BY <2>1, <2>3, <2>4
  <2> QED
    BY <1>3, <2>2, <2>3, <2>5
<1> HIDE DEF x, q
<1>9. garbled' = garbled \cup {k}
  BY <1>2, <1>3 DEF k
<1> HIDE DEF k
<1>10. WireOK'
  <2>1. ASSUME NEW j \in DOMAIN wire[p], j > 1
        PROVE  Sound(sent', garbled', p, wire'[p][j])
    <3>1. Sound(sent, garbled, p, wire[p][j])
      BY <1>0 DEF WireOK
    <3>2. CASE Idle(wire[p][j])
      BY <1>8, <2>1, <3>2 DEF Idle, Sound
    <3>3. CASE ~Idle(wire[p][j])
      <4>1. wire[p][j].number \in garbled' => wire[p][j].number \in garbled
        BY <2>1, <1>6, <1>9, <3>3
      <4> QED
        BY <1>2, <1>8, <2>1, <3>1, <4>1, SoundSpoiled
    <3> QED
      BY <3>2, <3>3
  <2>2. Sound(sent', garbled', p, wire'[p][1])
    BY <1>7, <1>8 DEF Idle, Sound
  <2>3. ASSUME NEW j \in DOMAIN wire[q]
        PROVE  Sound(sent', garbled', q, wire'[q][j])
    <3>1. Sound(sent, garbled, q, wire[q][j])
      BY <1>0, <1>1 DEF WireOK
    <3>2. CASE Idle(wire[q][j])
      BY <1>8, <3>2 DEF Idle, Sound
    <3>3. CASE ~Idle(wire[q][j])
      <4>1. wire[q][j].number \in garbled' => wire[q][j].number \in garbled
        BY <1>6, <1>9, <3>3
      <4> QED
        BY <1>2, <1>8, <3>1, <4>1, SoundSpoiled
    <3> QED
      BY <3>2, <3>3
  <2>4. \A j \in DOMAIN wire'[p] : j = 1 \/ j > 1
    BY <1>3, <1>8
  <2> QED
    BY <1>1, <1>8, <2>1, <2>2, <2>3, <2>4 DEF WireOK
<1>11. OrderOK'
  <2>1. \A i, j \in DOMAIN wire'[p] : i < j => Before(wire'[p][i], wire'[p][j])
    <3> TAKE i, j \in DOMAIN wire'[p]
    <3> HAVE i < j
    <3>1. i \in DOMAIN wire[p] /\ j \in DOMAIN wire[p] /\ j > 1
      BY <1>3, <1>8
    <3>2. CASE i = 1
      BY <1>7, <1>8, <3>2 DEF Idle, Before
    <3>3. CASE i > 1
      BY <1>0, <1>8, <3>1, <3>3 DEF OrderOK
    <3> QED
      BY <1>3, <3>1, <3>2, <3>3
  <2> QED
    BY <1>0, <1>1, <1>8, <2>1 DEF OrderOK
<1>12. Types'
  BY <1>0, <1>2, <1>6, <1>8, <1>9 DEF Types
<1>13. HandlersOK' /\ PendingOK'
  BY <1>0, <1>2, HandlersSame DEF PendingOK
<1>14. CallsOK'
  <2> SUFFICES ASSUME NEW j \in DOMAIN sent
               PROVE  CallOK(sent[j], j, garbled', pending)
    BY <1>2 DEF CallsOK
  <2>1. CallOK(sent[j], j, garbled, pending)
    BY <1>0 DEF CallsOK
  <2>2. CASE j = k
    <3>1. sent[k].kind = "request" =>
            ~(sent[k].by # Nothing /\ sent[k].answer = Nothing)
      <4>1. CASE IsCall(x)
        BY <1>5, <4>1 DEF Sound, Asks, k
      <4>2. CASE IsReply(x)
        <5>1. x.data # Nothing
          BY <1>3, <4>2, MessageFields DEF Data, ErrorCodes, Nothing
        <5> QED
          BY <1>5, <4>2, <5>1 DEF Sound, Replies, k
      <4> QED
        BY <1>4, <4>1, <4>2 DEF Idle
    <3> QED
      BY <2>1, <2>2, <3>1 DEF CallOK
  <2>3. CASE j # k
    BY <1>9, <2>1, <2>3 DEF CallOK
  <2> QED
    BY <2>2, <2>3
<1>15. NothingLost'
  <2> SUFFICES ASSUME NEW j \in DOMAIN sent
               PROVE  Found(sent[j], j, garbled', wire')
    BY <1>2 DEF NothingLost
  <2>1. CASE j = k
    BY <1>9, <2>1 DEF Found
  <2>2. CASE j # k
    <3>1. Stays(wire[p], wire'[p], 1)
      <4>1. \A i \in DOMAIN wire[p] : i > 1 => wire'[p][i] = wire[p][i]
        BY <1>8
      <4> QED
        BY <1>8, <4>1 DEF Stays
    <3>2. \A i \in DOMAIN wire[p] :
            ~(i > 1) => Idle(wire[p][i]) \/ wire[p][i].number # j
      BY <1>3, <2>2 DEF x, k
    <3>3. /\ CallIn(wire[p], j) => CallIn(wire'[p], j)
          /\ ReplyIn(wire[p], j) => ReplyIn(wire'[p], j)
      BY <3>1, <3>2, StaysIn
    <3>4. \A r \in Peers :
            /\ CallIn(wire[r], j) => CallIn(wire'[r], j)
            /\ ReplyIn(wire[r], j) => ReplyIn(wire'[r], j)
      BY <1>1, <1>8, <3>3
    <3>5. Found(sent[j], j, garbled, wire) /\ sent[j].from \in Peers
      BY <1>0, CallTypes DEF NothingLost
    <3>6. Found(sent[j], j, garbled, wire')
      BY <3>4, <3>5, FoundStays
    <3> QED
      BY <1>9, <3>6 DEF Found
  <2> QED
    BY <2>1, <2>2
<1> QED
  BY <1>10, <1>11, <1>12, <1>13, <1>14, <1>15 DEF Inv

\* A table of handlers that fits the methods.
TableOK(table) ==
  /\ table \in [Methods -> {"none", "request", "notification", "signal",
                            "null"}]
  /\ \A m \in Methods :
       /\ table[m] = "signal" => m \in Signals
       /\ table[m] \in {"request", "notification"} => m \in Registrable
       /\ table[m] = "request" => HandlerShape[m] \in Shapes

LEMMA ConfigureStep ==
  ASSUME Inv, NEW p \in Peers, Configure(p)
  PROVE  Inv'
<1>1. UNCHANGED <<lastId, pending, wire, sent, garbled>>
  BY DEF Configure
<1>2. /\ handlers \in [Peers -> [Methods -> {"none", "request",
                                 "notification", "signal", "null"}]]
      /\ \A r \in Peers : TableOK(handlers[r])
      /\ undispatched \in [Peers -> SUBSET {"request", "notification"}]
      /\ connected \in [Peers -> SUBSET Signals]
  BY DEF Inv, HandlersOK, TableOK
<1>3. HandlersOK'
  <2>1. ASSUME NEW table, TableOK(table),
               handlers' = [handlers EXCEPT ![p] = table],
               UNCHANGED <<undispatched, connected>>
        PROVE  HandlersOK'
    <3>1. /\ handlers' \in [Peers -> [Methods -> {"none", "request",
                                     "notification", "signal", "null"}]]
          /\ \A r \in Peers : TableOK(handlers'[r])
      BY <1>2, <2>1 DEF TableOK
    <3> QED
      BY <1>2, <2>1, <3>1 DEF HandlersOK, TableOK
  <2>2. ASSUME NEW m \in Registrable, NEW h \in {HandlerKind(m), "null"},
               RegisterHandler(p, m, h)
        PROVE  HandlersOK'
    <3>1. m \in Methods /\ (HandlerKind(m) = "request" =>
                               HandlerShape[m] \in Shapes)
      BY SessionAssumption DEF HandlerKind
    <3>2. h \in {"request", "notification", "null"}
      BY DEF HandlerKind
    <3>3. TableOK(Registered(handlers[p], m, h))
      BY <1>2, <3>1, <3>2 DEF TableOK, Registered
    <3> QED
      BY <2>1, <2>2, <3>3 DEF RegisterHandler
  <2>3. CASE RegisterSignals(p)
    <3> DEFINE table == [m \in Methods |->
                           IF m \in Signals
                           THEN Registered(handlers[p], m, "signal")[m]
                           ELSE handlers[p][m]]
    <3>1. TableOK(handlers[p])
      BY <1>2
    <3>2. \A m \in Methods : table[m] \in {handlers[p][m], "signal"}
                              /\ (m \notin Signals => table[m] = handlers[p][m])
      BY <3>1 DEF Registered, TableOK
    <3>3. TableOK(table)
      BY <3>1, <3>2 DEF TableOK
    <3> QED
      BY <2>1, <2>3, <3>3 DEF RegisterSignals
  <2>4. ASSUME NEW signals \in SUBSET Signals, ConnectSignals(p, signals)
        PROVE  HandlersOK'
    BY <1>2, <2>4 DEF ConnectSignals, HandlersOK, TableOK
  <2>5. ASSUME NEW kind \in {"request", "notification"},
               NEW h \in {"set", "null"}, RegisterUndispatched(p, kind, h)
        PROVE  HandlersOK'
    BY <1>2, <2>5 DEF RegisterUndispatched, HandlersOK, TableOK
  <2> QED
    BY <2>2, <2>3, <2>4, <2>5 DEF Configure
<1> QED
  BY <1>1, <1>3 DEF Inv, Types, WireOK, OrderOK, CallsOK, PendingOK,
                    NothingLost

---------------------------------------------------------------------------
\* The invariant holds.

LEMMA InitInv == Init => Inv
<1> SUFFICES ASSUME Init
             PROVE  Inv
  OBVIOUS
<1>1. HandlersOK
  BY DEF Init, HandlersOK
<1>2. Types
  BY SessionAssumption DEF Init, Types, Ids
<1>3. DOMAIN sent = {} /\ \A p \in Peers : DOMAIN wire[p] = {}
  BY DEF Init
<1>4. PendingOK
  BY DEF Init, PendingOK
<1> QED
  BY <1>1, <1>2, <1>3, <1>4 DEF Inv, WireOK, OrderOK, CallsOK, NothingLost

LEMMA NextInv == Inv /\ [Next]_vars => Inv'
<1> SUFFICES ASSUME Inv, [Next]_vars
             PROVE  Inv'
  OBVIOUS
<1>1. ASSUME NEW p \in Peers, Configure(p)
      PROVE  Inv'
  BY <1>1, ConfigureStep
<1>2. ASSUME NEW p \in Peers, NEW m \in Requests[p],
             \/ SendRequest(p, m)
             \/ \E id \in ExplicitIds : SendRequestWithId(p, id, m)
      PROVE  Inv'
  BY <1>2, SendRequestStep, SessionAssumption
<1>3. ASSUME NEW p \in Peers, NEW m \in Notifications[p],
             SendNotification(p, m)
      PROVE  Inv'
  BY <1>3, SendNotificationStep, SessionAssumption
<1>4. ASSUME NEW p \in Peers, Take(p)
      PROVE  Inv'
  BY <1>4, TakeRequestStep, TakeNotificationStep, TakeResponseStep,
     GarbageStep DEF Take
<1>5. ASSUME NEW p \in Peers, Garble(p)
      PROVE  Inv'
  BY <1>5, GarbleStep
<1>6. ASSUME NEW p \in Peers, NEW k \in DOMAIN sent,
             Answer(p, k) \/ SendPartialResponse(p, k)
      PROVE  Inv'
  BY <1>6, AnswerStep, SendNotificationStep, SessionAssumption
     DEF SendPartialResponse
<1>7. CASE UNCHANGED vars
  BY <1>7 DEF vars, Inv, HandlersOK, Types, WireOK, OrderOK, CallsOK,
              PendingOK, NothingLost
<1> QED
  BY <1>1, <1>2, <1>3, <1>4, <1>5, <1>6, <1>7 DEF Next

\* The invariant that the other theorems follow from.
THEOREM Invariance == Spec => []Inv
BY InitInv, NextInv, PTL DEF Spec

---------------------------------------------------------------------------
\* What the invariant shows.

LEMMA InvIsTypeOK == Inv => TypeOK
<1> SUFFICES ASSUME Inv
             PROVE  TypeOK
  OBVIOUS
<1>1. HandlersOK /\ Types
  BY DEF Inv
<1>2. \A k \in DOMAIN sent :
        sent[k] \in [from : Peers, kind : {"request", "notification"},
                     id : Ids \cup {NoId}, method : Methods, by : Places,
                     answer : Data \cup ErrorCodes \cup {Nothing},
                     outcome : {"result", Nothing} \cup ErrorCodes]
  <2>1. \A k \in DOMAIN sent : sent[k] \in CallRecord
    BY <1>1, CallTypes
  <2> QED
    BY <2>1 DEF CallRecord, AnswerOrNothing, Outcomes
<1> QED
  BY <1>1, <1>2 DEF HandlersOK, Types, TypeOK

LEMMA InvFindsCalls == Inv => AnswerFindsItsCall
<1> SUFFICES ASSUME Inv, NEW p \in Peers, NEW i \in DOMAIN wire[p],
                    wire[p][i].kind = "response"
             PROVE  LET k == wire[p][i].number IN
                    /\ sent[k].from = p /\ sent[k].kind = "request"
                    /\ wire[p][i].id = sent[k].id
                    /\ pending[p][wire[p][i].id] = k
  BY DEF AnswerFindsItsCall
<1>1. Replies(sent, garbled, p, wire[p][i])
  BY DEF Inv, WireOK, Sound, IsReply
<1>2. CallOK(sent[wire[p][i].number], wire[p][i].number, garbled, pending)
  BY <1>1 DEF Inv, CallsOK, Replies
<1> QED
  BY <1>1, <1>2 DEF Replies, CallOK

\* A request, or an answer, is on its way at most once.
LEMMA OnceInTransit ==
  ASSUME Inv, NEW p \in Peers, NEW kind \in {"request", "response"}, NEW k
  PROVE  Cardinality(InTransit(p, kind, k)) =
           IF \E i \in DOMAIN wire[p] : wire[p][i].kind = kind
                                         /\ wire[p][i].number = k
           THEN 1 ELSE 0
<1> DEFINE S == InTransit(p, kind, k)
<1>1. CASE S = {}
  BY <1>1, FS_EmptySet DEF InTransit
<1>2. ASSUME NEW i \in S
      PROVE  Cardinality(S) = 1
  <2>1. ASSUME NEW j \in S
        PROVE  j = i
    <3>1. /\ i \in DOMAIN wire[p] /\ j \in DOMAIN wire[p]
          /\ wire[p][i].kind = kind /\ wire[p][j].kind = kind
          /\ wire[p][i].number = k /\ wire[p][j].number = k
      BY <1>2, <2>1 DEF InTransit
    <3>2. i \in Nat /\ j \in Nat
      BY <3>1 DEF Inv, Types
    <3>3. ~Before(wire[p][i], wire[p][j]) /\ ~Before(wire[p][j], wire[p][i])
      <4>1. IsCall(wire[p][i]) => k \in Nat
        BY <3>1, CallTypes DEF Inv, WireOK, Sound, Asks
      <4>2. CASE kind = "request"
        BY <3>1, <4>1, <4>2 DEF Before, IsCall
      <4>3. CASE kind = "response"
        BY <3>1, <4>3 DEF Before, IsReply
      <4> QED
        BY <4>2, <4>3
    <3> QED
      BY <3>1, <3>2, <3>3 DEF Inv, OrderOK
  <2>2. S = {i}
    BY <1>2, <2>1
  <2> HIDE DEF S
  <2> QED
    BY <2>2, FS_Singleton
<1>3. (\E i \in DOMAIN wire[p] : wire[p][i].kind = kind
                                   /\ wire[p][i].number = k) <=> S # {}
  BY DEF InTransit
<1> HIDE DEF S
<1> QED
  BY <1>1, <1>2, <1>3 DEF S

LEMMA InvAccounts == Inv => CallsAccounted
<1> SUFFICES ASSUME Inv, NEW k \in DOMAIN sent, sent[k].kind = "request"
             PROVE  LET call == sent[k]
                        underway == Cardinality(InTransit(Other(call.from),
                                                          "request", k))
                        held == IF Held(Other(call.from), k) THEN 1 ELSE 0
                        back == Cardinality(InTransit(call.from,
                                                      "response", k))
                        waiting == call.outcome = Nothing
                    IN  /\ waiting = (pending[call.from][call.id] = k)
                        /\ underway + held + back =
                             IF waiting /\ k \notin garbled THEN 1 ELSE 0
  BY DEF CallsAccounted
<1> DEFINE p == sent[k].from
           q == Other(p)
           underway == Cardinality(InTransit(q, "request", k))
           held == IF Held(q, k) THEN 1 ELSE 0
           back == Cardinality(InTransit(p, "response", k))
           waiting == sent[k].outcome = Nothing
<1>1. /\ p \in Peers /\ q \in Peers /\ Other(q) = p
      /\ sent[k].by \in Places
  BY CallTypes, OtherPeer DEF Inv
<1>2. CallOK(sent[k], k, garbled, pending) /\ Found(sent[k], k, garbled, wire)
  BY DEF Inv, CallsOK, NothingLost
<1>3. \A i \in DOMAIN wire[q] :
        IsCall(wire[q][i]) /\ wire[q][i].number = k =>
          /\ wire[q][i].kind = "request" /\ sent[k].by = Nothing
          /\ waiting /\ k \notin garbled
  BY <1>1 DEF Inv, WireOK, Sound, Asks
<1>4. \A i \in DOMAIN wire[p] :
        IsReply(wire[p][i]) /\ wire[p][i].number = k =>
          /\ sent[k].by # Nothing /\ sent[k].answer # Nothing
          /\ waiting /\ k \notin garbled
  <2> SUFFICES ASSUME NEW i \in DOMAIN wire[p], IsReply(wire[p][i]),
                      wire[p][i].number = k
               PROVE  /\ sent[k].by # Nothing /\ sent[k].answer # Nothing
                      /\ waiting /\ k \notin garbled
    OBVIOUS
  <2>1. Replies(sent, garbled, p, wire[p][i]) /\ wire[p][i] \in Message
    BY <1>1 DEF Inv, WireOK, Sound, Types
  <2>2. wire[p][i].data # Nothing
    BY <2>1, MessageFields DEF Data, ErrorCodes, Nothing
  <2> QED
    BY <2>1, <2>2 DEF Replies
<1>5. underway = IF CallIn(wire[q], k) THEN 1 ELSE 0
  <2>1. CallIn(wire[q], k) <=>
          \E i \in DOMAIN wire[q] : wire[q][i].kind = "request"
                                      /\ wire[q][i].number = k
    BY <1>3 DEF CallIn, IsCall
  <2> QED
    BY <1>1, <2>1, OnceInTransit
<1>6. back = IF ReplyIn(wire[p], k) THEN 1 ELSE 0
  BY <1>1, OnceInTransit DEF ReplyIn, IsReply
<1>7. Held(q, k) <=> sent[k].by \in {"handler", "other"}
                       /\ sent[k].answer = Nothing
  BY <1>1 DEF Held
<1>8. CallIn(wire[q], k) => sent[k].by = Nothing /\ waiting /\ k \notin garbled
  BY <1>3 DEF CallIn
<1>9. ReplyIn(wire[p], k) => /\ sent[k].by # Nothing
                             /\ sent[k].answer # Nothing
                             /\ waiting /\ k \notin garbled
  BY <1>4 DEF ReplyIn
<1>10. waiting <=> pending[p][sent[k].id] = k
  BY <1>2 DEF CallOK
<1>11. /\ Held(q, k) => waiting /\ k \notin garbled
       /\ sent[k].by = Nothing => sent[k].answer = Nothing
       /\ sent[k].by = "nobody" => sent[k].answer # Nothing
  BY <1>2, <1>7 DEF CallOK, ErrorCodes, Nothing
<1>12. waiting /\ k \notin garbled =>
         /\ sent[k].by = Nothing => CallIn(wire[q], k)
         /\ sent[k].answer # Nothing => ReplyIn(wire[p], k)
  BY <1>2 DEF Found
<1> HIDE DEF p, q, underway, back, waiting
<1>13. underway + held + back = IF waiting /\ k \notin garbled THEN 1 ELSE 0
  <2>1. CASE ~(waiting /\ k \notin garbled)
    BY <1>5, <1>6, <1>8, <1>9, <1>11, <2>1
  <2>2. CASE waiting /\ k \notin garbled
    <3>1. CASE sent[k].by = Nothing
      BY <1>5, <1>6, <1>7, <1>9, <1>12, <2>2, <3>1 DEF Nothing
    <3>2. CASE sent[k].by # Nothing /\ sent[k].answer = Nothing
      BY <1>1, <1>5, <1>6, <1>7, <1>8, <1>9, <1>11, <2>2, <3>2 DEF Places
    <3>3. CASE sent[k].answer # Nothing
      BY <1>5, <1>6, <1>7, <1>8, <1>11, <1>12, <2>2, <3>3
    <3> QED
      BY <3>1, <3>2, <3>3
  <2> QED
    BY <2>1, <2>2
<1>14. waiting = (pending[p][sent[k].id] = k)
  BY <1>10 DEF waiting
<1> QED
  BY <1>13, <1>14 DEF p, q, underway, back, waiting

\* Handlers, ids, the map of pending requests and what became of each request
\* have the types of the code, with handlers only where they fit.
THEOREM TypeCorrect == Spec => []TypeOK
BY Invariance, InvIsTypeOK, PTL

\* A response on its way finds the entry of its own request, however many ids
\* there are and however they are counted or given.
THEOREM AnswersFindTheirCalls == Spec => []AnswerFindsItsCall
BY Invariance, InvFindsCalls, PTL

\* A request whose sender waits is in the map and in exactly one place, or its
\* bytes were spoiled; afterwards it is nowhere.
THEOREM NoCallIsLost == Spec => []CallsAccounted
BY Invariance, InvAccounts, PTL

---------------------------------------------------------------------------
(***************************************************************************)
(* The proof that a session implements RemoteCalls: its initial states are *)
(* initial states there, and each of its steps is a step or a stutter.     *)
(***************************************************************************)

\* What RemoteCalls sees of a call, and of all calls of the history.
PhaseOf(c) ==
  IF c.outcome # Nothing THEN "done"
  ELSE IF c.answer # Nothing THEN "answered"
  ELSE IF c.by # Nothing THEN "taken" ELSE "underway"
Seen(c, phase) ==
  [phase |-> phase, from |-> c.from, request |-> c.kind = "request",
   by |-> c.by, answer |-> c.answer, outcome |-> c.outcome]
Unsent == [phase |-> "unsent", from |-> Nothing, request |-> FALSE,
           by |-> Nothing, answer |-> Nothing, outcome |-> Nothing]
ItemOf(calls, k) == IF k \in DOMAIN calls
                    THEN Seen(calls[k], PhaseOf(calls[k])) ELSE Unsent
ItemsOf(calls) == [k \in 1..MaxSent |-> ItemOf(calls, k)]

LEMMA ItemsAre == CallItems = ItemsOf(sent) /\ CallItems' = ItemsOf(sent')
<1>1. \A k : Phase(k) = PhaseOf(sent[k])
  BY DEF Phase, PhaseOf
<1>2. \A k : CallItem(k) = ItemOf(sent, k)
  BY <1>1 DEF CallItem, ItemOf, Seen, Unsent
<1>3. \A k : Phase(k)' = PhaseOf(sent'[k])
  BY DEF Phase, PhaseOf
<1>4. \A k : CallItem(k)' = ItemOf(sent', k)
  BY <1>3 DEF CallItem, ItemOf, Seen, Unsent
<1> QED
  BY <1>2, <1>4 DEF CallItems, ItemsOf

LEMMA SeenFields ==
  ASSUME NEW c, NEW phase
  PROVE  /\ Seen(c, phase).phase = phase /\ Seen(c, phase).from = c.from
         /\ Seen(c, phase).request <=> c.kind = "request"
         /\ Seen(c, phase).by = c.by /\ Seen(c, phase).answer = c.answer
         /\ Seen(c, phase).outcome = c.outcome
BY DEF Seen

LEMMA UnsentFields ==
  /\ Unsent.phase = "unsent" /\ Unsent.from = Nothing
  /\ Unsent.by = Nothing
BY DEF Unsent

\* Only the record of call k changes, or it is added.
Only(calls, now, k) ==
  /\ k \in DOMAIN now /\ k \in 1..MaxSent
  /\ DOMAIN calls \subseteq DOMAIN now
  /\ \A j \in DOMAIN now \ {k} : j \in DOMAIN calls /\ now[j] = calls[j]

LEMMA OneItem ==
  ASSUME NEW k, Only(sent, sent', k)
  PROVE  /\ k \in 1..MaxSent
         /\ CallItems' = [CallItems EXCEPT ![k] =
                            Seen(sent'[k], PhaseOf(sent'[k]))]
<1>1. \A j \in 1..MaxSent \ {k} : ItemOf(sent', j) = ItemOf(sent, j)
  BY DEF ItemOf, Only
<1>2. ItemOf(sent', k) = Seen(sent'[k], PhaseOf(sent'[k]))
  BY DEF ItemOf, Only
<1>3. k \in 1..MaxSent
  BY DEF Only
<1> QED
  BY <1>1, <1>2, <1>3, ItemsAre DEF ItemsOf

LEMMA InitRefines == Init => Calls!Init
<1> SUFFICES ASSUME Init
             PROVE  Calls!Init
  OBVIOUS
<1>1. DOMAIN sent = {}
  BY DEF Init
<1>2. CallItems = [k \in 1..MaxSent |-> Unsent]
  BY <1>1, ItemsAre DEF ItemsOf, ItemOf
<1> QED
  BY <1>2 DEF Calls!Init, Calls!Unsent, Calls!Nothing, Unsent, Nothing


\* Items are told apart by their fields.
LEMMA SameItem ==
  ASSUME NEW x \in Calls!Item, NEW y \in Calls!Item,
         x.phase = y.phase, x.from = y.from, x.request = y.request,
         x.by = y.by, x.answer = y.answer, x.outcome = y.outcome
  PROVE  x = y
BY DEF Calls!Item

LEMMA ItemTypes ==
  /\ Unsent \in Calls!Item
  /\ \A c \in CallRecord : Seen(c, PhaseOf(c)) \in Calls!Item
<1>1. Unsent \in Calls!Item
  BY DEF Unsent, Calls!Item, Calls!Nothing, Nothing
<1>2. ASSUME NEW c \in CallRecord
      PROVE  Seen(c, PhaseOf(c)) \in Calls!Item
  <2>1. PhaseOf(c) \in {"unsent", "underway", "taken", "answered", "done"}
    BY DEF PhaseOf
  <2>2. /\ c.from \in Peers \cup {Nothing}
        /\ c.by \in {Nothing, "handler", "other", "nobody"}
        /\ c.answer \in ErrorCodes \cup Data \cup {Nothing}
        /\ c.outcome \in ErrorCodes \cup {"result", Nothing}
    BY DEF CallRecord, Places, AnswerOrNothing, Outcomes
  <2>3. (c.kind = "request") \in BOOLEAN
    OBVIOUS
  <2> QED
    BY <2>1, <2>2, <2>3 DEF Seen, Calls!Item, Calls!Nothing, Nothing
<1> QED
  BY <1>1, <1>2

LEMMA UnsentExcept ==
  ASSUME NEW p \in Peers, NEW request \in BOOLEAN
  PROVE  LET v == [Unsent EXCEPT !.phase = "underway", !.from = p,
                                 !.request = request]
             w == [Unsent EXCEPT !.phase = "done", !.from = p,
                                 !.request = TRUE,
                                 !.outcome = "InvalidRequest"]
         IN  /\ v \in Calls!Item /\ v.phase = "underway" /\ v.from = p
             /\ v.request = request
             /\ v.by = Nothing /\ v.answer = Nothing /\ v.outcome = Nothing
             /\ w \in Calls!Item /\ w.phase = "done" /\ w.from = p
             /\ w.request = TRUE
             /\ w.by = Nothing /\ w.answer = Nothing
             /\ w.outcome = "InvalidRequest"
<1>1. /\ Unsent \in Calls!Item
      /\ Unsent.by = Nothing /\ Unsent.answer = Nothing
      /\ Unsent.outcome = Nothing
  BY ItemTypes DEF Unsent
<1>2. "InvalidRequest" \in ErrorCodes
  BY DEF ErrorCodes
<1> QED
  BY <1>1, <1>2 DEF Calls!Item

\* A message that is sent, and a request that is not because its id is taken.
LEMMA SendRefines ==
  ASSUME Types, NEW c \in CallRecord, sent' = Append(sent, c),
         Number <= MaxSent, c.by = Nothing, c.answer = Nothing,
         \/ c.outcome = Nothing
         \/ c.outcome = "InvalidRequest" /\ c.kind = "request"
  PROVE  Calls!Next
<1> DEFINE k == Number
<1>1. /\ DOMAIN sent = 1 .. Len(sent) /\ Len(sent) \in Nat
      /\ k \in Nat \ {0} /\ k = Len(sent) + 1
      /\ DOMAIN sent' = 1 .. Len(sent) + 1 /\ sent'[k] = c
      /\ \A j \in DOMAIN sent : sent'[j] = sent[j]
  BY CallTypes, Appended DEF Types, Number
<1> HIDE DEF k
<1>2. k \in 1..MaxSent
  BY <1>1 DEF k, SessionAssumption, Types
<1>3. CallItems[k] = Unsent
  BY <1>1, <1>2, ItemsAre DEF ItemsOf, ItemOf
<1>4. ASSUME NEW j \in 1..MaxSent, j < k
      PROVE  CallItems[j].phase # "unsent"
  <2>1. j \in DOMAIN sent
    BY <1>1, <1>4
  <2>2. CallItems[j] = Seen(sent[j], PhaseOf(sent[j]))
    BY <2>1, ItemsAre DEF ItemsOf, ItemOf
  <2> QED
    BY <2>2, SeenFields DEF PhaseOf
<1>5. CallItems' = [CallItems EXCEPT ![k] = Seen(c, PhaseOf(c))]
  <2>1. Only(sent, sent', k)
    BY <1>1, <1>2 DEF Only
  <2> QED
    BY <1>1, <2>1, OneItem
<1>6. c.from \in Peers /\ (c.kind = "request") \in BOOLEAN
  BY DEF CallRecord
<1>7. CASE c.outcome = Nothing
  <2>1. \E request \in BOOLEAN :
          Seen(c, PhaseOf(c)) =
            [Unsent EXCEPT !.phase = "underway", !.from = c.from,
                           !.request = request]
    <3>1. PhaseOf(c) = "underway"
      BY <1>7 DEF PhaseOf
    <3>0. PICK request \in BOOLEAN : Seen(c, PhaseOf(c)).request = request
      BY ItemTypes DEF Calls!Item
    <3> DEFINE v == [Unsent EXCEPT !.phase = "underway", !.from = c.from,
                                   !.request = request]
               w == Seen(c, PhaseOf(c))
    <3>2. /\ w \in Calls!Item /\ w.phase = "underway" /\ w.from = c.from
          /\ w.request = request
          /\ w.by = Nothing /\ w.answer = Nothing /\ w.outcome = Nothing
      BY <1>7, <3>0, <3>1, ItemTypes, SeenFields
    <3>3. /\ v \in Calls!Item /\ v.phase = "underway" /\ v.from = c.from
          /\ v.request = request
          /\ v.by = Nothing /\ v.answer = Nothing /\ v.outcome = Nothing
      <4>1. /\ Unsent \in Calls!Item
            /\ Unsent.by = Nothing /\ Unsent.answer = Nothing
            /\ Unsent.outcome = Nothing
        BY ItemTypes DEF Unsent
      <4> HIDE DEF Unsent
      <4> QED
        BY <1>6, <3>0, <4>1 DEF Calls!Item
    <3> HIDE DEF v, w
    <3>4. w = v
      BY <3>2, <3>3, SameItem
    <3> QED
      BY <3>0, <3>4 DEF v, w
  <2>2. Calls!Send(k)
    BY <1>2, <1>3, <1>4, <1>5, <1>6, <2>1
       DEF Calls!Send, Calls!Unsent, Calls!Nothing, Unsent, Nothing
  <2> QED
    BY <1>2, <2>2 DEF Calls!Next
<1>8. CASE c.outcome = "InvalidRequest" /\ c.kind = "request"
  <2>1. Seen(c, PhaseOf(c)) =
          [Unsent EXCEPT !.phase = "done", !.from = c.from,
                         !.request = TRUE, !.outcome = "InvalidRequest"]
    <3>1. PhaseOf(c) = "done"
      BY <1>8 DEF PhaseOf, Nothing
    <3> DEFINE v == [Unsent EXCEPT !.phase = "done", !.from = c.from,
                                   !.request = TRUE,
                                   !.outcome = "InvalidRequest"]
               w == Seen(c, PhaseOf(c))
    <3>2. /\ w \in Calls!Item /\ w.phase = "done" /\ w.from = c.from
          /\ w.request = TRUE /\ w.by = Nothing /\ w.answer = Nothing
          /\ w.outcome = "InvalidRequest"
      BY <1>8, <3>1, ItemTypes, SeenFields
    <3>3. /\ v \in Calls!Item /\ v.phase = "done" /\ v.from = c.from
          /\ v.request = TRUE /\ v.by = Nothing /\ v.answer = Nothing
          /\ v.outcome = "InvalidRequest"
      BY <1>6, UnsentExcept
    <3> HIDE DEF v, w
    <3>4. w = v
      BY <3>2, <3>3, SameItem
    <3> QED
      BY <3>4 DEF v, w
  <2>2. Calls!Reject(k)
    BY <1>2, <1>3, <1>4, <1>5, <1>6, <2>1
       DEF Calls!Reject, Calls!Unsent, Calls!Nothing, Unsent, Nothing
  <2> QED
    BY <1>2, <2>2 DEF Calls!Next
<1> QED
  BY <1>7, <1>8

\* Item k becomes y, which is of the same call.
Becomes(k, y) ==
  /\ k \in 1..MaxSent /\ CallItems \in [1..MaxSent -> Calls!Item]
  /\ y \in Calls!Item
  /\ y.from = CallItems[k].from /\ y.request = CallItems[k].request
  /\ CallItems' = [CallItems EXCEPT ![k] = y]

LEMMA BecomesTaken ==
  ASSUME NEW k, NEW y, Becomes(k, y),
         y.phase = "taken", y.answer = CallItems[k].answer,
         y.outcome = CallItems[k].outcome
  PROVE  CallItems' = [CallItems EXCEPT ![k].phase = "taken", ![k].by = y.by]
<1> DEFINE x == CallItems[k]
           z == [x EXCEPT !.phase = "taken", !.by = y.by]
<1>1. /\ x \in Calls!Item
      /\ y.phase \in {"unsent", "underway", "taken", "answered", "done"}
      /\ y.by \in {Calls!Nothing, "handler", "other", "nobody"}
      /\ y.answer \in ErrorCodes \cup Data \cup {Calls!Nothing}
      /\ y.outcome \in ErrorCodes \cup {"result", Calls!Nothing}
  BY DEF Calls!Item, Becomes
<1>2. z \in Calls!Item
  BY <1>1 DEF Calls!Item
<1>3. /\ z.phase = y.phase /\ z.from = y.from /\ z.request = y.request
      /\ z.by = y.by /\ z.answer = y.answer /\ z.outcome = y.outcome
  BY <1>1 DEF Calls!Item, Becomes
<1>4. z = y
  BY <1>2, <1>3, SameItem DEF Becomes
<1> QED
  BY <1>4 DEF Becomes

LEMMA BecomesRefused ==
  ASSUME NEW k, NEW y, Becomes(k, y),
         y.phase = "answered", y.by = "nobody",
         y.outcome = CallItems[k].outcome
  PROVE  CallItems' = [CallItems EXCEPT ![k].phase = "answered",
                            ![k].by = "nobody", ![k].answer = y.answer]
<1> DEFINE x == CallItems[k]
           z == [x EXCEPT !.phase = "answered", !.by = "nobody",
                     !.answer = y.answer]
<1>1. /\ x \in Calls!Item
      /\ y.phase \in {"unsent", "underway", "taken", "answered", "done"}
      /\ y.by \in {Calls!Nothing, "handler", "other", "nobody"}
      /\ y.answer \in ErrorCodes \cup Data \cup {Calls!Nothing}
      /\ y.outcome \in ErrorCodes \cup {"result", Calls!Nothing}
  BY DEF Calls!Item, Becomes
<1>2. z \in Calls!Item
  BY <1>1 DEF Calls!Item
<1>3. /\ z.phase = y.phase /\ z.from = y.from /\ z.request = y.request
      /\ z.by = y.by /\ z.answer = y.answer /\ z.outcome = y.outcome
  BY <1>1 DEF Calls!Item, Becomes
<1>4. z = y
  BY <1>2, <1>3, SameItem DEF Becomes
<1> QED
  BY <1>4 DEF Becomes

LEMMA BecomesAnswered ==
  ASSUME NEW k, NEW y, Becomes(k, y),
         y.phase = "answered", y.by = CallItems[k].by,
         y.outcome = CallItems[k].outcome
  PROVE  CallItems' = [CallItems EXCEPT ![k].phase = "answered",
                                        ![k].answer = y.answer]
<1> DEFINE x == CallItems[k]
           z == [x EXCEPT !.phase = "answered", !.answer = y.answer]
<1>1. /\ x \in Calls!Item
      /\ y.phase \in {"unsent", "underway", "taken", "answered", "done"}
      /\ y.by \in {Calls!Nothing, "handler", "other", "nobody"}
      /\ y.answer \in ErrorCodes \cup Data \cup {Calls!Nothing}
      /\ y.outcome \in ErrorCodes \cup {"result", Calls!Nothing}
  BY DEF Calls!Item, Becomes
<1>2. z \in Calls!Item
  BY <1>1 DEF Calls!Item
<1>3. /\ z.phase = y.phase /\ z.from = y.from /\ z.request = y.request
      /\ z.by = y.by /\ z.answer = y.answer /\ z.outcome = y.outcome
  BY <1>1 DEF Calls!Item, Becomes
<1>4. z = y
  BY <1>2, <1>3, SameItem DEF Becomes
<1> QED
  BY <1>4 DEF Becomes

LEMMA BecomesDone ==
  ASSUME NEW k, NEW y, Becomes(k, y),
         y.phase = "done", y.by = CallItems[k].by,
         y.answer = CallItems[k].answer
  PROVE  CallItems' = [CallItems EXCEPT ![k].phase = "done",
                                        ![k].outcome = y.outcome]
<1> DEFINE x == CallItems[k]
           z == [x EXCEPT !.phase = "done", !.outcome = y.outcome]
<1>1. /\ x \in Calls!Item
      /\ y.phase \in {"unsent", "underway", "taken", "answered", "done"}
      /\ y.by \in {Calls!Nothing, "handler", "other", "nobody"}
      /\ y.answer \in ErrorCodes \cup Data \cup {Calls!Nothing}
      /\ y.outcome \in ErrorCodes \cup {"result", Calls!Nothing}
  BY DEF Calls!Item, Becomes
<1>2. z \in Calls!Item
  BY <1>1 DEF Calls!Item
<1>3. /\ z.phase = y.phase /\ z.from = y.from /\ z.request = y.request
      /\ z.by = y.by /\ z.answer = y.answer /\ z.outcome = y.outcome
  BY <1>1 DEF Calls!Item, Becomes
<1>4. z = y
  BY <1>2, <1>3, SameItem DEF Becomes
<1> QED
  BY <1>4 DEF Becomes

\* The record of a call changes, and its item with it.
Changed(calls, now, k) ==
  /\ k \in DOMAIN calls /\ DOMAIN now = DOMAIN calls
  /\ now[k] \in CallRecord
  /\ now[k].from = calls[k].from /\ now[k].kind = calls[k].kind
  /\ \A j \in DOMAIN calls \ {k} : now[j] = calls[j]

LEMMA ChangedItem ==
  ASSUME Types, NEW k, Changed(sent, sent', k)
  PROVE  /\ Becomes(k, Seen(sent'[k], PhaseOf(sent'[k])))
         /\ CallItems[k] = Seen(sent[k], PhaseOf(sent[k]))
<1>1. Only(sent, sent', k)
  BY CallTypes, SessionAssumption DEF Only, Changed, Types
<1>2. \A j \in 1..MaxSent : ItemOf(sent, j) \in Calls!Item
  BY CallTypes, ItemTypes DEF ItemOf
<1>3. CallItems \in [1..MaxSent -> Calls!Item]
  BY <1>2, ItemsAre DEF ItemsOf
<1>4. k \in 1..MaxSent /\ CallItems[k] = Seen(sent[k], PhaseOf(sent[k]))
  BY <1>1, OneItem, ItemsAre DEF ItemsOf, ItemOf, Changed
<1>5. Seen(sent'[k], PhaseOf(sent'[k])) \in Calls!Item
  BY ItemTypes DEF Changed
<1>6. Seen(sent'[k], PhaseOf(sent'[k])).request
        = Seen(sent[k], PhaseOf(sent[k])).request
  BY DEF Changed, Seen
<1> QED
  BY <1>1, <1>3, <1>4, <1>5, <1>6, OneItem, SeenFields DEF Changed, Becomes

\* A call is taken in turn if nothing that its sender sent later has been.
LEMMA TakenInTurn ==
  ASSUME Types, NEW k \in DOMAIN sent,
         \A j \in DOMAIN sent : sent[j].from = sent[k].from /\ k < j
                                  => sent[j].by = Nothing
  PROVE  Calls!InTurn(k)
<1>1. k \in 1..MaxSent
  BY CallTypes, SessionAssumption DEF Types
<1>2. CallItems[k].from = sent[k].from
  BY <1>1, ItemsAre, SeenFields DEF ItemsOf, ItemOf
<1>3. ASSUME NEW j \in 1..MaxSent, j > k,
             CallItems[j].from = CallItems[k].from
      PROVE  CallItems[j].by = Nothing
  <2>1. CASE j \in DOMAIN sent
    <3>1. CallItems[j].from = sent[j].from /\ CallItems[j].by = sent[j].by
      BY <2>1, ItemsAre, SeenFields DEF ItemsOf, ItemOf
    <3> QED
      BY <1>1, <1>2, <1>3, <2>1, <3>1
  <2>2. CASE j \notin DOMAIN sent
    BY <2>2, ItemsAre, UnsentFields DEF ItemsOf, ItemOf
  <2> QED
    BY <2>1, <2>2
<1> QED
  BY <1>3 DEF Calls!InTurn, Calls!Nothing, Nothing

LEMMA TakeRequestRefines ==
  ASSUME Inv, NEW p \in Peers, TakeRequest(p)
  PROVE  Calls!Next
<1> DEFINE x == wire[p][1]
           k == x.number
<1>0. Types /\ CallsOK
  BY DEF Inv
<1>1. x.kind = "request" /\ Asks(sent, garbled, p, x)
  BY TakeRequestFacts
<1>2. PICK by \in {"handler", "other", "nobody"}, error \in ErrorCodes :
        RequestTaken(p, x, by, error)
  BY TakeRequestFacts
<1> DEFINE answer == IF by = "nobody" THEN error ELSE Nothing
           s == [sent EXCEPT ![k].by = by]
<1>3. /\ k \in DOMAIN sent /\ sent[k].kind = "request"
      /\ sent[k].by = Nothing /\ sent[k].outcome = Nothing
      /\ sent[k].from = Other(p)
      /\ \A j \in DOMAIN sent : sent[j].from = sent[k].from /\ k < j
                                  => sent[j].by = Nothing
  BY <1>1 DEF Asks
<1>4. sent[k].answer = Nothing
  BY <1>0, <1>3 DEF CallsOK, CallOK
<1> HIDE DEF x, k
<1>5. /\ answer \in AnswerOrNothing /\ by \in Places /\ by # Nothing
      /\ by = "nobody" => answer = error /\ error # Nothing
      /\ by # "nobody" => answer = Nothing
  BY <1>2 DEF AnswerOrNothing, Places, ErrorCodes, Nothing
<1>6. sent' = [s EXCEPT ![k].answer = answer]
  BY <1>2 DEF RequestTaken, k
<1> HIDE DEF answer
<1>7. /\ s \in Seq(CallRecord) /\ DOMAIN s = DOMAIN sent
      /\ \A j \in DOMAIN sent \ {k} : s[j] = sent[j]
      /\ s[k].by = by /\ s[k].from = sent[k].from
      /\ s[k].kind = sent[k].kind /\ s[k].outcome = sent[k].outcome
  BY <1>0, <1>3, <1>5, SetBy DEF Types
<1> HIDE DEF s
<1>8. /\ DOMAIN sent' = DOMAIN sent
      /\ \A j \in DOMAIN sent \ {k} : sent'[j] = sent[j]
      /\ sent'[k] \in CallRecord /\ sent'[k].answer = answer
      /\ sent'[k].by = by /\ sent'[k].from = sent[k].from
      /\ sent'[k].kind = sent[k].kind /\ sent'[k].outcome = sent[k].outcome
  BY <1>3, <1>5, <1>6, <1>7, SetAnswer
<1> DEFINE a == Seen(sent[k], PhaseOf(sent[k]))
           b == Seen(sent'[k], PhaseOf(sent'[k]))
<1>9. Changed(sent, sent', k)
  BY <1>3, <1>8 DEF Changed
<1>10. Becomes(k, b) /\ CallItems[k] = a
  BY <1>0, <1>9, ChangedItem
<1>11. /\ a.phase = "underway" /\ a.request /\ a.answer = Nothing
       /\ a.outcome = Nothing /\ b.by = by /\ b.answer = answer
       /\ b.outcome = Nothing
       /\ b.phase = IF by = "nobody" THEN "answered" ELSE "taken"
  BY <1>3, <1>4, <1>5, <1>8, SeenFields DEF PhaseOf
<1>12. Calls!InTurn(k) /\ k \in 1..MaxSent
  BY <1>0, <1>3, <1>10, TakenInTurn DEF Becomes
<1> HIDE DEF a, b
<1>13. CASE by = "nobody"
  <2>1. CallItems' = [CallItems EXCEPT ![k].phase = "answered",
                        ![k].by = "nobody", ![k].answer = error]
    <3>1. /\ b.phase = "answered" /\ b.by = "nobody" /\ b.answer = error
          /\ b.outcome = CallItems[k].outcome
      BY <1>5, <1>10, <1>11, <1>13
    <3> QED
      BY <1>10, <3>1, BecomesRefused
  <2>2. Calls!Refuse(k)
    BY <1>2, <1>10, <1>11, <1>12, <2>1 DEF Calls!Refuse
  <2> QED
    BY <1>12, <2>2 DEF Calls!Next
<1>14. CASE by # "nobody"
  <2>1. CallItems' = [CallItems EXCEPT ![k].phase = "taken", ![k].by = by]
    <3>1. /\ b.phase = "taken" /\ b.by = by
          /\ b.answer = CallItems[k].answer
          /\ b.outcome = CallItems[k].outcome
      BY <1>5, <1>10, <1>11, <1>14
    <3> QED
      BY <1>10, <3>1, BecomesTaken
  <2>2. Calls!Take(k)
    BY <1>2, <1>10, <1>11, <1>12, <2>1 DEF Calls!Take
  <2> QED
    BY <1>12, <2>2 DEF Calls!Next
<1> QED
  BY <1>13, <1>14

LEMMA TakeNotificationRefines ==
  ASSUME Inv, NEW p \in Peers, TakeNotification(p)
  PROVE  Calls!Next
<1> DEFINE x == wire[p][1]
           k == x.number
           by == Hears(p, x.method)
<1>0. Types /\ CallsOK /\ WireOK
  BY DEF Inv
<1>1. /\ wire[p] # <<>> /\ Head(wire[p]).kind = "notification"
      /\ sent' = [sent EXCEPT ![Head(wire[p]).number].by =
                    Hears(p, Head(wire[p]).method)]
  BY DEF TakeNotification, Incoming
<1>2. x = Head(wire[p]) /\ 1 \in DOMAIN wire[p]
  BY <1>0, <1>1, Removed DEF Types
<1>3. /\ Asks(sent, garbled, p, x) /\ x.kind = "notification"
      /\ sent' = [sent EXCEPT ![k].by = by]
  BY <1>0, <1>1, <1>2 DEF WireOK, Sound, IsCall
<1>4. /\ k \in DOMAIN sent /\ sent[k].kind = "notification"
      /\ sent[k].by = Nothing /\ sent[k].from = Other(p)
      /\ \A j \in DOMAIN sent : sent[j].from = sent[k].from /\ k < j
                                  => sent[j].by = Nothing
  BY <1>3 DEF Asks
<1>5. sent[k].answer = Nothing /\ sent[k].outcome = Nothing
  BY <1>0, <1>4 DEF CallsOK, CallOK
<1>6. /\ by \in {"handler", "other", "nobody"} /\ by \in Places
      /\ by # Nothing
  BY DEF Hears, Places, Nothing
<1> HIDE DEF x, k, by
<1>7. /\ DOMAIN sent' = DOMAIN sent
      /\ \A j \in DOMAIN sent \ {k} : sent'[j] = sent[j]
      /\ sent'[k] \in CallRecord /\ sent'[k].answer = sent[k].answer
      /\ sent'[k].by = by /\ sent'[k].from = sent[k].from
      /\ sent'[k].kind = sent[k].kind /\ sent'[k].outcome = sent[k].outcome
  BY <1>0, <1>3, <1>4, <1>6, SetBy DEF Types
<1> DEFINE a == Seen(sent[k], PhaseOf(sent[k]))
           b == Seen(sent'[k], PhaseOf(sent'[k]))
<1>8. Changed(sent, sent', k)
  BY <1>4, <1>7 DEF Changed
<1>9. Becomes(k, b) /\ CallItems[k] = a
  BY <1>0, <1>8, ChangedItem
<1>10. /\ a.phase = "underway" /\ a.answer = Nothing /\ a.outcome = Nothing
       /\ b.by = by /\ b.answer = Nothing /\ b.outcome = Nothing
       /\ b.phase = "taken"
  BY <1>4, <1>5, <1>6, <1>7, SeenFields DEF PhaseOf
<1>11. Calls!InTurn(k) /\ k \in 1..MaxSent
  BY <1>0, <1>4, <1>9, TakenInTurn DEF Becomes
<1> HIDE DEF a, b
<1>12. CallItems' = [CallItems EXCEPT ![k].phase = "taken", ![k].by = by]
  BY <1>9, <1>10, BecomesTaken, ZenonT(60)
<1>13. Calls!Take(k)
  BY <1>6, <1>9, <1>10, <1>11, <1>12 DEF Calls!Take
<1> QED
  BY <1>11, <1>13 DEF Calls!Next

\* The sender is told what RemoteCalls lets it be told.
LEMMA DecodedIsTold ==
  ASSUME Types, CallsOK, NEW k \in DOMAIN sent, sent[k].kind = "request",
         sent[k].by # Nothing, sent[k].answer # Nothing
  PROVE  Decoded(RequestShape[sent[k].method], sent[k].answer)
           \subseteq Calls!Told(sent[k].by, sent[k].answer)
<1> DEFINE m == sent[k].method
           by == sent[k].by
           data == sent[k].answer
<1>1. /\ m \in Methods /\ data \in Data \cup ErrorCodes
      /\ by \in {"handler", "other", "nobody"}
  BY CallTypes DEF AnswerOrNothing, Places
<1>2. /\ by = "nobody" => data \in ErrorCodes
      /\ by = "handler" =>
           /\ HandlerShape[m] \in Shapes
           /\ data \in ErrorCodes \cup Fitting(HandlerShape[m])
  BY DEF CallsOK, CallOK
<1>3. RequestShape[m] \in Shapes
  BY <1>1, SessionAssumption
<1>4. by = "handler" => HandlerShape[m] = RequestShape[m]
  <2>1. "none" \notin Shapes
    BY DEF Shapes
  <2> QED
    BY <1>1, <1>2, <2>1, SessionAssumption
<1> HIDE DEF m, by, data
<1>5. CASE data \in ErrorCodes
  <2>1. Decoded(RequestShape[m], data) = {data}
    BY <1>3, <1>5 DEF Decoded, Fitting, Data, ErrorCodes, Shapes
  <2>2. Calls!Told(by, data) = {data}
    BY <1>5 DEF Calls!Told
  <2> QED
    BY <2>1, <2>2 DEF m, by, data
<1>6. CASE data \notin ErrorCodes /\ by = "handler"
  <2>1. data \in Fitting(RequestShape[m])
    BY <1>2, <1>4, <1>6
  <2>2. Decoded(RequestShape[m], data) = {"result"}
    BY <1>6, <2>1 DEF Decoded
  <2>3. Calls!Told(by, data) = {"result"}
    BY <1>6 DEF Calls!Told
  <2> QED
    BY <2>2, <2>3 DEF m, by, data
<1>7. CASE data \notin ErrorCodes /\ by # "handler"
  <2>1. Calls!Told(by, data) = {"result", "ParseError"}
    BY <1>7 DEF Calls!Told
  <2>2. Decoded(RequestShape[m], data) \subseteq {"result", "ParseError"}
    BY <1>1, <1>3, <1>7 DEF Decoded, Fitting, Shapes, Data
  <2> QED
    BY <2>1, <2>2 DEF m, by, data
<1> QED
  BY <1>5, <1>6, <1>7

LEMMA TakeResponseRefines ==
  ASSUME Inv, NEW p \in Peers, TakeResponse(p)
  PROVE  Calls!Next
<1> DEFINE x == wire[p][1]
           k == x.number
<1>0. Types /\ CallsOK
  BY DEF Inv
<1>1. /\ k \in DOMAIN sent /\ sent[k].kind = "request"
      /\ sent[k].answer = x.data /\ sent[k].by # Nothing
      /\ sent[k].outcome = Nothing /\ sent[k].answer # Nothing
  BY TakeResponseFacts
<1>2. PICK told \in {"result"} \cup ErrorCodes : ResponseTaken(p, x, told)
  BY TakeResponseFacts
<1>3. told \in Calls!Told(sent[k].by, sent[k].answer)
  BY <1>0, <1>1, <1>2, DecodedIsTold DEF ResponseTaken
<1>4. sent' = [sent EXCEPT ![k].outcome = told]
  BY <1>2 DEF ResponseTaken
<1> HIDE DEF x, k
<1>5. told \in Outcomes /\ told # Nothing
  BY <1>2 DEF Outcomes, ErrorCodes, Nothing
<1>6. /\ DOMAIN sent' = DOMAIN sent
      /\ \A j \in DOMAIN sent \ {k} : sent'[j] = sent[j]
      /\ sent'[k] \in CallRecord /\ sent'[k].outcome = told
      /\ sent'[k].by = sent[k].by /\ sent'[k].from = sent[k].from
      /\ sent'[k].kind = sent[k].kind /\ sent'[k].answer = sent[k].answer
  BY <1>0, <1>1, <1>4, <1>5, SetOutcome DEF Types
<1> DEFINE a == Seen(sent[k], PhaseOf(sent[k]))
           b == Seen(sent'[k], PhaseOf(sent'[k]))
<1>7. Changed(sent, sent', k)
  BY <1>1, <1>6 DEF Changed
<1>8. Becomes(k, b) /\ CallItems[k] = a
  BY <1>0, <1>7, ChangedItem
<1>9. /\ a.phase = "answered" /\ a.by = sent[k].by
      /\ a.answer = sent[k].answer
      /\ b.phase = "done" /\ b.by = a.by /\ b.answer = a.answer
      /\ b.outcome = told
  BY <1>1, <1>5, <1>6, SeenFields DEF PhaseOf
<1> HIDE DEF a, b
<1>10. CallItems' = [CallItems EXCEPT ![k].phase = "done",
                                      ![k].outcome = told]
  BY <1>8, <1>9, BecomesDone
<1>11. Calls!Complete(k)
  BY <1>3, <1>8, <1>9, <1>10 DEF Calls!Complete
<1> QED
  BY <1>8, <1>11 DEF Calls!Next, Becomes

LEMMA AnswerRefines ==
  ASSUME Inv, NEW p \in Peers, NEW k \in DOMAIN sent, Answer(p, k)
  PROVE  Calls!Next
<1>0. Types /\ CallsOK /\ WireOK
  BY DEF Inv
<1>1. /\ Held(p, k) /\ sent[k].kind = "request" /\ sent[k].answer = Nothing
      /\ sent[k].by # Nothing
  BY DEF Answer, Held, Nothing
<1>2. sent[k].outcome = Nothing
  BY <1>0, <1>1, HeldNowhereElse
<1>3. PICK data \in Answers(k) \cup {"RequestFailed", "InternalError"} :
        sent' = [sent EXCEPT ![k].answer = data]
  BY DEF Answer
<1>4. data \in ErrorCodes \cup Data
  BY <1>0, <1>1, <1>3, AnswersType DEF ErrorCodes
<1>5. data \in AnswerOrNothing /\ data # Nothing
  BY <1>4 DEF AnswerOrNothing, Data, ErrorCodes, Nothing
<1>6. /\ DOMAIN sent' = DOMAIN sent
      /\ \A j \in DOMAIN sent \ {k} : sent'[j] = sent[j]
      /\ sent'[k] \in CallRecord /\ sent'[k].answer = data
      /\ sent'[k].by = sent[k].by /\ sent'[k].from = sent[k].from
      /\ sent'[k].kind = sent[k].kind /\ sent'[k].outcome = sent[k].outcome
  BY <1>0, <1>3, <1>5, SetAnswer DEF Types
<1> DEFINE a == Seen(sent[k], PhaseOf(sent[k]))
           b == Seen(sent'[k], PhaseOf(sent'[k]))
<1>7. Changed(sent, sent', k)
  BY <1>6 DEF Changed
<1>8. Becomes(k, b) /\ CallItems[k] = a
  BY <1>0, <1>7, ChangedItem
<1>9. /\ a.phase = "taken" /\ a.request /\ b.phase = "answered"
      /\ b.by = a.by /\ b.answer = data /\ b.outcome = a.outcome
  BY <1>1, <1>2, <1>5, <1>6, SeenFields DEF PhaseOf
<1> HIDE DEF a, b
<1>10. CallItems' = [CallItems EXCEPT ![k].phase = "answered",
                                      ![k].answer = data]
  BY <1>8, <1>9, BecomesAnswered
<1>11. Calls!Answer(k)
  BY <1>4, <1>8, <1>9, <1>10 DEF Calls!Answer
<1> QED
  BY <1>8, <1>11 DEF Calls!Next, Becomes

LEMMA SendNotificationRefines ==
  ASSUME Types, NEW p \in Peers, NEW m \in Methods, SendNotification(p, m)
  PROVE  Calls!Next
<1> DEFINE c == Sent(p, "notification", NoId, m, Nothing)
<1>1. /\ c \in CallRecord /\ c.by = Nothing /\ c.answer = Nothing
      /\ c.outcome = Nothing
  BY DEF Sent, CallRecord, Places, AnswerOrNothing, Outcomes, Nothing
<1>2. Number <= MaxSent /\ sent' = Append(sent, c)
  BY DEF SendNotification
<1> HIDE DEF c
<1> QED
  BY <1>1, <1>2, SendRefines

LEMMA SendRequestRefines ==
  ASSUME Types, NEW p \in Peers, NEW id \in Ids, NEW m \in Methods,
         SendRequestId(p, id, m)
  PROVE  Calls!Next
<1> DEFINE outcome == IF Free(p, id) THEN Nothing ELSE "InvalidRequest"
           c == Sent(p, "request", id, m, outcome)
<1>1. /\ c \in CallRecord /\ c.by = Nothing /\ c.answer = Nothing
      /\ c.kind = "request" /\ c.outcome \in {Nothing, "InvalidRequest"}
  BY DEF Sent, CallRecord, Places, AnswerOrNothing, Outcomes, Nothing,
         ErrorCodes
<1>2. Number <= MaxSent /\ sent' = Append(sent, c)
  BY DEF SendRequestId
<1> HIDE DEF c
<1> QED
  BY <1>1, <1>2, SendRefines

LEMMA NextRefines == Inv /\ [Next]_vars => [Calls!Next]_CallItems
<1> SUFFICES ASSUME Inv, [Next]_vars
             PROVE  Calls!Next \/ CallItems' = CallItems
  OBVIOUS
<1>0. Types
  BY DEF Inv
<1>1. ASSUME sent' = sent
      PROVE  CallItems' = CallItems
  BY <1>1, ItemsAre
<1>2. CASE UNCHANGED vars
  BY <1>1, <1>2 DEF vars
<1>3. ASSUME NEW p \in Peers, Configure(p) \/ Garble(p)
      PROVE  CallItems' = CallItems
  BY <1>1, <1>3 DEF Configure, Garble
<1>4. ASSUME NEW p \in Peers, NEW m \in Requests[p],
             SendRequest(p, m) \/ \E id \in ExplicitIds :
                                    SendRequestWithId(p, id, m)
      PROVE  Calls!Next
  <2>1. m \in Methods
    BY SessionAssumption
  <2>2. CASE SendRequest(p, m)
    <3>1. NextId(p) \in Ids
      BY <1>0, SessionAssumption DEF Types, NextId, Ids
    <3> QED
      BY <1>0, <2>1, <2>2, <3>1, SendRequestRefines DEF SendRequest
  <2>3. ASSUME NEW id \in ExplicitIds, SendRequestWithId(p, id, m)
        PROVE  Calls!Next
    BY <1>0, <2>1, <2>3, SendRequestRefines DEF SendRequestWithId, Ids
  <2> QED
    BY <1>4, <2>2, <2>3
<1>5. ASSUME NEW p \in Peers, NEW m \in Notifications[p],
             SendNotification(p, m)
      PROVE  Calls!Next
  BY <1>0, <1>5, SendNotificationRefines, SessionAssumption
<1>6. ASSUME NEW p \in Peers, Take(p)
      PROVE  Calls!Next \/ CallItems' = CallItems
  BY <1>1, <1>6, TakeRequestRefines, TakeNotificationRefines,
     TakeResponseRefines DEF Take, TakeGarbage, TakeParseErrorAnswer
<1>7. ASSUME NEW p \in Peers, NEW k \in DOMAIN sent,
             Answer(p, k) \/ SendPartialResponse(p, k)
      PROVE  Calls!Next
  BY <1>0, <1>7, AnswerRefines, SendNotificationRefines, SessionAssumption
     DEF SendPartialResponse
<1> QED
  BY <1>2, <1>3, <1>4, <1>5, <1>6, <1>7 DEF Next

\* Every behaviour of a session is one of RemoteCalls: a request or
\* notification is taken at most once and in the order of its sender, and the
\* sender of a request is told what was answered to that request.
THEOREM Refinement == Spec => ImplementsRemoteCalls
<1>1. Init => Calls!Init
  BY InitRefines
<1>2. Inv /\ [Next]_vars => [Calls!Next]_CallItems
  BY NextRefines
<1> QED
  BY <1>1, <1>2, Invariance, PTL DEF Spec, ImplementsRemoteCalls, Calls!Spec

=============================================================================
