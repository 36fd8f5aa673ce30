----------------------- MODULE HttpStreamParserProofs -----------------------
(***************************************************************************)
(* Proofs about HttpStreamParser, for every set of feeds: whatever bytes   *)
(* come, in whatever chunks, also in chunks that are parsed while a body   *)
(* handler of an earlier one runs.                                         *)
(*                                                                         *)
(* TokensStartAtData and BodyAsLongAsAnnounced are about the moment a      *)
(* token is taken from a chunk and a body is handed on.  What makes them   *)
(* true is kept between those moments: a call of receiveData that waits    *)
(* for the body handler it called has nothing before its position          *)
(* (CallsInv), the header is empty from the end of its block until the     *)
(* next one begins (HeaderInv), and the packet holds the bytes counted in  *)
(* packetSize, fewer than announced (BodyInv).                             *)
(***************************************************************************)
EXTENDS HttpStreamParser, HttpStreamProofs

---------------------------------------------------------------------------
\* The inductive invariant.

Calls == [data : Seq(Bytes), pos : Nat, user : BOOLEAN, done : BOOLEAN]
Settled(call) == call.pos < Len(call.data) => call.pos = 0
SettledStates == {"PreHeader", "InHeaderField", "InHeaderValue", "InBody"}

\* A call in progress; and the innermost one, in state s of the parser.
GoodCall(call, nested) ==
  /\ call \in Calls
  /\ call.pos <= Len(call.data)
  /\ call.user => nested
  /\ call.user => Settled(call)
GoodTop(call, nested, s) ==
  /\ GoodCall(call, nested)
  /\ s \in SettledStates => Settled(call)

GoodCalls(stack, nested, s) ==
  /\ stack \in Seq(Calls)
  /\ stack # <<>> => GoodTop(stack[1], nested, s)
  /\ \A i \in 2..Len(stack) : GoodCall(stack[i], nested) /\ Settled(stack[i])

FeedInv ==
  /\ feed \in Feeds /\ mode \in {"BUFFERED", "UNBUFFERED"}
  /\ given \in 0..Len(feed.stream)
CallsInv == GoodCalls(calls, feed.nested, state)

HeaderInv ==
  /\ field \in Seq(Bytes) /\ value \in Seq(Bytes)
  /\ headers \in Seq(Seq(Bytes) \X Seq(Bytes))
  /\ contentSize \in Int
  /\ state \in {"PreHeader", "InBody"} => field = <<>> /\ value = <<>>

\* The packet of a buffered parser, and each body it has handed on.
GoodPacket(bytes, size, announced, s) ==
  /\ Len(bytes) = size
  /\ s = "InBody" => size = 0 \/ size < announced
GoodBody(body) ==
  Len(body.bytes) = IF body.size < 0 THEN 0 ELSE body.size

BodyInv ==
  /\ packet \in Seq(Bytes) /\ packetSize \in Nat
  /\ bodies \in Seq([size : Int, bytes : Seq(Bytes)])
  /\ mode = "BUFFERED" =>
       /\ GoodPacket(packet, packetSize, contentSize, state)
       /\ \A i \in 1..Len(bodies) : GoodBody(bodies[i])

FaultInv == overread \in BOOLEAN /\ aborted \in BOOLEAN /\ warnings \in Nat

ParserInv ==
  /\ FeedInv /\ CallsInv /\ HeaderInv /\ BodyInv /\ FaultInv
  /\ state \in States

---------------------------------------------------------------------------
\* Sequences and numbers.

\* Scan's CHOOSE has a value: the first position at which to stop.
LEMMA ScanIs ==
  ASSUME data \in Seq(Bytes), dataPos \in 0..Len(data), NEW stops
  PROVE  /\ Scan(stops) \in dataPos..Len(data)
         /\ Scan(stops) < Len(data) => data[Scan(stops) + 1] \in stops
         /\ \A i \in dataPos..(Scan(stops) - 1) : data[i + 1] \notin stops
<1>. DEFINE S == {k \in dataPos..Len(data) :
                    k < Len(data) => data[k + 1] \in stops}
<1>1. S \in SUBSET Nat /\ S # {}
  OBVIOUS
<1>2. \E k \in S : \A i \in S : k <= i
  <2>. HIDE DEF S
  <2>. QED
    BY <1>1, Least
<1>3. PICK k \in S : \A i \in S : k <= i
  BY <1>2
<1>4. \A i \in dataPos..(k - 1) : data[i + 1] \notin stops
  <2>. SUFFICES ASSUME NEW i \in dataPos..(k - 1), data[i + 1] \in stops
                PROVE  FALSE
    OBVIOUS
  <2>1. i \in S /\ i < k
    OBVIOUS
  <2>. QED
    BY <1>3, <2>1
<1>. QED
  BY <1>3, <1>4 DEF Scan

LEMMA ScanBounds ==
  ASSUME data \in Seq(Bytes), dataPos \in 0..Len(data), NEW stops
  PROVE  Scan(stops) \in dataPos..Len(data)
  BY ScanIs

\* A part of the data.
LEMMA Part ==
  ASSUME NEW bytes \in Seq(Bytes), NEW m \in 1..(Len(bytes) + 1),
         NEW n \in 0..Len(bytes), n + 1 >= m
  PROVE  /\ SubSeq(bytes, m, n) \in Seq(Bytes)
         /\ Len(SubSeq(bytes, m, n)) = n + 1 - m
<1>1. \A i \in m..n : bytes[i] \in Bytes
  OBVIOUS
<1>. QED
  BY <1>1, SubSeqProperties

LEMMA SpacesCounted ==
  ASSUME NEW bytes \in Seq(Bytes)
  PROVE  SpacesIn(bytes) \in Nat
<1>1. IsFiniteSet(1..Len(bytes))
  BY FS_Interval
<1>2. IsFiniteSet({i \in 1..Len(bytes) : bytes[i] = SPACE})
  BY <1>1, FS_Subset
<1>. QED
  BY <1>2, FS_CardinalityType DEF SpacesIn

\* What the stack of calls becomes.
LEMMA TopReplaced ==
  ASSUME NEW stack, NEW nested, NEW s, GoodCalls(stack, nested, s),
         stack # <<>>,
         NEW call, NEW t, GoodTop(call, nested, t)
  PROVE  GoodCalls(<<call>> \o Tail(stack), nested, t)
<1>1. call \in Calls /\ stack \in Seq(Calls)
  BY DEF GoodCalls, GoodTop, GoodCall
<1>2. Tail(stack) \in Seq(Calls) /\ Len(Tail(stack)) = Len(stack) - 1
      /\ \A i \in 1..Len(Tail(stack)) : Tail(stack)[i] = stack[i + 1]
  BY <1>1, HeadTailProperties
<1>3. <<call>> \in Seq(Calls) /\ Len(<<call>>) = 1 /\ <<call>>[1] = call
  BY <1>1
<1>. DEFINE next == <<call>> \o Tail(stack)
<1>4. /\ next \in Seq(Calls) /\ Len(next) = Len(stack)
      /\ \A i \in 1..Len(stack) :
           next[i] = IF i <= 1 THEN call ELSE Tail(stack)[i - 1]
  BY <1>1, <1>2, <1>3, ConcatProperties
<1>5. next[1] = call /\ \A i \in 2..Len(next) : next[i] = stack[i]
  BY <1>1, <1>2, <1>4
<1>. QED
  BY <1>4, <1>5 DEF GoodCalls

LEMMA TopRemoved ==
  ASSUME NEW stack, NEW nested, NEW s, GoodCalls(stack, nested, s),
         stack # <<>>, NEW t
  PROVE  GoodCalls(Tail(stack), nested, t)
<1>1. stack \in Seq(Calls)
  BY DEF GoodCalls
<1>2. /\ Tail(stack) \in Seq(Calls) /\ Len(Tail(stack)) = Len(stack) - 1
      /\ \A i \in 1..Len(Tail(stack)) : Tail(stack)[i] = stack[i + 1]
  BY <1>1, HeadTailProperties
<1>3. \A i \in 1..Len(Tail(stack)) :
        GoodCall(Tail(stack)[i], nested) /\ Settled(Tail(stack)[i])
  BY <1>1, <1>2 DEF GoodCalls
<1>. QED
  BY <1>2, <1>3, EmptySeq DEF GoodCalls, GoodTop

LEMMA TopAdded ==
  ASSUME NEW stack, NEW nested, NEW s, GoodCalls(stack, nested, s),
         stack # <<>> => Head(stack).user,
         NEW call, NEW t, GoodTop(call, nested, t)
  PROVE  GoodCalls(<<call>> \o stack, nested, t)
<1>1. call \in Calls /\ stack \in Seq(Calls)
  BY DEF GoodCalls, GoodTop, GoodCall
<1>2. <<call>> \in Seq(Calls) /\ Len(<<call>>) = 1 /\ <<call>>[1] = call
  BY <1>1
<1>. DEFINE next == <<call>> \o stack
<1>3. /\ next \in Seq(Calls) /\ Len(next) = Len(stack) + 1
      /\ \A i \in 1..(Len(stack) + 1) :
           next[i] = IF i <= 1 THEN call ELSE stack[i - 1]
  BY <1>1, <1>2, ConcatProperties
<1>4. next[1] = call /\ \A i \in 2..Len(next) : next[i] = stack[i - 1]
  BY <1>1, <1>3
<1>5. \A i \in 1..Len(stack) : GoodCall(stack[i], nested) /\ Settled(stack[i])
  BY <1>1, HeadTailProperties DEF GoodCalls, GoodTop, GoodCall
<1>6. \A i \in 2..Len(next) : GoodCall(next[i], nested) /\ Settled(next[i])
  BY <1>1, <1>3, <1>4, <1>5
<1>. QED
  BY <1>3, <1>4, <1>6 DEF GoodCalls

---------------------------------------------------------------------------
\* The parts of the steps.

\* The innermost call, and where it stands.
LEMMA TopFacts ==
  ASSUME ParserInv, calls # <<>>
  PROVE  /\ GoodTop(Top, feed.nested, state)
         /\ data \in Seq(Bytes)
         /\ dataPos \in 0..Len(data)
<1>1. Top = calls[1] /\ calls \in Seq(Calls)
  BY DEF ParserInv, CallsInv, GoodCalls, Top
<1>2. GoodTop(Top, feed.nested, state)
  BY <1>1 DEF ParserInv, CallsInv, GoodCalls
<1>. QED
  BY <1>2 DEF GoodTop, GoodCall, data, dataPos, Calls

LEMMA LoopFacts ==
  ASSUME ParserInv, NEW s, InLoop(s)
  PROVE  /\ calls # <<>> /\ state = s
         /\ GoodTop(Top, feed.nested, state)
         /\ data \in Seq(Bytes)
         /\ dataPos \in 0..Len(data) /\ dataPos < Len(data)
         /\ s \in SettledStates => dataPos = 0
<1>1. calls # <<>> /\ state = s /\ dataPos < Len(data)
  BY DEF InLoop
<1>. QED
  BY <1>1, TopFacts DEF GoodTop, Settled, data, dataPos

\* A call goes on: at another position, or also with other data.
LEMMA PositionMoved ==
  ASSUME NEW call, NEW nested, NEW s, GoodTop(call, nested, s),
         NEW p \in 0..Len(call.data),
         NEW t, t \in SettledStates => p = 0 \/ p = Len(call.data)
  PROVE  GoodTop([call EXCEPT !.pos = p, !.user = FALSE], nested, t)
<1>. DEFINE next == [call EXCEPT !.pos = p, !.user = FALSE]
<1>1. call \in Calls /\ p \in Nat
  BY DEF GoodTop, GoodCall, Calls
<1>2. next \in Calls
  BY <1>1 DEF Calls
<1>3. next.data = call.data /\ next.pos = p /\ ~next.user
  BY <1>1 DEF Calls
<1>4. GoodTop(next, nested, t)
  <2>. HIDE DEF next
  <2>. QED
    BY <1>2, <1>3 DEF GoodTop, GoodCall, Settled
<1>. QED
  BY <1>4

LEMMA DataDropped ==
  ASSUME NEW call, NEW nested, NEW s, GoodTop(call, nested, s),
         NEW bytes \in Seq(Bytes), NEW p \in 0..Len(bytes),
         NEW t, t \in SettledStates => p = 0
  PROVE  GoodTop([call EXCEPT !.data = bytes, !.pos = p, !.user = FALSE],
                 nested, t)
<1>. DEFINE next == [call EXCEPT !.data = bytes, !.pos = p, !.user = FALSE]
<1>1. call \in Calls /\ p \in Nat
  BY DEF GoodTop, GoodCall, Calls
<1>2. next \in Calls
  BY <1>1 DEF Calls
<1>3. next.data = bytes /\ next.pos = p /\ ~next.user
  BY <1>1 DEF Calls
<1>4. GoodTop(next, nested, t)
  <2>. HIDE DEF next
  <2>. QED
    BY <1>2, <1>3 DEF GoodTop, GoodCall, Settled
<1>. QED
  BY <1>4

LEMMA Moved ==
  ASSUME ParserInv, calls # <<>>,
         NEW p \in 0..Len(data), MoveTo(p),
         NEW t, t \in SettledStates => p = 0 \/ p = Len(data)
  PROVE  GoodCalls(calls', feed.nested, t)
<1>1. GoodTop([Top EXCEPT !.pos = p, !.user = FALSE], feed.nested, t)
  BY TopFacts, PositionMoved DEF data
<1>2. calls' = <<[Top EXCEPT !.pos = p, !.user = FALSE]>> \o Tail(calls)
  BY DEF MoveTo, SetTop
<1>. QED
  BY <1>1, <1>2, TopReplaced DEF ParserInv, CallsInv

LEMMA Advanced ==
  ASSUME ParserInv, calls # <<>>,
         NEW k \in 0..Len(data), NEW p \in 0..(Len(data) - k), Advance(k, p),
         NEW t, t \in SettledStates => p = 0
  PROVE  GoodCalls(calls', feed.nested, t)
<1>. DEFINE call == [Top EXCEPT !.data = After(k), !.pos = p, !.user = FALSE]
<1>1. After(k) \in Seq(Bytes) /\ Len(After(k)) = Len(data) - k
  BY TopFacts, Part DEF After
<1>2. GoodTop(call, feed.nested, t)
  BY <1>1, TopFacts, DataDropped
<1>3. calls' = <<call>> \o Tail(calls)
  BY DEF Advance, SetTop
<1>. QED
  BY <1>2, <1>3, TopReplaced DEF ParserInv, CallsInv

LEMMA Returned ==
  ASSUME ParserInv, calls # <<>>, Return, NEW t
  PROVE  GoodCalls(calls', feed.nested, t)
  BY TopRemoved DEF Return, ParserInv, CallsInv

\* callHasHeader leaves no header, and complains a number of times.
LEMMA HeaderCalled ==
  ASSUME ParserInv, NEW n \in Nat, CallHasHeader(n)
  PROVE  /\ field' = <<>> /\ value' = <<>>
         /\ headers' \in Seq(Seq(Bytes) \X Seq(Bytes))
         /\ contentSize' \in Int
         /\ warnings' \in Nat
<1>. USE DEF ParserInv, HeaderInv, FaultInv
<1>1. CASE field = <<>> /\ value = <<>>
  BY <1>1 DEF CallHasHeader, Complain, headerVars
<1>2. CASE ~(field = <<>> /\ value = <<>>)
  <2>. DEFINE size == ToInt(value)
              invalid == IF IsLengthField(field) /\ ~(size # NotANumber)
                         THEN 1 ELSE 0
  <2>1. size \in Int /\ invalid \in Nat /\ HasHeader(field, value) \in Nat
    BY IntegerRead, Complaint
  <2>2. /\ headers' = Append(headers, <<field, value>>)
        /\ field' = <<>> /\ value' = <<>>
        /\ contentSize' = IF IsLengthField(field) /\ size # NotANumber
                          THEN size ELSE contentSize
        /\ warnings' = warnings + (n + invalid + HasHeader(field, value))
    BY <1>2 DEF CallHasHeader, Complain
  <2>3. warnings' \in Nat
    <3>. HIDE DEF invalid
    <3>. QED
      BY <2>1, <2>2
  <2>4. contentSize' \in Int
    <3>. HIDE DEF size
    <3>. QED
      BY <2>1, <2>2
  <2>5. headers' \in Seq(Seq(Bytes) \X Seq(Bytes))
    BY <2>2, AppendProperties
  <2>. QED
    BY <2>2, <2>3, <2>4, <2>5
<1>. QED
  BY <1>1, <1>2

---------------------------------------------------------------------------
\* What is left alone stays right.

LEMMA Assembled ==
  ASSUME ParserInv, UNCHANGED chunkVars,
         GoodCalls(calls', feed.nested, state'), state' \in States,
         HeaderInv', BodyInv', FaultInv'
  PROVE  ParserInv'
<1>1. FeedInv'
  BY DEF ParserInv, FeedInv, chunkVars
<1>2. CallsInv'
  BY DEF CallsInv, chunkVars
<1>. QED
  BY <1>1, <1>2 DEF ParserInv

LEMMA HeaderKept ==
  ASSUME ParserInv, UNCHANGED <<headerVars, contentSize>>,
         state' \in {"PreHeader", "InBody"} => state \in {"PreHeader", "InBody"}
  PROVE  HeaderInv'
  BY DEF ParserInv, HeaderInv, headerVars

LEMMA HeaderGrown ==
  ASSUME ParserInv, UNCHANGED <<headers, contentSize>>,
         field' \in Seq(Bytes), value' \in Seq(Bytes),
         state' \notin {"PreHeader", "InBody"}
  PROVE  HeaderInv'
  BY DEF ParserInv, HeaderInv

LEMMA BodyKept ==
  ASSUME ParserInv, UNCHANGED <<mode, packet, packetSize, bodies>>,
         state' # "InBody"
  PROVE  BodyInv'
  BY DEF ParserInv, BodyInv, GoodPacket

LEMMA FaultKept ==
  ASSUME ParserInv, NEW n \in Nat, Complain(n), UNCHANGED faultVars
  PROVE  FaultInv'
  BY DEF ParserInv, FaultInv, Complain, faultVars

LEMMA HeaderEnded ==
  ASSUME ParserInv, NEW n \in Nat, CallHasHeader(n), UNCHANGED faultVars
  PROVE  HeaderInv' /\ FaultInv'
<1>1. /\ field' = <<>> /\ value' = <<>>
      /\ headers' \in Seq(Seq(Bytes) \X Seq(Bytes))
      /\ contentSize' \in Int
      /\ warnings' \in Nat
  BY HeaderCalled
<1>. QED
  BY <1>1 DEF ParserInv, HeaderInv, FaultInv, faultVars

---------------------------------------------------------------------------
\* The steps.

LEMMA PreHeaderKeeps ==
  ASSUME ParserInv, PreHeader
  PROVE  ParserInv'
<1>1. /\ calls # <<>> /\ state = "PreHeader" /\ InLoop("PreHeader")
      /\ UNCHANGED <<chunkVars, headerVars, bodyVars, faultVars>>
  BY DEF PreHeader, InLoop
<1>2. dataPos = 0 /\ dataPos + 1 \in 0..Len(data) /\ dataPos \in 0..Len(data)
  BY <1>1, LoopFacts DEF SettledStates
<1>3. PICK p \in {dataPos, dataPos + 1}, n \in {0, 1} :
        /\ MoveTo(p) /\ Complain(n)
        /\ \/ state' \in {"AfterCrLf", "AfterCr"}
           \/ state' = "InHeaderField" /\ p = dataPos
  BY DEF PreHeader
<1>4. GoodCalls(calls', feed.nested, state')
  BY <1>1, <1>2, <1>3, Moved DEF SettledStates
<1>5. HeaderInv'
  BY <1>1, <1>3, HeaderKept DEF bodyVars
<1>6. BodyInv'
  BY <1>1, <1>3, BodyKept DEF bodyVars, chunkVars
<1>7. FaultInv'
  BY <1>1, <1>3, FaultKept
<1>8. state' \in States
  BY <1>3 DEF States
<1>. QED
  BY <1>1, <1>4, <1>5, <1>6, <1>7, <1>8, Assembled

LEMMA PreHeaderSpaceKeeps ==
  ASSUME ParserInv, PreHeaderSpace
  PROVE  ParserInv'
<1>1. /\ calls # <<>> /\ state = "PreHeader" /\ InLoop("PreHeader")
      /\ state' = "InHeaderField"
      /\ Advance(FirstNonSpace, 0) /\ Complain(1)
      /\ UNCHANGED <<chunkVars, headerVars, bodyVars, faultVars>>
  BY DEF PreHeaderSpace, InLoop
<1>2. FirstNonSpace \in 0..Len(data)
  BY <1>1, LoopFacts, ScanBounds DEF FirstNonSpace
<1>3. 0 \in 0..(Len(data) - FirstNonSpace)
  BY <1>1, <1>2, LoopFacts
<1>4. GoodCalls(calls', feed.nested, state')
  BY <1>1, <1>2, <1>3, Advanced
<1>5. HeaderInv'
  BY <1>1, HeaderKept DEF bodyVars
<1>6. BodyInv'
  BY <1>1, BodyKept DEF bodyVars, chunkVars
<1>7. FaultInv'
  BY <1>1, FaultKept
<1>. QED
  BY <1>1, <1>4, <1>5, <1>6, <1>7, Assembled DEF States

LEMMA PreHeaderOverreadKeeps ==
  ASSUME ParserInv, PreHeaderOverread
  PROVE  ParserInv'
<1>1. /\ calls # <<>> /\ state = "PreHeader" /\ InLoop("PreHeader")
      /\ overread' = TRUE /\ Complain(1)
      /\ UNCHANGED <<chunkVars, headerVars, bodyVars>>
      /\ \/ aborted' = TRUE /\ UNCHANGED <<calls, state>>
         \/ state' = "InHeaderField" /\ Advance(Len(data), 0)
            /\ UNCHANGED aborted
         \/ MoveTo(Len(data)) /\ UNCHANGED <<aborted, state>>
  BY DEF PreHeaderOverread, InLoop
<1>2. /\ Len(data) \in 0..Len(data) /\ 0 \in 0..(Len(data) - Len(data))
  BY <1>1, LoopFacts
<1>3. GoodCalls(calls', feed.nested, state')
  <2>1. CASE UNCHANGED <<calls, state>>
    BY <2>1 DEF ParserInv, CallsInv
  <2>2. CASE state' = "InHeaderField" /\ Advance(Len(data), 0)
    BY <1>1, <1>2, <2>2, Advanced
  <2>3. CASE MoveTo(Len(data)) /\ UNCHANGED state
    BY <1>1, <1>2, <2>3, Moved
  <2>. QED
    BY <1>1, <2>1, <2>2, <2>3
<1>4. state' \in {"PreHeader", "InHeaderField"}
  BY <1>1
<1>5. HeaderInv'
  BY <1>1, <1>4, HeaderKept DEF bodyVars
<1>6. BodyInv'
  BY <1>1, <1>4, BodyKept DEF bodyVars, chunkVars
<1>7. FaultInv'
  <2>1. aborted' \in BOOLEAN
    BY <1>1 DEF ParserInv, FaultInv
  <2>2. warnings' \in Nat
    BY <1>1 DEF ParserInv, FaultInv, Complain
  <2>. QED
    BY <1>1, <2>1, <2>2 DEF FaultInv
<1>. QED
  BY <1>1, <1>3, <1>4, <1>5, <1>6, <1>7, Assembled DEF States

LEMMA HeaderFieldKeeps ==
  ASSUME ParserInv, HeaderField
  PROVE  ParserInv'
<1>. DEFINE k == Scan({CR, LF, COLON})
            name == SubSeq(data, 1, k)
            spaces == SpacesIn(SubSeq(data, dataPos + 1, k))
<1>1. /\ calls # <<>> /\ state = "InHeaderField" /\ InLoop("InHeaderField")
      /\ UNCHANGED <<chunkVars, value, headers, bodyVars, faultVars>>
      /\ field' = field \o name
      /\ \/ k = Len(data) /\ Return /\ UNCHANGED state /\ Complain(spaces)
         \/ /\ k # Len(data)
            /\ state' = "HeaderValueSpace"
            /\ Advance(k + 1, 0) /\ Complain(spaces)
         \/ /\ k # Len(data)
            /\ state' \in {"AfterCrLf", "AfterCr"}
            /\ Advance(k, 1) /\ Complain(spaces + 1)
  BY DEF HeaderField, InLoop
<1>2. /\ data \in Seq(Bytes) /\ dataPos \in 0..Len(data)
      /\ k \in dataPos..Len(data)
  BY <1>1, LoopFacts, ScanBounds
<1>. HIDE DEF k
<1>3. name \in Seq(Bytes) /\ spaces \in Nat
  <2>1. 1 \in 1..(Len(data) + 1) /\ k \in 0..Len(data) /\ k + 1 >= 1
    BY <1>2
  <2>2. dataPos + 1 \in 1..(Len(data) + 1) /\ k + 1 >= dataPos + 1
    BY <1>2
  <2>3. SubSeq(data, dataPos + 1, k) \in Seq(Bytes)
    BY <1>2, <2>1, <2>2, Part
  <2>. QED
    BY <1>2, <2>1, <2>3, Part, SpacesCounted
<1>4. GoodCalls(calls', feed.nested, state')
  <2>1. CASE Return
    BY <1>1, <2>1, Returned
  <2>2. CASE k # Len(data) /\ state' = "HeaderValueSpace" /\ Advance(k + 1, 0)
    <3>1. k + 1 \in 0..Len(data) /\ 0 \in 0..(Len(data) - (k + 1))
      BY <1>2, <2>2
    <3>. QED
      BY <1>1, <2>2, <3>1, Advanced
  <2>3. CASE /\ k # Len(data) /\ state' \in {"AfterCrLf", "AfterCr"}
             /\ Advance(k, 1)
    <3>1. k \in 0..Len(data) /\ 1 \in 0..(Len(data) - k)
      BY <1>2, <2>3
    <3>. QED
      BY <1>1, <2>3, <3>1, Advanced DEF SettledStates
  <2>. QED
    BY <1>1, <2>1, <2>2, <2>3
<1>5. state' \in {"InHeaderField", "HeaderValueSpace", "AfterCrLf", "AfterCr"}
  BY <1>1
<1>6. HeaderInv'
  <2>1. field' \in Seq(Bytes) /\ value' \in Seq(Bytes)
    BY <1>1, <1>3, ConcatProperties DEF ParserInv, HeaderInv
  <2>. QED
    BY <1>1, <1>5, <2>1, HeaderGrown DEF bodyVars
<1>7. BodyInv'
  BY <1>1, <1>5, BodyKept DEF bodyVars, chunkVars
<1>8. FaultInv'
  <2>1. PICK n \in Nat : Complain(n)
    BY <1>1, <1>3
  <2>. QED
    BY <1>1, <2>1, FaultKept
<1>. QED
  BY <1>1, <1>4, <1>5, <1>6, <1>7, <1>8, Assembled DEF States

LEMMA HeaderValueSpaceKeeps ==
  ASSUME ParserInv, HeaderValueSpace
  PROVE  ParserInv'
<1>1. /\ calls # <<>> /\ state = "HeaderValueSpace"
      /\ InLoop("HeaderValueSpace")
      /\ UNCHANGED <<chunkVars, field, headers, bodyVars, faultVars, warnings>>
      /\ \/ /\ Advance(FirstNonSpace, 0)
            /\ state' = "InHeaderValue" /\ value' = <<>>
         \/ MoveTo(Len(data)) /\ UNCHANGED <<state, value>>
  BY DEF HeaderValueSpace, InLoop
<1>2. FirstNonSpace \in 0..Len(data) /\ data \in Seq(Bytes)
  BY <1>1, LoopFacts, ScanBounds DEF FirstNonSpace
<1>3. GoodCalls(calls', feed.nested, state')
  <2>1. CASE Advance(FirstNonSpace, 0) /\ state' = "InHeaderValue"
    <3>1. 0 \in 0..(Len(data) - FirstNonSpace)
      BY <1>2
    <3>. QED
      BY <1>1, <1>2, <2>1, <3>1, Advanced
  <2>2. CASE MoveTo(Len(data)) /\ UNCHANGED state
    <3>1. Len(data) \in 0..Len(data)
      BY <1>2
    <3>. QED
      BY <1>1, <2>2, <3>1, Moved
  <2>. QED
    BY <1>1, <2>1, <2>2
<1>4. state' \in {"InHeaderValue", "HeaderValueSpace"}
  BY <1>1
<1>5. HeaderInv'
  <2>1. field' \in Seq(Bytes) /\ value' \in Seq(Bytes)
    BY <1>1, EmptySeq DEF ParserInv, HeaderInv
  <2>. QED
    BY <1>1, <1>4, <2>1, HeaderGrown DEF bodyVars
<1>6. BodyInv'
  BY <1>1, <1>4, BodyKept DEF bodyVars, chunkVars
<1>7. FaultInv'
  BY <1>1 DEF ParserInv, FaultInv, faultVars
<1>. QED
  BY <1>1, <1>3, <1>4, <1>5, <1>6, <1>7, Assembled DEF States

LEMMA HeaderValueKeeps ==
  ASSUME ParserInv, HeaderValue
  PROVE  ParserInv'
<1>. DEFINE k == Scan({CR, LF})
<1>1. /\ calls # <<>> /\ state = "InHeaderValue" /\ InLoop("InHeaderValue")
      /\ UNCHANGED <<chunkVars, field, headers, bodyVars, faultVars>>
      /\ value' = value \o SubSeq(data, 1, k)
      /\ \/ Return /\ UNCHANGED state /\ Complain(0)
         \/ /\ k # Len(data) /\ Advance(k, 1)
            /\ \/ state' = "AfterCrLf" /\ Complain(1)
               \/ state' = "AfterCr" /\ Complain(0)
  BY DEF HeaderValue, InLoop
<1>2. /\ data \in Seq(Bytes) /\ dataPos \in 0..Len(data)
      /\ k \in dataPos..Len(data)
  BY <1>1, LoopFacts, ScanBounds
<1>. HIDE DEF k
<1>3. SubSeq(data, 1, k) \in Seq(Bytes)
  BY <1>2, Part
<1>4. GoodCalls(calls', feed.nested, state')
  <2>1. CASE Return
    BY <1>1, <2>1, Returned
  <2>2. CASE /\ k # Len(data) /\ state' \in {"AfterCrLf", "AfterCr"}
             /\ Advance(k, 1)
    <3>1. k \in 0..Len(data) /\ 1 \in 0..(Len(data) - k)
      BY <1>2, <2>2
    <3>. QED
      BY <1>1, <2>2, <3>1, Advanced DEF SettledStates
  <2>. QED
    BY <1>1, <2>1, <2>2
<1>5. state' \in {"InHeaderValue", "AfterCrLf", "AfterCr"}
  BY <1>1
<1>6. HeaderInv'
  <2>1. field' \in Seq(Bytes) /\ value' \in Seq(Bytes)
    BY <1>1, <1>3, ConcatProperties DEF ParserInv, HeaderInv
  <2>. QED
    BY <1>1, <1>5, <2>1, HeaderGrown DEF bodyVars
<1>7. BodyInv'
  BY <1>1, <1>5, BodyKept DEF bodyVars, chunkVars
<1>8. FaultInv'
  BY <1>1, FaultKept
<1>. QED
  BY <1>1, <1>4, <1>5, <1>6, <1>7, <1>8, Assembled DEF States

\* The end of a header block, a new header, and a header that goes on: st is
\* the state reached.
LEMMA BodyBegun ==
  ASSUME ParserInv, calls # <<>>, NEW p \in 0..Len(data), NEW n \in Nat,
         BeginBody(p, n), UNCHANGED <<chunkVars, bodies, faultVars>>
  PROVE  ParserInv'
<1>1. /\ packet' = <<>> /\ packetSize' = 0 /\ state' = "InBody"
      /\ Advance(p, 0) /\ CallHasHeader(n)
  BY DEF BeginBody
<1>2. 0 \in 0..(Len(data) - p)
  BY TopFacts
<1>3. GoodCalls(calls', feed.nested, state')
  BY <1>1, <1>2, Advanced
<1>4. HeaderInv' /\ FaultInv'
  BY <1>1, HeaderEnded
<1>5. BodyInv'
  BY <1>1, EmptySeq DEF ParserInv, BodyInv, GoodPacket, chunkVars
<1>. QED
  BY <1>1, <1>3, <1>4, <1>5, Assembled DEF States

LEMMA HeaderBegun ==
  ASSUME ParserInv, calls # <<>>, NEW n \in Nat,
         BeginHeader(n), UNCHANGED <<chunkVars, bodies, faultVars>>
  PROVE  ParserInv'
<1>1. /\ UNCHANGED <<packet, packetSize>> /\ state' = "InHeaderField"
      /\ Advance(dataPos, 0) /\ CallHasHeader(n)
  BY DEF BeginHeader
<1>2. dataPos \in 0..Len(data) /\ 0 \in 0..(Len(data) - dataPos)
  BY TopFacts
<1>3. GoodCalls(calls', feed.nested, state')
  BY <1>1, <1>2, Advanced
<1>4. HeaderInv' /\ FaultInv'
  BY <1>1, HeaderEnded
<1>5. BodyInv'
  BY <1>1, BodyKept DEF chunkVars
<1>. QED
  BY <1>1, <1>3, <1>4, <1>5, Assembled DEF States

LEMMA HeaderContinued ==
  ASSUME ParserInv, calls # <<>>, NEW n \in Nat,
         Continue(n), UNCHANGED <<chunkVars, bodies, faultVars>>
  PROVE  ParserInv'
<1>1. /\ state' = "InHeaderValue" /\ Advance(dataPos, 0) /\ Complain(n)
      /\ UNCHANGED <<headerVars, packet, packetSize, contentSize>>
  BY DEF Continue
<1>2. dataPos \in 0..Len(data) /\ 0 \in 0..(Len(data) - dataPos)
  BY TopFacts
<1>3. GoodCalls(calls', feed.nested, state')
  BY <1>1, <1>2, Advanced
<1>4. HeaderInv'
  BY <1>1, HeaderKept
<1>5. BodyInv'
  BY <1>1, BodyKept DEF chunkVars
<1>6. FaultInv'
  BY <1>1, FaultKept
<1>. QED
  BY <1>1, <1>3, <1>4, <1>5, <1>6, Assembled DEF States

\* A byte of a line end has been read, or is left to the next state.
LEMMA LineEndRead ==
  ASSUME ParserInv, calls # <<>>, NEW p \in 0..Len(data), NEW n \in Nat,
         state' \in {"AfterCrLf", "AfterCrLfCr"},
         MoveTo(p), Complain(n),
         UNCHANGED <<headerVars, packet, packetSize, contentSize>>,
         UNCHANGED <<chunkVars, bodies, faultVars>>
  PROVE  ParserInv'
<1>1. GoodCalls(calls', feed.nested, state')
  BY Moved DEF SettledStates
<1>2. HeaderInv'
  BY HeaderKept
<1>3. BodyInv'
  BY BodyKept DEF chunkVars
<1>4. FaultInv'
  BY FaultKept
<1>. QED
  BY <1>1, <1>2, <1>3, <1>4, Assembled DEF States

LEMMA AfterCrKeeps ==
  ASSUME ParserInv, AfterCr
  PROVE  ParserInv'
<1>1. /\ calls # <<>> /\ InLoop("AfterCr")
      /\ UNCHANGED <<chunkVars, bodies, faultVars>>
  BY DEF AfterCr, InLoop
<1>2. dataPos + 1 \in 0..Len(data)
  BY <1>1, LoopFacts
<1>3. CASE /\ state' = "AfterCrLf" /\ MoveTo(dataPos + 1) /\ Complain(0)
           /\ UNCHANGED <<headerVars, packet, packetSize, contentSize>>
  BY <1>1, <1>2, <1>3, LineEndRead
<1>4. CASE BeginBody(dataPos + 1, 1)
  BY <1>1, <1>2, <1>4, BodyBegun
<1>5. CASE Continue(1)
  BY <1>1, <1>5, HeaderContinued
<1>6. CASE BeginHeader(1)
  BY <1>1, <1>6, HeaderBegun
<1>. QED
  BY <1>3, <1>4, <1>5, <1>6 DEF AfterCr

LEMMA AfterCrLfKeeps ==
  ASSUME ParserInv, AfterCrLf
  PROVE  ParserInv'
<1>1. /\ calls # <<>> /\ InLoop("AfterCrLf")
      /\ UNCHANGED <<chunkVars, bodies, faultVars>>
  BY DEF AfterCrLf, InLoop
<1>2. dataPos \in 0..Len(data) /\ dataPos + 1 \in 0..Len(data)
  BY <1>1, LoopFacts
<1>3. CASE /\ state' = "AfterCrLfCr"
           /\ MoveTo(IF c = CR THEN dataPos + 1 ELSE dataPos)
           /\ Complain(IF c = CR THEN 0 ELSE 1)
           /\ UNCHANGED <<headerVars, packet, packetSize, contentSize>>
  <2>1. CASE c = CR
    BY <1>1, <1>2, <1>3, <2>1, LineEndRead
  <2>2. CASE c # CR
    BY <1>1, <1>2, <1>3, <2>2, LineEndRead
  <2>. QED
    BY <2>1, <2>2
<1>4. CASE Continue(0)
  BY <1>1, <1>4, HeaderContinued
<1>5. CASE BeginHeader(0)
  BY <1>1, <1>5, HeaderBegun
<1>. QED
  BY <1>3, <1>4, <1>5 DEF AfterCrLf

LEMMA AfterCrLfCrKeeps ==
  ASSUME ParserInv, AfterCrLfCr
  PROVE  ParserInv'
<1>1. /\ calls # <<>> /\ InLoop("AfterCrLfCr")
      /\ UNCHANGED <<chunkVars, bodies, faultVars>>
      /\ BeginBody(dataPos + 1, 0) \/ BeginHeader(1)
  BY DEF AfterCrLfCr, InLoop
<1>2. dataPos + 1 \in 0..Len(data)
  BY <1>1, LoopFacts
<1>3. CASE BeginBody(dataPos + 1, 0)
  BY <1>1, <1>2, <1>3, BodyBegun
<1>4. CASE BeginHeader(1)
  BY <1>1, <1>4, HeaderBegun
<1>. QED
  BY <1>1, <1>3, <1>4

LEMMA ReceiveDataKeeps ==
  ASSUME ParserInv, NEW n \in 1..Len(feed.stream), ReceiveData(n)
  PROVE  ParserInv'
<1>. DEFINE chunk == SubSeq(feed.stream, given + 1, given + n)
<1>1. /\ feed \in Feeds /\ feed.stream \in Seq(Bytes)
      /\ feed.cuts \subseteq 0..Len(feed.stream)
      /\ given \in 0..Len(feed.stream)
  BY FeedsAssumption DEF ParserInv, FeedInv, FeedsAssumption, Feed
<1>2. /\ calls # <<>> => Head(calls).user
      /\ given + n \in feed.cuts
      /\ given' = given + n
      /\ calls' = <<Call(chunk)>> \o calls
      /\ UNCHANGED <<feed, mode, state, headerVars, bodyVars, faultVars,
                     warnings>>
  BY DEF ReceiveData, Top
<1>3. given' \in 0..Len(feed.stream)
  BY <1>1, <1>2
<1>4. FeedInv'
  BY <1>1, <1>2, <1>3 DEF ParserInv, FeedInv
<1>5. chunk \in Seq(Bytes)
  <2>1. given + 1 \in 1..(Len(feed.stream) + 1) /\ given + n + 1 >= given + 1
        /\ given + n \in 0..Len(feed.stream)
    BY <1>1, <1>2, <1>3
  <2>. QED
    BY <1>1, <2>1, Part
<1>6. CallsInv'
  <2>. HIDE DEF chunk
  <2>1. /\ Call(chunk) \in Calls
        /\ Call(chunk).data = chunk /\ Call(chunk).pos = 0
        /\ Call(chunk).user = FALSE
    BY <1>5 DEF Call, Calls
  <2>2. Len(chunk) \in Nat
    BY <1>5
  <2>3. GoodTop(Call(chunk), feed.nested, state)
    BY <2>1, <2>2 DEF GoodTop, GoodCall, Settled
  <2>4. GoodCalls(calls', feed.nested, state)
    BY <1>2, <2>3, TopAdded DEF ParserInv, CallsInv
  <2>. QED
    BY <1>2, <2>4 DEF CallsInv
<1>7. HeaderInv' /\ BodyInv' /\ FaultInv' /\ state' \in States
  BY <1>2 DEF ParserInv, HeaderInv, BodyInv, FaultInv, headerVars, bodyVars,
              faultVars
<1>. QED
  BY <1>4, <1>6, <1>7 DEF ParserInv

\* A body without a length is skipped at once.
LEMMA BodyWithoutLengthKeeps ==
  ASSUME ParserInv, BodyWithoutLength
  PROVE  ParserInv'
<1>1. /\ calls # <<>> /\ state = "InBody" /\ InLoop("InBody")
      /\ state' = "PreHeader" /\ MoveTo(dataPos) /\ Complain(1)
      /\ UNCHANGED <<chunkVars, headerVars, bodyVars, faultVars>>
  BY DEF BodyWithoutLength, InLoop
<1>2. dataPos \in 0..Len(data) /\ dataPos = 0
  BY <1>1, LoopFacts DEF SettledStates
<1>3. GoodCalls(calls', feed.nested, state')
  BY <1>1, <1>2, Moved
<1>4. HeaderInv'
  BY <1>1, HeaderKept DEF bodyVars
<1>5. BodyInv'
  BY <1>1, BodyKept DEF bodyVars, chunkVars
<1>6. FaultInv'
  BY <1>1, FaultKept
<1>. QED
  BY <1>1, <1>3, <1>4, <1>5, <1>6, Assembled DEF States

\* The call that calls a body handler: it waits for it if the handler runs an
\* event loop.
LEMMA HandlerCalled ==
  ASSUME NEW call, NEW nested \in BOOLEAN, NEW s, GoodTop(call, nested, s),
         Settled(call), NEW t
  PROVE  GoodTop([call EXCEPT !.user = nested], nested, t)
<1>. DEFINE next == [call EXCEPT !.user = nested]
<1>1. call \in Calls
  BY DEF GoodTop, GoodCall
<1>2. next \in Calls /\ next.data = call.data /\ next.pos = call.pos
  BY <1>1 DEF Calls
<1>3. next.user => nested
  BY <1>1 DEF Calls
<1>4. GoodTop(next, nested, t)
  <2>. HIDE DEF next
  <2>. QED
    BY <1>2, <1>3 DEF GoodTop, GoodCall, Settled
<1>. QED
  BY <1>4

\* callHasBody hands on what the packet holds, and empties it.
LEMMA BodyCalled ==
  ASSUME ParserInv, NEW bytes \in Seq(Bytes), NEW size \in Nat,
         UNCHANGED mode, state' = "PreHeader",
         mode = "BUFFERED" => GoodBody([size |-> contentSize, bytes |-> bytes]),
         CallHasBody(bytes, size)
  PROVE  BodyInv' /\ contentSize' \in Int
<1>. DEFINE body == [size |-> contentSize,
                     bytes |-> IF mode = "BUFFERED" THEN bytes ELSE <<>>]
<1>1. body \in [size : Int, bytes : Seq(Bytes)]
  BY EmptySeq DEF ParserInv, HeaderInv
<1>2. mode = "BUFFERED" => GoodBody(body)
  OBVIOUS
<1>3. bodies' = Append(bodies, body)
  BY DEF CallHasBody
<1>4. bodies \in Seq([size : Int, bytes : Seq(Bytes)])
  BY DEF ParserInv, BodyInv
<1>. HIDE DEF body
<1>5. /\ bodies' \in Seq([size : Int, bytes : Seq(Bytes)])
      /\ Len(bodies') = Len(bodies) + 1
      /\ \A i \in 1..Len(bodies) : bodies'[i] = bodies[i]
      /\ bodies'[Len(bodies) + 1] = body
  BY <1>1, <1>3, <1>4, AppendProperties
<1>6. mode = "BUFFERED" => \A i \in 1..Len(bodies') : GoodBody(bodies'[i])
  <2>. SUFFICES ASSUME mode = "BUFFERED", NEW i \in 1..Len(bodies')
                PROVE  GoodBody(bodies'[i])
    OBVIOUS
  <2>1. Len(bodies) \in Nat
    BY <1>4
  <2>2. CASE i = Len(bodies) + 1
    BY <1>2, <1>5, <2>2
  <2>3. CASE i \in 1..Len(bodies)
    BY <1>5, <2>3 DEF ParserInv, BodyInv
  <2>. QED
    BY <1>5, <2>1, <2>2, <2>3
<1>7. CASE mode = "BUFFERED"
  <2>1. packet' = <<>> /\ packetSize' = 0 /\ contentSize' = NoLength
    BY <1>7 DEF CallHasBody
  <2>2. GoodPacket(packet', packetSize', contentSize', state')
    BY <2>1 DEF GoodPacket
  <2>. QED
    BY <1>5, <1>6, <2>1, <2>2, EmptySeq DEF BodyInv, NoLength
<1>8. CASE mode # "BUFFERED"
  <2>1. packet' = bytes /\ packetSize' = size /\ contentSize' = contentSize
    BY <1>8 DEF CallHasBody
  <2>. QED
    BY <1>5, <1>8, <2>1 DEF ParserInv, HeaderInv, BodyInv
<1>. QED
  BY <1>7, <1>8

\* How many bytes of the data are taken: what is missing, if it is there.
LEMMA TakenFacts ==
  ASSUME ParserInv, calls # <<>>
  PROVE  /\ Taken \in 0..Len(data)
         /\ contentSize - packetSize <= 0 => Taken = 0
         /\ contentSize - packetSize > 0 =>
              Taken <= contentSize - packetSize
  BY TopFacts DEF ParserInv, HeaderInv, BodyInv, Taken

LEMMA BodyCallGood ==
  ASSUME ParserInv, InLoop("InBody"), NEW k \in 0..Len(data), NEW t
  PROVE  /\ GoodTop(BodyCall(k), feed.nested, t)
         /\ Settled(BodyCall(k))
<1>1. /\ calls # <<>> /\ GoodTop(Top, feed.nested, state)
      /\ data \in Seq(Bytes) /\ dataPos = 0 /\ Top.data = data
  BY LoopFacts DEF SettledStates, data
<1>. DEFINE bytes == IF k = 0 THEN data ELSE After(k)
<1>2. bytes \in Seq(Bytes) /\ 0 \in 0..Len(bytes)
  <2>1. After(k) \in Seq(Bytes)
    BY <1>1, Part DEF After
  <2>. QED
    BY <1>1, <2>1
<1>3. BodyCall(k) = [Top EXCEPT !.data = bytes, !.pos = 0, !.user = FALSE]
  BY <1>1 DEF BodyCall
<1>. HIDE DEF bytes
<1>4. GoodTop([Top EXCEPT !.data = bytes, !.pos = 0, !.user = FALSE],
              feed.nested, t)
  BY <1>1, <1>2, DataDropped
<1>5. GoodTop([Top EXCEPT !.data = bytes, !.pos = 0, !.user = FALSE],
              feed.nested, "InBody")
  BY <1>1, <1>2, DataDropped
<1>6. Settled([Top EXCEPT !.data = bytes, !.pos = 0, !.user = FALSE])
  BY <1>5 DEF GoodTop, SettledStates
<1>. QED
  BY <1>3, <1>4, <1>6

LEMMA BodyKeeps ==
  ASSUME ParserInv, Body
  PROVE  ParserInv'
<1>. DEFINE bytes == packet \o IF mode = "BUFFERED" THEN SubSeq(data, 1, Taken)
                               ELSE <<>>
            size == packetSize + Taken
<1>1. /\ calls # <<>> /\ state = "InBody" /\ InLoop("InBody")
      /\ UNCHANGED <<chunkVars, headerVars, faultVars, warnings>>
      /\ \/ /\ size >= contentSize
            /\ state' = "PreHeader"
            /\ SetTop(InHandler(BodyCall(Taken)))
            /\ CallHasBody(bytes, size)
         \/ /\ ~(size >= contentSize)
            /\ packet' = bytes /\ packetSize' = size
            /\ SetTop(BodyCall(Taken))
            /\ UNCHANGED <<state, contentSize, bodies>>
  BY DEF Body, InLoop
<1>2. /\ data \in Seq(Bytes) /\ Taken \in 0..Len(data)
      /\ packet \in Seq(Bytes) /\ packetSize \in Nat /\ contentSize \in Int
  BY <1>1, LoopFacts, TakenFacts DEF ParserInv, HeaderInv, BodyInv
<1>3. SubSeq(data, 1, Taken) \in Seq(Bytes)
      /\ Len(SubSeq(data, 1, Taken)) = Taken
  BY <1>2, Part
<1>4. bytes \in Seq(Bytes) /\ size \in Nat
  BY <1>2, <1>3, EmptySeq, ConcatProperties
<1>5. mode = "BUFFERED" => Len(bytes) = size
  BY <1>2, <1>3, ConcatProperties DEF ParserInv, BodyInv, GoodPacket
<1>. HIDE DEF bytes
<1>6. GoodCalls(calls', feed.nested, state')
  <2>1. /\ GoodTop(BodyCall(Taken), feed.nested, state')
        /\ Settled(BodyCall(Taken))
    BY <1>1, <1>2, BodyCallGood
  <2>2. feed.nested \in BOOLEAN
    BY FeedsAssumption DEF ParserInv, FeedInv, FeedsAssumption, Feed
  <2>3. GoodTop(InHandler(BodyCall(Taken)), feed.nested, state')
    BY <2>1, <2>2, HandlerCalled DEF InHandler
  <2>4. PICK call : SetTop(call) /\ GoodTop(call, feed.nested, state')
    BY <1>1, <2>1, <2>3
  <2>5. calls' = <<call>> \o Tail(calls)
    BY <2>4 DEF SetTop
  <2>. QED
    BY <1>1, <2>4, <2>5, TopReplaced DEF ParserInv, CallsInv
<1>7. BodyInv' /\ contentSize' \in Int
  <2>1. CASE size >= contentSize
    <3>1. state' = "PreHeader" /\ CallHasBody(bytes, size) /\ UNCHANGED mode
      BY <1>1, <2>1 DEF chunkVars
    <3>2. ASSUME mode = "BUFFERED"
          PROVE  GoodBody([size |-> contentSize, bytes |-> bytes])
      <4>1. packetSize = 0 \/ packetSize < contentSize
        BY <1>1, <3>2 DEF ParserInv, BodyInv, GoodPacket
      <4>2. Len(bytes) = size
        BY <1>5, <3>2
      <4>3. size = IF contentSize < 0 THEN 0 ELSE contentSize
        BY <1>1, <1>2, <2>1, <4>1, TakenFacts
      <4>. QED
        BY <4>2, <4>3 DEF GoodBody
    <3>. HIDE DEF size
    <3>. QED
      BY <1>4, <3>1, <3>2, BodyCalled
  <2>2. CASE ~(size >= contentSize)
    <3>1. /\ packet' = bytes /\ packetSize' = size
          /\ UNCHANGED <<mode, contentSize, bodies>>
      BY <1>1, <2>2 DEF chunkVars
    <3>2. mode = "BUFFERED" =>
            GoodPacket(packet', packetSize', contentSize', state')
      BY <1>2, <1>4, <1>5, <2>2, <3>1 DEF GoodPacket
    <3>. QED
      BY <1>2, <1>4, <3>1, <3>2 DEF ParserInv, BodyInv
  <2>. QED
    BY <2>1, <2>2
<1>8. HeaderInv'
  BY <1>1, <1>7 DEF ParserInv, HeaderInv, headerVars
<1>9. FaultInv'
  BY <1>1 DEF ParserInv, FaultInv, faultVars
<1>10. state' \in States
  BY <1>1 DEF States
<1>. QED
  BY <1>1, <1>6, <1>7, <1>8, <1>9, <1>10, Assembled

LEMMA EndOfDataKeeps ==
  ASSUME ParserInv, EndOfData
  PROVE  ParserInv'
<1>1. /\ calls # <<>> /\ UNCHANGED <<chunkVars, headerVars, faultVars>>
  BY DEF EndOfData
<1>2. CASE Return /\ UNCHANGED <<state, bodyVars, warnings>>
  <2>1. GoodCalls(calls', feed.nested, state')
    BY <1>1, <1>2, Returned
  <2>2. HeaderInv' /\ BodyInv' /\ FaultInv' /\ state' \in States
    BY <1>1, <1>2 DEF ParserInv, HeaderInv, BodyInv, FaultInv, headerVars,
                      bodyVars, faultVars, chunkVars
  <2>. QED
    BY <1>1, <2>1, <2>2, Assembled
<1>3. CASE /\ ~Top.done /\ state = "InBody" /\ contentSize \in {NoLength, 0}
           /\ state' = "PreHeader"
           /\ SetTop(InHandler([Top EXCEPT !.done = TRUE]))
           /\ Complain(IF contentSize = NoLength THEN 1 ELSE 0)
           /\ CallHasBody(packet, packetSize)
  <2>1. dataPos >= Len(data)
    BY <1>3 DEF EndOfData
  <2>. DEFINE call == [Top EXCEPT !.done = TRUE]
  <2>2. Top \in Calls /\ GoodTop(Top, feed.nested, state)
        /\ data \in Seq(Bytes) /\ dataPos \in 0..Len(data)
    BY <1>1, TopFacts DEF GoodTop, GoodCall
  <2>3. /\ call \in Calls /\ call.data = data /\ call.pos = dataPos
        /\ call.user = Top.user
    BY <2>2 DEF Calls, data, dataPos
  <2>4. GoodTop(call, feed.nested, state) /\ Settled(call)
    <3>. HIDE DEF call
    <3>. QED
      BY <2>1, <2>2, <2>3 DEF GoodTop, GoodCall, Settled, data, dataPos
  <2>5. feed.nested \in BOOLEAN
    BY FeedsAssumption DEF ParserInv, FeedInv, FeedsAssumption, Feed
  <2>. HIDE DEF call
  <2>6. GoodTop(InHandler(call), feed.nested, state')
    BY <2>4, <2>5, HandlerCalled DEF InHandler
  <2>7. calls' = <<InHandler(call)>> \o Tail(calls)
    BY <1>3 DEF SetTop, call
  <2>8. GoodCalls(calls', feed.nested, state')
    BY <1>1, <2>6, <2>7, TopReplaced DEF ParserInv, CallsInv
  <2>9. BodyInv' /\ contentSize' \in Int
    <3>1. packet \in Seq(Bytes) /\ packetSize \in Nat /\ UNCHANGED mode
      BY <1>1 DEF ParserInv, BodyInv, chunkVars
    <3>2. ASSUME mode = "BUFFERED"
          PROVE  GoodBody([size |-> contentSize, bytes |-> packet])
      <4>1. Len(packet) = 0
        BY <1>3, <3>1, <3>2 DEF ParserInv, BodyInv, GoodPacket, NoLength
      <4>. QED
        BY <1>3, <4>1 DEF GoodBody, NoLength
    <3>. QED
      BY <1>3, <3>1, <3>2, BodyCalled
  <2>10. HeaderInv'
    BY <1>1, <1>3, <2>9 DEF ParserInv, HeaderInv, headerVars
  <2>11. FaultInv'
    <3>1. (IF contentSize = NoLength THEN 1 ELSE 0) \in Nat
      OBVIOUS
    <3>. QED
      BY <1>1, <1>3, <3>1, FaultKept
  <2>. QED
    BY <1>1, <1>3, <2>8, <2>9, <2>10, <2>11, Assembled DEF States
<1>. QED
  BY <1>2, <1>3 DEF EndOfData

---------------------------------------------------------------------------
\* The theorems.

LEMMA InitKeeps ==
  ASSUME Init
  PROVE  ParserInv
<1>1. FeedInv
  <2>1. feed \in Feeds /\ mode \in Modes /\ given = 0
    BY DEF Init
  <2>2. feed.stream \in Seq(Bytes) /\ mode \in {"BUFFERED", "UNBUFFERED"}
    BY <2>1, FeedsAssumption DEF FeedsAssumption, Feed
  <2>. QED
    BY <2>1, <2>2 DEF FeedInv
<1>2. CallsInv
  BY EmptySeq DEF Init, CallsInv, GoodCalls
<1>3. HeaderInv
  BY EmptySeq DEF Init, HeaderInv, NoLength
<1>4. BodyInv
  BY EmptySeq DEF Init, BodyInv, GoodPacket
<1>5. FaultInv /\ state \in States
  BY DEF Init, FaultInv, States
<1>. QED
  BY <1>1, <1>2, <1>3, <1>4, <1>5 DEF ParserInv

\* The inductive invariant: every step of receiveData, and every chunk that
\* comes, also one that comes while a body handler runs, keeps it.
THEOREM ParserInvariance == Spec => []ParserInv
<1>1. Init => ParserInv
  BY InitKeeps
<1>2. ParserInv /\ [Next]_vars => ParserInv'
  <2>. SUFFICES ASSUME ParserInv, [Next]_vars
                PROVE  ParserInv'
    OBVIOUS
  <2>1. CASE Step
    BY <2>1, PreHeaderKeeps, PreHeaderSpaceKeeps, PreHeaderOverreadKeeps,
       HeaderFieldKeeps, HeaderValueSpaceKeeps, HeaderValueKeeps, AfterCrKeeps,
       AfterCrLfKeeps, AfterCrLfCrKeeps, BodyWithoutLengthKeeps, BodyKeeps,
       EndOfDataKeeps DEF Step
  <2>2. CASE \E n \in 1..Len(feed.stream) : ReceiveData(n)
    BY <2>2, ReceiveDataKeeps
  <2>3. CASE UNCHANGED vars
    BY <2>3 DEF vars, ParserInv, FeedInv, CallsInv, HeaderInv, BodyInv,
                FaultInv, chunkVars, headerVars, bodyVars, faultVars
  <2>. QED
    BY <2>1, <2>2, <2>3 DEF Next
<1>. QED
  BY <1>1, <1>2, PTL DEF Spec

\* receiveData keeps its position inside the chunk it was given, in every
\* state and for every stream, and the state, header, body and complaints keep
\* their types.
THEOREM TypeCorrect == Spec => []TypeOK
<1>1. ParserInv => TypeOK
  <2>. SUFFICES ASSUME ParserInv
                PROVE  TypeOK
    OBVIOUS
  <2>1. feed \in Feed /\ feed \in Feeds
    BY FeedsAssumption DEF ParserInv, FeedInv, FeedsAssumption
  <2>2. /\ calls \in Seq(Calls)
        /\ \A i \in 1..Len(calls) : GoodCall(calls[i], feed.nested)
    BY DEF ParserInv, CallsInv, GoodCalls, GoodTop
  <2>3. \A i \in 1..Len(calls) : /\ calls[i].pos <= Len(calls[i].data)
                                 /\ calls[i].user => feed.nested
    BY <2>2 DEF GoodCall
  <2>. QED
    BY <2>1, <2>2, <2>3 DEF ParserInv, FeedInv, HeaderInv, BodyInv, FaultInv,
                            Calls, TypeOK
<1>. QED
  BY <1>1, ParserInvariance, PTL

\* Whenever the loop over a header field, a header value or a body is entered,
\* the token starts where the data does, so that data.mid(0, dataPos) is the
\* token and nothing else; and no header is pending before a message.
THEOREM TokensAreWhole == Spec => []TokensStartAtData
<1>1. ParserInv => TokensStartAtData
  <2>. SUFFICES ASSUME ParserInv
                PROVE  TokensStartAtData
    OBVIOUS
  <2>1. ASSUME state \in {"InHeaderField", "InHeaderValue", "InBody"},
               NEW i \in 1..Len(calls)
        PROVE  Settled(calls[i])
    <3>1. CASE i = 1
      BY <2>1, <3>1 DEF ParserInv, CallsInv, GoodCalls, GoodTop, SettledStates
    <3>2. CASE i \in 2..Len(calls)
      BY <3>2 DEF ParserInv, CallsInv, GoodCalls
    <3>. QED
      BY <2>1, <3>1, <3>2 DEF ParserInv, CallsInv, GoodCalls
  <2>. QED
    BY <2>1 DEF TokensStartAtData, Settled, ParserInv, HeaderInv
<1>. QED
  BY <1>1, ParserInvariance, PTL

\* A buffered body has exactly the bytes its Content-Length announced, and
\* none if that is missing or negative, whatever the stream and its chunks.
THEOREM BodiesAreAsAnnounced == Spec => []BodyAsLongAsAnnounced
<1>1. ParserInv => BodyAsLongAsAnnounced
  BY DEF ParserInv, BodyInv, GoodBody, BodyAsLongAsAnnounced
<1>. QED
  BY <1>1, ParserInvariance, PTL
=============================================================================
