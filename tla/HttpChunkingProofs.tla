------------------------- MODULE HttpChunkingProofs -------------------------
(***************************************************************************)
(* Proofs that the chunks a stream comes in do not matter: whatever the    *)
(* stream, and however it is cut, the parser has handed out the bodies and *)
(* given the warnings that a reader of single bytes has at the same place. *)
(*                                                                         *)
(* Between the chunks the parser is in the state of the byte reader.       *)
(* Within a chunk it is not: it takes whole tokens, it looks ahead for the *)
(* end of a run of spaces, and it hands out a body only after the loop.    *)
(* What holds there (ReadInv) is that some reader agrees with the parser   *)
(* and ends, given the rest of the chunk, as the reader of the whole       *)
(* stream does (Reads). That reader is ahead of the parser where a block   *)
(* of headers has ended whose body is empty or has no length: the parser   *)
(* goes on to the next message only in its next step (Finish). An          *)
(* unbuffered parser keeps the length of its last body, so that once it    *)
(* has met a body without one (Lost) nothing is claimed of it.             *)
(*                                                                         *)
(* From this follows what becomes of messages.  At the end of the n-th one *)
(* the byte reader has their n bodies and no complaint (AllHanded), and    *)
(* since it takes nothing back, it has at every other place the first of   *)
(* them and no complaint either (HandedSoFar).  So the parser has met no   *)
(* space it could overread, has handed on no body without a length         *)
(* (SizedInv), and its bodies are the messages in their turn (InTurn):     *)
(* what a channel delivers.                                                *)
(***************************************************************************)
EXTENDS HttpStreamParserProofs

---------------------------------------------------------------------------
\* The bodies with a length, one body after the other.

\* With a body more: what is known up to the shorter length is continued.
SizedNext(all, before, n) ==
  IF all[n].size = NoLength THEN before ELSE Append(before, all[n].bytes)
UptoSized(g, all, n) ==
  g = [i \in 0..n |-> IF i = 0 THEN <<>> ELSE SizedNext(all, g[i - 1], i)]

LEMMA SizedStep ==
  ASSUME NEW all, NEW n \in Nat \ {0}, NEW g, UptoSized(g, all, n - 1)
  PROVE  UptoSized([i \in 0..n |-> IF i < n THEN g[i]
                                   ELSE SizedNext(all, g[n - 1], n)], all, n)
<1>. DEFINE h == [i \in 0..n |-> IF i < n THEN g[i]
                                 ELSE SizedNext(all, g[n - 1], n)]
<1>1. \A i \in 0..(n - 1) :
        /\ h[i] = g[i]
        /\ g[i] = IF i = 0 THEN <<>> ELSE SizedNext(all, g[i - 1], i)
  BY DEF UptoSized
<1>2. h[n] = SizedNext(all, g[n - 1], n) /\ DOMAIN h = 0..n
  OBVIOUS
<1>3. h = [i \in 0..n |-> h[i]]
  OBVIOUS
<1>. HIDE DEF h
<1>4. ASSUME NEW i \in 0..n
      PROVE  h[i] = IF i = 0 THEN <<>> ELSE SizedNext(all, h[i - 1], i)
  <2>1. CASE i = n
    <3>1. n - 1 \in 0..(n - 1)
      OBVIOUS
    <3>2. h[n - 1] = g[n - 1]
      BY <1>1, <3>1
    <3>. QED
      BY <1>2, <2>1, <3>2
  <2>2. CASE i # n
    <3>1. i \in 0..(n - 1) /\ (i # 0 => i - 1 \in 0..(n - 1))
      BY <2>2
    <3>. QED
      BY <1>1, <3>1
  <2>. QED
    BY <2>1, <2>2
<1>5. UptoSized(h, all, n)
  BY <1>3, <1>4 DEF UptoSized
<1>. QED
  BY <1>5 DEF h

LEMMA SizedUpto ==
  ASSUME NEW all, NEW n \in Nat
  PROVE  \E g : UptoSized(g, all, n)
<1>. DEFINE Bad == {m \in 0..n : ~\E g : UptoSized(g, all, m)}
<1>1. Bad = {}
  <2>. SUFFICES ASSUME Bad # {} PROVE FALSE
    OBVIOUS
  <2>1. Bad \in SUBSET Nat
    OBVIOUS
  <2>2. PICK m \in Bad : \A i \in Bad : m <= i
    <3>. HIDE DEF Bad
    <3>. QED
      BY <2>1, Least
  <2>3. m # 0
    <3>1. UptoSized([i \in 0..0 |-> <<>>], all, 0)
      BY DEF UptoSized
    <3>. QED
      BY <3>1
  <2>4. m \in Nat \ {0} /\ m - 1 \in 0..n /\ m - 1 \notin Bad
    BY <2>2, <2>3
  <2>5. PICK g : UptoSized(g, all, m - 1)
    BY <2>4
  <2>. QED
    BY <2>2, <2>4, <2>5, SizedStep
<1>. QED
  BY <1>1

\* Two such functions are the same as far as the bodies are.
Alike(all, more, n) == \A i \in 1..n : more[i] = all[i]

LEMMA SizedSame ==
  ASSUME NEW all, NEW more, NEW n \in Nat, NEW m \in n..(n + 1),
         Alike(all, more, n), NEW g, UptoSized(g, all, n),
         NEW h, UptoSized(h, more, m)
  PROVE  g[n] = h[n]
<1>. DEFINE Bad == {i \in 0..n : g[i] # h[i]}
<1>1. Bad = {}
  <2>. SUFFICES ASSUME Bad # {} PROVE FALSE
    OBVIOUS
  <2>1. Bad \in SUBSET Nat
    OBVIOUS
  <2>2. PICK i \in Bad : \A j \in Bad : i <= j
    <3>. HIDE DEF Bad
    <3>. QED
      BY <2>1, Least
  <2>3. i \in 0..n /\ i \in 0..m
    BY <2>2
  <2>4. /\ g[i] = IF i = 0 THEN <<>> ELSE SizedNext(all, g[i - 1], i)
        /\ h[i] = IF i = 0 THEN <<>> ELSE SizedNext(more, h[i - 1], i)
    BY <2>3 DEF UptoSized
  <2>5. i # 0
    BY <2>2, <2>4
  <2>6. i - 1 \in 0..n /\ i - 1 \notin Bad /\ i \in 1..n
    BY <2>2, <2>5
  <2>7. g[i - 1] = h[i - 1] /\ more[i] = all[i]
    BY <2>6 DEF Alike
  <2>8. SizedNext(all, g[i - 1], i) = SizedNext(more, h[i - 1], i)
    BY <2>7 DEF SizedNext
  <2>. QED
    BY <2>2, <2>4, <2>5, <2>8
<1>2. n \in 0..n /\ n \notin Bad
  BY <1>1
<1>. QED
  BY <1>2

LEMMA SizedIs ==
  ASSUME NEW all, Len(all) \in Nat
  PROVE  \E g : UptoSized(g, all, Len(all)) /\ SizedBodies(all) = g[Len(all)]
<1>. DEFINE g == CHOOSE f : UptoSized(f, all, Len(all))
<1>1. UptoSized(g, all, Len(all))
  BY SizedUpto
<1>2. SizedBodies(all) = g[Len(all)]
  BY DEF SizedBodies, UptoSized, SizedNext
<1>. QED
  BY <1>1, <1>2

LEMMA NoBodies == SizedBodies(<<>>) = <<>>
<1>1. Len(<<>>) \in Nat /\ Len(<<>>) = 0
  OBVIOUS
<1>2. PICK g : UptoSized(g, <<>>, 0) /\ SizedBodies(<<>>) = g[0]
  BY <1>1, SizedIs
<1>. QED
  BY <1>2 DEF UptoSized

LEMMA OneMore ==
  ASSUME NEW all \in Seq([size : Int, bytes : Seq(Bytes)]),
         NEW body \in [size : Int, bytes : Seq(Bytes)]
  PROVE  SizedBodies(Append(all, body)) =
           IF body.size = NoLength THEN SizedBodies(all)
           ELSE Append(SizedBodies(all), body.bytes)
<1>1. PICK more : more = Append(all, body)
  OBVIOUS
<1>2. PICK n \in Nat : n = Len(all)
  OBVIOUS
<1>3. /\ Len(more) = n + 1 /\ more[n + 1] = body
      /\ \A i \in 1..n : more[i] = all[i]
  BY <1>1, <1>2, AppendProperties
<1>4. PICK g : UptoSized(g, all, n) /\ SizedBodies(all) = g[n]
  BY <1>2, SizedIs
<1>5. n + 1 \in Nat /\ n + 1 \in n..(n + 1)
  OBVIOUS
<1>6. PICK h : UptoSized(h, more, n + 1) /\ SizedBodies(more) = h[n + 1]
  BY <1>3, <1>5, SizedIs
<1>7. g[n] = h[n]
  <2>1. PICK m \in n..(n + 1) : m = n + 1
    BY <1>5
  <2>2. Alike(all, more, n)
    BY <1>3 DEF Alike
  <2>3. UptoSized(g, all, n) /\ UptoSized(h, more, m)
    BY <1>4, <1>6, <2>1
  <2>4. n \in Nat /\ m \in n..(n + 1)
    OBVIOUS
  <2>. QED
    BY ONLY <2>2, <2>3, <2>4, SizedSame
<1>8. n + 1 \in 0..(n + 1) /\ n + 1 # 0 /\ (n + 1) - 1 = n
  OBVIOUS
<1>9. h[n + 1] = SizedNext(more, h[n], n + 1)
  BY <1>6, <1>8 DEF UptoSized
<1>. QED
  BY <1>1, <1>3, <1>4, <1>6, <1>7, <1>9 DEF SizedNext

---------------------------------------------------------------------------
\* The parser and the byte reader.  While receiveData runs, the reader is one
\* that, given the rest of the chunk, ends as the reader of the whole stream
\* does; it may be ahead of the parser by the end of a body, see Finish.

\* What the calls in progress have not looked at.
RestOf(stack) ==
  IF stack = <<>> THEN <<>> ELSE Drop(Head(stack).data, Head(stack).pos)

\* One call at most; the loop is left with the whole chunk parsed; and a body
\* that needs no bytes is not left to the next chunk.
Going(stack) == stack # <<>> /\ Tail(stack) = <<>> /\ ~Head(stack).done
OneCall(stack, s, size) ==
  IF stack = <<>> THEN ~(s = "InBody" /\ size \in {NoLength, 0})
  ELSE /\ Tail(stack) = <<>>
       /\ Head(stack).done => s = "PreHeader" /\ RestOf(stack) = <<>>
CallInv == OneCall(calls, state, contentSize)

HeaderAgrees(s) ==
  /\ s.state = state
  /\ s.field = field /\ s.value = value /\ s.headers = headers
  /\ s.warnings = warnings
BodyAgrees(s) ==
  /\ s.body = <<>> \/ (state = "InBody" /\ Len(s.body) < s.size)
  /\ state = "InBody" => s.size = contentSize /\ Len(s.body) = packetSize
  /\ IF mode = "BUFFERED"
     THEN /\ s.size = contentSize /\ s.body = packet
          /\ s.bodies = SizedBodies(bodies)
     ELSE /\ Len(s.bodies) = Len(bodies)
          /\ s.size \in {NoLength, contentSize}
          /\ state = "InBody" => s.size # NoLength

\* What the reader makes of the bytes handed to receiveData.
ReadSoFar == Read(SubSeq(feed.stream, 1, given))

\* An unbuffered parser that has met a block without a length.
Lost == mode # "BUFFERED" /\ ReadSoFar.unsized # 0
Reads(s) == /\ HeaderAgrees(s) /\ BodyAgrees(s)
            /\ ReadFrom(Finish(s), RestOf(calls)) = ReadSoFar
ReadInv ==
  ~feed.nested /\ ~overread =>
    CallInv /\ (Lost \/ \E s \in Reader : Reads(s))

\* A step of the parser is followed by a reader that ends as s does.
Leads(s, t) ==
  ReadFrom(Finish(t), RestOf(calls')) = ReadFrom(Finish(s), RestOf(calls))
Followed(s) ==
  \E t \in Reader : /\ Leads(s, t)
                    /\ \/ HeaderAgrees(t)' /\ BodyAgrees(t)'
                       \/ mode # "BUFFERED" /\ Finish(t).unsized # 0

---------------------------------------------------------------------------
\* The call in progress, when it is the only one.

LEMMA CallMoved ==
  ASSUME ParserInv, CallInv, NEW s, InLoop(s), NEW p \in Nat, MoveTo(p)
  PROVE  Going(calls') /\ RestOf(calls') = Drop(data, p)
<1>1. calls # <<>> /\ Tail(calls) = <<>> /\ ~Top.done /\ Top \in Calls
  BY LoopFacts DEF CallInv, OneCall, InLoop, GoodTop, GoodCall
<1>. DEFINE call == [Top EXCEPT !.pos = p, !.user = FALSE]
<1>2. call \in Calls /\ call.data = data /\ call.pos = p /\ ~call.done
  BY <1>1 DEF Calls, data
<1>3. calls' = <<call>> \o <<>>
  BY <1>1 DEF MoveTo, SetTop
<1>. HIDE DEF call
<1>4. calls' = <<call>>
  BY <1>2, <1>3
<1>5. calls' # <<>> /\ Tail(calls') = <<>> /\ Head(calls') = call
  BY <1>4
<1>. QED
  BY <1>2, <1>5 DEF Going, RestOf

LEMMA CallAdvanced ==
  ASSUME ParserInv, CallInv, NEW s, InLoop(s), NEW k \in 0..Len(data),
         NEW p \in 0..(Len(data) - k), Advance(k, p)
  PROVE  Going(calls') /\ RestOf(calls') = Drop(data, k + p)
<1>1. calls # <<>> /\ Tail(calls) = <<>> /\ ~Top.done /\ Top \in Calls
      /\ data \in Seq(Bytes)
  BY LoopFacts DEF CallInv, OneCall, InLoop, GoodTop, GoodCall
<1>. DEFINE call == [Top EXCEPT !.data = After(k), !.pos = p, !.user = FALSE]
<1>2. After(k) = Drop(data, k) /\ Drop(data, k) \in Seq(Bytes)
  BY <1>1, Dropped DEF After, Drop
<1>3. call \in Calls /\ call.data = Drop(data, k) /\ call.pos = p
      /\ ~call.done
  <2>1. PICK rest \in Seq(Bytes) : rest = After(k)
    BY <1>2
  <2>2. p \in Nat
    BY <1>1
  <2>. QED
    BY <1>1, <1>2, <2>1, <2>2 DEF Calls
<1>4. calls' = <<call>> \o <<>>
  BY <1>1 DEF Advance, SetTop
<1>. HIDE DEF call
<1>5. calls' = <<call>>
  BY <1>3, <1>4
<1>6. calls' # <<>> /\ Tail(calls') = <<>> /\ Head(calls') = call
  BY <1>5
<1>7. Drop(Drop(data, k), p) = Drop(data, k + p)
  BY <1>1, DropTwice
<1>. QED
  BY <1>3, <1>6, <1>7 DEF Going, RestOf

LEMMA CallReturned ==
  ASSUME CallInv, calls # <<>>, Return
  PROVE  calls' = <<>> /\ RestOf(calls') = <<>>
  BY DEF CallInv, OneCall, Return, RestOf

LEMMA StillGoing ==
  ASSUME Going(calls')
  PROVE  CallInv'
  BY DEF CallInv, OneCall, Going

\* Where the loop stands: the next byte, and what is left.
LEMMA AtByte ==
  ASSUME ParserInv, NEW s, InLoop(s)
  PROVE  /\ data \in Seq(Bytes) /\ dataPos \in 0..(Len(data) - 1)
         /\ c = data[dataPos + 1] /\ c \in Bytes
         /\ RestOf(calls) = Drop(data, dataPos)
<1>1. /\ calls # <<>> /\ data \in Seq(Bytes)
      /\ dataPos \in 0..Len(data) /\ dataPos < Len(data)
  BY LoopFacts
<1>. QED
  BY <1>1 DEF c, RestOf, data, dataPos, Top

---------------------------------------------------------------------------
\* Steps outside the body.

\* They leave the body alone.
LEMMA SameBody ==
  ASSUME NEW s, NEW t, BodyAgrees(s), UNCHANGED <<mode, bodyVars>>,
         state # "InBody", state' # "InBody",
         t.size = s.size, t.body = s.body, t.bodies = s.bodies
  PROVE  BodyAgrees(t)'
  BY DEF BodyAgrees, bodyVars

\* A byte is read by the parser and the reader.
LEMMA ByteRead ==
  ASSUME ParserInv, NEW st, InLoop(st), st # "InBody",
         NEW s \in Reader, s.state = st,
         NEW t, t.state # "InBody", t = ReadByte(s, c),
         RestOf(calls') = Drop(data, dataPos + 1)
  PROVE  t \in Reader /\ Leads(s, t)
<1>1. /\ data \in Seq(Bytes) /\ dataPos \in 0..(Len(data) - 1)
      /\ c = data[dataPos + 1] /\ c \in Bytes
      /\ RestOf(calls) = Drop(data, dataPos)
  BY AtByte
<1>2. ReadFrom(s, Drop(data, dataPos))
        = ReadFrom(ReadByte(s, data[dataPos + 1]), Drop(data, dataPos + 1))
  BY <1>1, ReadByteThen
<1>3. Finish(s) = s /\ Finish(t) = t
  BY DEF Finish
<1>. QED
  BY <1>1, <1>2, <1>3, ByteTyped DEF Leads

\* The parser goes to another state for the same byte.
LEMMA ByteKept ==
  ASSUME ParserInv, NEW st, InLoop(st), st # "InBody",
         NEW s \in Reader, s.state = st,
         NEW t, t.state # "InBody", ReadByte(t, c) = ReadByte(s, c),
         RestOf(calls') = Drop(data, dataPos)
  PROVE  Leads(s, t)
<1>1. /\ data \in Seq(Bytes) /\ dataPos \in 0..(Len(data) - 1)
      /\ c = data[dataPos + 1]
      /\ RestOf(calls) = Drop(data, dataPos)
  BY AtByte
<1>2. ReadFrom(s, Drop(data, dataPos)) = ReadFrom(t, Drop(data, dataPos))
  BY <1>1, SameNext
<1>3. Finish(s) = s /\ Finish(t) = t
  BY DEF Finish
<1>. QED
  BY <1>1, <1>2, <1>3 DEF Leads

\* What does not depend on the state of the reader.
LEMMA Gone ==
  ASSUME NEW s \in Reader, NEW st \in ReaderStates
  PROVE  /\ Goto(s, st).state = st
         /\ \A to : Goto(Goto(s, st), to) = Goto(s, to)
         /\ \A n : /\ Warn(s, n).state = s.state
                   /\ Warn(Goto(s, st), n) = Goto(Warn(s, n), st)
         /\ \A b : FieldByte(Goto(s, st), b) = FieldByte(s, b)
         /\ \A b : ValueByte(Goto(s, st), b) = ValueByte(s, b)
         /\ BeginsBody(Goto(s, st)) = BeginsBody(s)
<1>1. /\ Goto(s, st).state = st
      /\ \A to : Goto(Goto(s, st), to) = Goto(s, to)
      /\ \A n : /\ Warn(s, n).state = s.state
                /\ Warn(Goto(s, st), n) = Goto(Warn(s, n), st)
  BY DEF Goto, Warn, Reader
<1>2. \A b : FieldByte(Goto(s, st), b) = FieldByte(s, b)
  BY <1>1 DEF FieldByte
<1>3. \A b : ValueByte(Goto(s, st), b) = ValueByte(s, b)
  BY <1>1 DEF ValueByte
<1>4. BeginsBody(Goto(s, st)) = BeginsBody(s)
  <2>1. PICK g : g = Goto(s, st)
    OBVIOUS
  <2>2. /\ g.field = s.field /\ g.value = s.value
        /\ g.blocks = s.blocks /\ g.warnings = s.warnings
        /\ g.size = s.size /\ g.headers = s.headers
    BY <2>1 DEF Goto, Reader
  <2>3. CASE s.field = <<>> /\ s.value = <<>>
    <3>1. EndHeader(g) = g /\ EndHeader(s) = s
      BY <2>2, <2>3 DEF EndHeader
    <3>. QED
      BY <2>1, <3>1 DEF BeginsBody, Goto, Reader
  <2>4. CASE ~(s.field = <<>> /\ s.value = <<>>)
    <3>1. EndHeader(g) = Goto(EndHeader(s), st)
      BY <2>1, <2>2, <2>4 DEF EndHeader, Goto, Reader
    <3>2. PICK h \in Reader : h = EndHeader(s)
      BY EndHeaderTyped
    <3>3. [Goto(h, st) EXCEPT !.blocks = @ + 1]
            = Goto([h EXCEPT !.blocks = @ + 1], st)
      BY DEF Goto, Reader
    <3>4. Goto(Goto([h EXCEPT !.blocks = @ + 1], st), "InBody")
            = Goto([h EXCEPT !.blocks = @ + 1], "InBody")
      BY DEF Goto, Reader
    <3>. QED
      BY <2>1, <3>1, <3>2, <3>3, <3>4 DEF BeginsBody
  <2>. QED
    BY <2>3, <2>4
<1>. QED
  BY <1>1, <1>2, <1>3, <1>4, SMTT(30)

\* A step to another state, with n complaints and nothing else.
LEMMA GoesTo ==
  ASSUME NEW s \in Reader, NEW st \in ReaderStates, NEW n \in Nat
  PROVE  LET t == Warn(Goto(s, st), n)
         IN  /\ t \in Reader /\ t.state = st /\ t.warnings = s.warnings + n
             /\ t.field = s.field /\ t.value = s.value
             /\ t.headers = s.headers /\ t.size = s.size
             /\ t.body = s.body /\ t.bodies = s.bodies
<1>1. Warn(Goto(s, st), n) \in Reader
  BY GotoTyped, WarnTyped
<1>. QED
  BY <1>1 DEF Warn, Goto, Reader

LEMMA Outside ==
  ASSUME NEW s \in Reader, HeaderAgrees(s), BodyAgrees(s),
         NEW st \in ReaderStates, NEW n \in Nat,
         state # "InBody", st # "InBody", state' = st, Complain(n),
         UNCHANGED <<mode, headerVars, bodyVars>>,
         Leads(s, Warn(Goto(s, st), n))
  PROVE  Followed(s)
<1>1. PICK t \in Reader : t = Warn(Goto(s, st), n)
  BY GoesTo
<1>2. /\ t.state = st /\ t.warnings = s.warnings + n
      /\ t.field = s.field /\ t.value = s.value /\ t.headers = s.headers
      /\ t.size = s.size /\ t.body = s.body /\ t.bodies = s.bodies
  BY <1>1, GoesTo
<1>3. BodyAgrees(t)'
  BY <1>2, SameBody
<1>4. HeaderAgrees(t)'
  BY <1>2 DEF HeaderAgrees, headerVars, Complain
<1>. QED
  BY <1>1, <1>3, <1>4 DEF Followed

LEMMA WarnNever ==
  ASSUME NEW s \in Reader
  PROVE  Warn(s, 0) = s
<1>1. s.warnings \in Nat
  BY DEF Reader
<1>2. s.warnings + 0 = s.warnings
  BY <1>1
<1>. QED
  BY <1>2 DEF Warn, Reader

LEMMA PreHeaderReads ==
  ASSUME ParserInv, CallInv, PreHeader,
         NEW s \in Reader, HeaderAgrees(s), BodyAgrees(s)
  PROVE  Followed(s)
<1>1. /\ InLoop("PreHeader") /\ c # SPACE /\ state = "PreHeader"
      /\ UNCHANGED <<mode, headerVars, bodyVars>>
      /\ \/ c = LF /\ state' = "AfterCrLf" /\ MoveTo(dataPos + 1) /\ Complain(1)
         \/ c = CR /\ state' = "AfterCr" /\ MoveTo(dataPos + 1) /\ Complain(0)
         \/ /\ c \notin {LF, CR}
            /\ state' = "InHeaderField" /\ MoveTo(dataPos) /\ Complain(0)
  BY DEF PreHeader, InLoop, chunkVars
<1>2. s.state = "PreHeader" /\ dataPos \in Nat /\ dataPos + 1 \in Nat
      /\ {"AfterCrLf", "AfterCr", "InHeaderField"} \subseteq ReaderStates
  BY <1>1, AtByte DEF HeaderAgrees, ReaderStates
<1>3. CASE c = LF /\ state' = "AfterCrLf" /\ MoveTo(dataPos + 1) /\ Complain(1)
  <2>1. PICK t : t = Warn(Goto(s, "AfterCrLf"), 1)
    OBVIOUS
  <2>2. t = ReadByte(s, c)
    BY <1>2, <1>3, <2>1 DEF ReadByte, PreHeaderByte
  <2>3. t.state = "AfterCrLf"
    BY <1>2, <2>1, GoesTo
  <2>4. Leads(s, t)
    BY <1>1, <1>2, <1>3, <2>2, <2>3, CallMoved, ByteRead
  <2>. QED
    BY <1>1, <1>2, <1>3, <2>1, <2>4, Outside
<1>4. CASE c = CR /\ state' = "AfterCr" /\ MoveTo(dataPos + 1) /\ Complain(0)
  <2>1. PICK t : t = Warn(Goto(s, "AfterCr"), 0)
    OBVIOUS
  <2>2. t = ReadByte(s, c)
    BY <1>2, <1>4, <2>1, GotoTyped, WarnNever
       DEF ReadByte, PreHeaderByte, LF, CR
  <2>3. t.state = "AfterCr"
    BY <1>2, <2>1, GoesTo
  <2>4. Leads(s, t)
    BY <1>1, <1>2, <1>4, <2>2, <2>3, CallMoved, ByteRead
  <2>. QED
    BY <1>1, <1>2, <1>4, <2>1, <2>4, Outside
<1>5. CASE /\ c \notin {LF, CR}
           /\ state' = "InHeaderField" /\ MoveTo(dataPos) /\ Complain(0)
  <2>1. PICK t : t = Warn(Goto(s, "InHeaderField"), 0)
    OBVIOUS
  <2>2. t = Goto(s, "InHeaderField") /\ t.state = "InHeaderField"
    BY <1>2, <2>1, GotoTyped, WarnNever, Gone
  <2>3. ReadByte(t, c) = FieldByte(s, c)
    BY <1>2, <2>2, Gone DEF ReadByte
  <2>4. ReadByte(s, c) = FieldByte(s, c)
    BY <1>1, <1>2, <1>5 DEF ReadByte, PreHeaderByte
  <2>5. Leads(s, t)
    BY <1>1, <1>2, <1>5, <2>2, <2>3, <2>4, CallMoved, ByteKept
  <2>. QED
    BY <1>1, <1>2, <1>5, <2>1, <2>5, Outside
<1>. QED
  BY <1>1, <1>3, <1>4, <1>5

\* What a run of spaces ends with.
LEMMA NonSpace ==
  ASSUME ParserInv, NEW s, InLoop(s)
  PROVE  /\ FirstNonSpace \in dataPos..Len(data)
         /\ FirstNonSpace < Len(data) => data[FirstNonSpace + 1] # SPACE
         /\ \A i \in dataPos..(FirstNonSpace - 1) : data[i + 1] = SPACE
         /\ c = SPACE => FirstNonSpace > dataPos
<1>1. data \in Seq(Bytes) /\ dataPos \in 0..(Len(data) - 1)
      /\ c = data[dataPos + 1]
  BY AtByte
<1>2. dataPos \in 0..Len(data)
  BY <1>1
<1>3. PICK k : k = FirstNonSpace
  OBVIOUS
<1>4. /\ k \in dataPos..Len(data)
      /\ k < Len(data) => data[k + 1] \in Bytes \ {SPACE}
      /\ \A i \in dataPos..(k - 1) : data[i + 1] \notin Bytes \ {SPACE}
  BY <1>1, <1>2, <1>3, ScanIs DEF FirstNonSpace
<1>5. ASSUME NEW i \in dataPos..(k - 1)
      PROVE  data[i + 1] = SPACE
  <2>1. data[i + 1] \in Bytes
    BY <1>1, <1>4
  <2>. QED
    BY <1>4, <2>1
<1>6. c = SPACE => k > dataPos
  <2>1. k = dataPos => c \in Bytes \ {SPACE}
    BY <1>1, <1>4
  <2>2. k # dataPos => k > dataPos
    BY <1>1, <1>4
  <2>. QED
    BY <2>1, <2>2
<1>. QED
  BY <1>3, <1>4, <1>5, <1>6

\* The bytes from position m to position k of the data.
LEMMA RunOf ==
  ASSUME data \in Seq(Bytes), NEW m \in 0..Len(data), NEW k \in m..Len(data),
         NEW stops, \A i \in m..(k - 1) : data[i + 1] \notin stops
  PROVE  /\ SubSeq(data, m + 1, k) \in Seq(Bytes)
         /\ \A i \in 1..Len(SubSeq(data, m + 1, k)) :
              SubSeq(data, m + 1, k)[i] \notin stops
<1>1. PICK run : run = SubSeq(data, m + 1, k)
  OBVIOUS
<1>2. /\ run \in Seq(Bytes) /\ Len(run) = k - m
      /\ \A i \in 1..(k - m) : run[i] = data[m + i]
  BY <1>1, Taking
<1>3. ASSUME NEW i \in 1..(k - m)
      PROVE  run[i] \notin stops
  <2>1. m + (i - 1) \in m..(k - 1) /\ (m + (i - 1)) + 1 = m + i
    OBVIOUS
  <2>2. data[m + i] \notin stops
    BY <2>1
  <2>. QED
    BY <1>2, <2>2
<1>. QED
  BY <1>1, <1>2, <1>3

\* A reader that skips spaces has skipped them.
LEMMA SpacesSkipped ==
  ASSUME data \in Seq(Bytes), NEW m \in 0..Len(data), NEW k \in m..Len(data),
         \A i \in m..(k - 1) : data[i + 1] = SPACE,
         NEW s \in Reader, s.state \in {"PreSpace", "HeaderValueSpace"}
  PROVE  ReadFrom(s, Drop(data, m)) = ReadFrom(s, Drop(data, k))
<1>1. \A i \in m..(k - 1) : data[i + 1] \notin Bytes \ {SPACE}
  OBVIOUS
<1>2. PICK run : run = SubSeq(data, m + 1, k)
  OBVIOUS
<1>3. /\ run \in Seq(Bytes)
      /\ \A i \in 1..Len(run) : run[i] \notin Bytes \ {SPACE}
  BY <1>1, <1>2, RunOf
<1>4. \A i \in 1..Len(run) : run[i] = SPACE
  BY <1>3
<1>5. ReadFrom(s, run) = s
  BY <1>3, <1>4, SpaceRun
<1>. QED
  BY <1>2, <1>5, ReadTokenThen

LEMMA PreHeaderSpaceReads ==
  ASSUME ParserInv, CallInv, PreHeaderSpace,
         NEW s \in Reader, HeaderAgrees(s), BodyAgrees(s)
  PROVE  Followed(s)
<1>1. /\ InLoop("PreHeader") /\ c = SPACE /\ state = "PreHeader"
      /\ FirstNonSpace < Len(data) /\ Advance(FirstNonSpace, 0)
      /\ state' = "InHeaderField" /\ Complain(1)
      /\ UNCHANGED <<mode, headerVars, bodyVars>>
  BY DEF PreHeaderSpace, InLoop, chunkVars
<1>2. /\ s.state = "PreHeader" /\ data \in Seq(Bytes)
      /\ dataPos \in 0..(Len(data) - 1) /\ c = data[dataPos + 1]
      /\ RestOf(calls) = Drop(data, dataPos)
      /\ {"PreSpace", "InHeaderField"} \subseteq ReaderStates
  BY <1>1, AtByte DEF HeaderAgrees, ReaderStates
<1>3. PICK k : k = FirstNonSpace
  OBVIOUS
<1>4. /\ k \in (dataPos + 1)..Len(data) /\ k < Len(data)
      /\ data[k + 1] # SPACE /\ k + 0 = k
      /\ \A i \in (dataPos + 1)..(k - 1) : data[i + 1] = SPACE
  BY <1>1, <1>2, <1>3, NonSpace
<1>5. PICK w \in Reader : w = Warn(s, 1)
  BY WarnTyped
<1>6. PICK u \in Reader : u = Goto(w, "PreSpace")
  BY <1>2, GotoTyped
<1>7. PICK t \in Reader : t = Goto(w, "InHeaderField")
  BY <1>2, GotoTyped
<1>8. u = Warn(Goto(s, "PreSpace"), 1) /\ t = Warn(Goto(s, "InHeaderField"), 1)
      /\ u.state = "PreSpace" /\ t.state = "InHeaderField"
  BY <1>2, <1>5, <1>6, <1>7, Gone
<1>9. ReadByte(s, c) = u
  BY <1>1, <1>2, <1>8 DEF ReadByte, PreHeaderByte, SPACE, LF, CR
<1>10. ReadFrom(s, Drop(data, dataPos)) = ReadFrom(u, Drop(data, dataPos + 1))
  BY <1>2, <1>9, ReadByteThen
<1>11. ReadFrom(u, Drop(data, dataPos + 1)) = ReadFrom(u, Drop(data, k))
  <2>1. dataPos + 1 \in 0..Len(data)
    BY <1>2
  <2>. QED
    BY <1>2, <1>4, <1>8, <2>1, SpacesSkipped
<1>12. ReadFrom(u, Drop(data, k)) = ReadFrom(t, Drop(data, k))
  <2>1. /\ ReadByte(u, data[k + 1]) = FieldByte(u, data[k + 1])
        /\ ReadByte(t, data[k + 1]) = FieldByte(t, data[k + 1])
    BY <1>4, <1>8 DEF ReadByte
  <2>2. FieldByte(u, data[k + 1]) = FieldByte(t, data[k + 1])
    BY <1>2, <1>6, <1>7, Gone
  <2>3. k \in 0..(Len(data) - 1)
    BY <1>2, <1>4
  <2>. QED
    BY <1>2, <2>1, <2>2, <2>3, SameNext
<1>13. RestOf(calls') = Drop(data, k)
  <2>1. k \in 0..Len(data) /\ 0 \in 0..(Len(data) - k)
    BY <1>2, <1>4
  <2>2. RestOf(calls') = Drop(data, k + 0)
    BY <1>1, <1>3, <2>1, CallAdvanced
  <2>. QED
    BY <1>4, <2>2
<1>14. Finish(s) = s /\ Finish(t) = t
  BY <1>2, <1>8 DEF Finish
<1>15. Leads(s, Warn(Goto(s, "InHeaderField"), 1))
  BY <1>2, <1>8, <1>10, <1>11, <1>12, <1>13, <1>14 DEF Leads
<1>. QED
  BY <1>1, <1>2, <1>15, Outside

LEMMA HeaderFieldReads ==
  ASSUME ParserInv, CallInv, HeaderField,
         NEW s \in Reader, HeaderAgrees(s), BodyAgrees(s)
  PROVE  Followed(s)
<1>. DEFINE end == Scan({CR, LF, COLON})
<1>1. /\ InLoop("InHeaderField") /\ state = "InHeaderField"
      /\ UNCHANGED <<mode, value, headers, bodyVars>>
      /\ field' = field \o SubSeq(data, 1, end)
      /\ \/ /\ end = Len(data) /\ Return /\ UNCHANGED state
            /\ Complain(SpacesIn(SubSeq(data, dataPos + 1, end)))
         \/ /\ end # Len(data) /\ data[end + 1] = COLON
            /\ state' = "HeaderValueSpace" /\ Advance(end + 1, 0)
            /\ Complain(SpacesIn(SubSeq(data, dataPos + 1, end)))
         \/ /\ end # Len(data) /\ data[end + 1] # COLON
            /\ state' = IF data[end + 1] = LF THEN "AfterCrLf" ELSE "AfterCr"
            /\ Advance(end, 1)
            /\ Complain(SpacesIn(SubSeq(data, dataPos + 1, end)) + 1)
  BY DEF HeaderField, InLoop, chunkVars
<1>2. /\ s.state = "InHeaderField" /\ data \in Seq(Bytes) /\ calls # <<>>
      /\ dataPos = 0 /\ dataPos + 1 = 1 /\ RestOf(calls) = Drop(data, 0)
      /\ Len(data) > 0
  BY <1>1, AtByte, LoopFacts DEF HeaderAgrees, SettledStates
<1>3. PICK k : k = end
  OBVIOUS
<1>4. /\ k \in 0..Len(data)
      /\ k < Len(data) => data[k + 1] \in {CR, LF, COLON}
      /\ \A i \in 0..(k - 1) : data[i + 1] \notin {CR, LF, COLON}
  <2>1. dataPos \in 0..Len(data)
    BY <1>2
  <2>. QED
    BY <1>2, <1>3, <2>1, ScanIs
<1>5. PICK name : name = SubSeq(data, 0 + 1, k)
  OBVIOUS
<1>6. /\ name \in Seq(Bytes) /\ name = SubSeq(data, 1, k)
      /\ \A i \in 1..Len(name) : name[i] \notin {CR, LF, COLON}
  <2>1. 0 \in 0..Len(data) /\ k \in 0..Len(data) /\ 0 + 1 = 1
    BY <1>4
  <2>2. PICK stops : stops = {CR, LF, COLON}
    OBVIOUS
  <2>3. \A i \in 0..(k - 1) : data[i + 1] \notin stops
    BY <1>4, <2>2
  <2>4. name \in Seq(Bytes) /\ \A i \in 1..Len(name) : name[i] \notin stops
    BY <1>2, <1>5, <2>1, <2>3, RunOf
  <2>. QED
    BY <1>5, <2>1, <2>2, <2>4
<1>7. PICK spaces \in Nat : spaces = SpacesIn(name)
  BY <1>6, SpacesCounted
<1>. HIDE DEF end
<1>8. PICK token \in Seq(Bytes) : token = s.field \o name
  BY <1>6, ConcatProperties DEF Reader
<1>9. PICK n \in Nat : n = s.warnings + spaces
  BY DEF Reader
<1>10. PICK u \in Reader : u = [s EXCEPT !.field = token, !.warnings = n]
  BY DEF Reader
<1>11. /\ u.state = "InHeaderField" /\ u.field = token /\ u.warnings = n
       /\ u.value = s.value /\ u.headers = s.headers /\ u.size = s.size
       /\ u.body = s.body /\ u.bodies = s.bodies
  BY <1>2, <1>10 DEF Reader
<1>12. ReadFrom(s, Drop(data, 0)) = ReadFrom(u, Drop(data, k))
  <2>1. spaces = SpacesTo(name, Len(name))
    BY <1>7 DEF SpacesIn, SpacesTo
  <2>2. ReadFrom(s, name) = u
    BY <1>2, <1>6, <1>8, <1>9, <1>10, <2>1, FieldRun DEF WithField
  <2>3. 0 \in 0..Len(data) /\ k \in 0..Len(data)
    BY <1>4
  <2>. QED
    BY <1>2, <1>5, <2>2, <2>3, ReadTokenThen
<1>13. Finish(s) = s /\ Finish(u) = u
  BY <1>2, <1>11 DEF Finish
<1>14. /\ token = field' /\ u.value = value' /\ u.headers = headers'
       /\ u.warnings = warnings + spaces
  BY <1>1, <1>3, <1>6, <1>8, <1>9, <1>11 DEF HeaderAgrees
<1>15. CASE k = Len(data)
  <2>1. Return /\ UNCHANGED state /\ Complain(spaces)
    BY <1>1, <1>2, <1>3, <1>6, <1>7, <1>15
  <2>2. RestOf(calls') = <<>> /\ Drop(data, k) = <<>>
    BY <1>2, <1>15, <2>1, CallReturned, DropAll
  <2>3. Leads(s, u)
    BY <1>2, <1>12, <1>13, <2>2 DEF Leads
  <2>4. HeaderAgrees(u)'
    BY <1>1, <1>11, <1>14, <2>1 DEF HeaderAgrees, Complain
  <2>5. BodyAgrees(u)'
    BY <1>1, <1>11, <2>1, SameBody
  <2>. QED
    BY <2>3, <2>4, <2>5 DEF Followed
<1>16. CASE k # Len(data)
  <2>1. k \in 0..(Len(data) - 1) /\ data[k + 1] \in {CR, LF, COLON}
    BY <1>2, <1>4, <1>16
  <2>2. ReadFrom(u, Drop(data, k))
          = ReadFrom(ReadByte(u, data[k + 1]), Drop(data, k + 1))
    BY <1>2, <2>1, ReadByteThen
  <2>3. ReadByte(u, data[k + 1]) = FieldByte(u, data[k + 1])
    BY <1>11 DEF ReadByte
  <2>4. PICK st \in {"HeaderValueSpace", "AfterCrLf", "AfterCr"} : state' = st
    BY <1>1, <1>3, <1>16
  <2>5. PICK m \in {0, 1} :
          /\ m = IF st = "HeaderValueSpace" THEN 0 ELSE 1
          /\ Complain(spaces + m)
    <3>1. spaces + 0 = spaces
      OBVIOUS
    <3>. QED
      BY <1>1, <1>2, <1>3, <1>6, <1>7, <1>16, <2>4, <3>1
  <2>6. RestOf(calls') = Drop(data, k + 1)
    <3>1. /\ k \in 0..Len(data) /\ k + 1 \in 0..Len(data)
          /\ 0 \in 0..(Len(data) - (k + 1)) /\ 1 \in 0..(Len(data) - k)
          /\ (k + 1) + 0 = k + 1
      BY <1>2, <2>1
    <3>2. Advance(k + 1, 0) \/ Advance(k, 1)
      BY <1>1, <1>3, <1>16
    <3>3. CASE Advance(k + 1, 0)
      BY <1>1, <3>1, <3>3, CallAdvanced
    <3>4. CASE Advance(k, 1)
      BY <1>1, <3>1, <3>4, CallAdvanced
    <3>. QED
      BY <3>2, <3>3, <3>4
  <2>7. PICK t \in Reader : t = Warn(Goto(u, st), m)
    <3>1. st \in ReaderStates /\ m \in Nat
      BY DEF ReaderStates
    <3>. QED
      BY <3>1, GoesTo
  <2>8. ReadByte(u, data[k + 1]) = t
    <3>1. Warn(Goto(u, "HeaderValueSpace"), 0) = Goto(u, "HeaderValueSpace")
      BY GotoTyped, WarnNever DEF ReaderStates
    <3>2. CASE data[k + 1] = COLON
      <4>1. st = "HeaderValueSpace" /\ m = 0
        BY <1>1, <1>3, <1>16, <2>4, <2>5, <3>2
      <4>. QED
        BY <2>3, <2>7, <3>1, <3>2, <4>1 DEF FieldByte, COLON, CR, LF
    <3>3. CASE data[k + 1] # COLON
      <4>1. st = (IF data[k + 1] = LF THEN "AfterCrLf" ELSE "AfterCr")
            /\ m = 1
        BY <1>1, <1>3, <1>16, <2>4, <2>5, <3>3
      <4>. QED
        BY <2>1, <2>3, <2>7, <3>3, <4>1 DEF FieldByte, LF, CR
    <3>. QED
      BY <3>2, <3>3
  <2>9. /\ t.state = st /\ t.warnings = u.warnings + m
        /\ t.field = u.field /\ t.value = u.value /\ t.headers = u.headers
        /\ t.size = u.size /\ t.body = u.body /\ t.bodies = u.bodies
    <3>1. st \in ReaderStates /\ m \in Nat
      BY DEF ReaderStates
    <3>. QED
      BY <2>7, <3>1, GoesTo
  <2>10. Finish(t) = t
    BY <2>9 DEF Finish
  <2>11. Leads(s, t)
    BY <1>2, <1>12, <1>13, <2>2, <2>6, <2>8, <2>10 DEF Leads
  <2>12. HeaderAgrees(t)'
    <3>1. warnings' = t.warnings
      BY <1>14, <2>5, <2>9 DEF Complain, ParserInv, FaultInv
    <3>. QED
      BY <1>11, <1>14, <2>4, <2>9, <3>1 DEF HeaderAgrees
  <2>13. BodyAgrees(t)'
    BY <1>1, <1>11, <2>4, <2>9, SameBody
  <2>. QED
    BY <2>11, <2>12, <2>13 DEF Followed
<1>. QED
  BY <1>15, <1>16

LEMMA HeaderValueSpaceReads ==
  ASSUME ParserInv, CallInv, HeaderValueSpace,
         NEW s \in Reader, HeaderAgrees(s), BodyAgrees(s)
  PROVE  Followed(s)
<1>1. /\ InLoop("HeaderValueSpace") /\ state = "HeaderValueSpace"
      /\ UNCHANGED <<mode, field, headers, bodyVars, warnings>>
      /\ IF FirstNonSpace < Len(data)
         THEN /\ Advance(FirstNonSpace, 0)
              /\ state' = "InHeaderValue" /\ value' = <<>>
         ELSE MoveTo(Len(data)) /\ UNCHANGED <<state, value>>
  BY DEF HeaderValueSpace, InLoop, chunkVars
<1>2. /\ s.state = "HeaderValueSpace" /\ data \in Seq(Bytes)
      /\ dataPos \in 0..(Len(data) - 1) /\ RestOf(calls) = Drop(data, dataPos)
  BY <1>1, AtByte DEF HeaderAgrees
<1>3. PICK k : k = FirstNonSpace
  OBVIOUS
<1>4. /\ k \in dataPos..Len(data)
      /\ k < Len(data) => data[k + 1] # SPACE
      /\ \A i \in dataPos..(k - 1) : data[i + 1] = SPACE
  BY <1>1, <1>2, <1>3, NonSpace
<1>5. ReadFrom(s, Drop(data, dataPos)) = ReadFrom(s, Drop(data, k))
  <2>1. dataPos \in 0..Len(data)
    BY <1>2
  <2>. QED
    BY <1>2, <1>4, <2>1, SpacesSkipped
<1>6. Finish(s) = s
  BY <1>2 DEF Finish
<1>7. CASE k < Len(data)
  <2>1. Advance(k, 0) /\ state' = "InHeaderValue" /\ value' = <<>>
    BY <1>1, <1>3, <1>7
  <2>2. PICK none \in Seq(Bytes) : none = <<>>
    BY EmptySeq
  <2>3. PICK st \in ReaderStates : st = "InHeaderValue"
    BY DEF ReaderStates
  <2>4. PICK u \in Reader : u = [s EXCEPT !.value = none]
    BY DEF Reader
  <2>5. PICK t \in Reader : t = Goto(u, st)
    BY GotoTyped
  <2>6. /\ t.state = "InHeaderValue" /\ t.value = <<>>
        /\ t.warnings = s.warnings /\ t.field = s.field
        /\ t.headers = s.headers /\ t.size = s.size
        /\ t.body = s.body /\ t.bodies = s.bodies
    BY <2>2, <2>3, <2>4, <2>5 DEF Goto, Reader
  <2>7. ReadByte(s, data[k + 1]) = ReadByte(t, data[k + 1])
    <3>1. ReadByte(s, data[k + 1]) = ValueByte(u, data[k + 1])
      BY <1>2, <1>4, <1>7, <2>2, <2>4 DEF ReadByte
    <3>2. ReadByte(t, data[k + 1]) = ValueByte(t, data[k + 1])
      BY <2>6 DEF ReadByte
    <3>. QED
      BY <2>5, <3>1, <3>2, Gone
  <2>8. ReadFrom(s, Drop(data, k)) = ReadFrom(t, Drop(data, k))
    <3>1. k \in 0..(Len(data) - 1)
      BY <1>2, <1>4, <1>7
    <3>. QED
      BY <1>2, <2>7, <3>1, SameNext
  <2>9. RestOf(calls') = Drop(data, k)
    <3>1. k \in 0..Len(data) /\ 0 \in 0..(Len(data) - k) /\ k + 0 = k
      BY <1>2, <1>4
    <3>2. RestOf(calls') = Drop(data, k + 0)
      BY <1>1, <2>1, <3>1, CallAdvanced
    <3>. QED
      BY <3>1, <3>2
  <2>10. Finish(t) = t
    BY <2>6 DEF Finish
  <2>11. Leads(s, t)
    BY <1>2, <1>5, <1>6, <2>8, <2>9, <2>10 DEF Leads
  <2>12. HeaderAgrees(t)'
    BY <1>1, <2>1, <2>6 DEF HeaderAgrees
  <2>13. BodyAgrees(t)'
    BY <1>1, <2>1, <2>6, SameBody
  <2>. QED
    BY <2>11, <2>12, <2>13 DEF Followed
<1>8. CASE ~(k < Len(data))
  <2>1. MoveTo(Len(data)) /\ UNCHANGED <<state, value>>
    BY <1>1, <1>3, <1>8
  <2>2. k = Len(data) /\ Len(data) \in Nat
    BY <1>2, <1>4, <1>8
  <2>3. RestOf(calls') = Drop(data, k)
    BY <1>1, <2>1, <2>2, CallMoved
  <2>4. Leads(s, s)
    BY <1>2, <1>5, <1>6, <2>3 DEF Leads
  <2>5. HeaderAgrees(s)'
    BY <1>1, <2>1 DEF HeaderAgrees
  <2>6. BodyAgrees(s)'
    BY <1>1, <2>1, SameBody
  <2>. QED
    BY <2>4, <2>5, <2>6 DEF Followed
<1>. QED
  BY <1>7, <1>8

LEMMA HeaderValueReads ==
  ASSUME ParserInv, CallInv, HeaderValue,
         NEW s \in Reader, HeaderAgrees(s), BodyAgrees(s)
  PROVE  Followed(s)
<1>. DEFINE end == Scan({CR, LF})
<1>1. /\ InLoop("InHeaderValue") /\ state = "InHeaderValue"
      /\ UNCHANGED <<mode, field, headers, bodyVars>>
      /\ value' = value \o SubSeq(data, 1, end)
      /\ IF end = Len(data)
         THEN Return /\ UNCHANGED state /\ Complain(0)
         ELSE /\ Advance(end, 1)
              /\ IF data[end + 1] = LF
                 THEN state' = "AfterCrLf" /\ Complain(1)
                 ELSE state' = "AfterCr" /\ Complain(0)
  BY DEF HeaderValue, InLoop, chunkVars
<1>2. /\ s.state = "InHeaderValue" /\ data \in Seq(Bytes) /\ calls # <<>>
      /\ dataPos = 0 /\ RestOf(calls) = Drop(data, 0) /\ Len(data) > 0
  BY <1>1, AtByte, LoopFacts DEF HeaderAgrees, SettledStates
<1>3. PICK k : k = end
  OBVIOUS
<1>4. /\ k \in 0..Len(data)
      /\ k < Len(data) => data[k + 1] \in {CR, LF}
      /\ \A i \in 0..(k - 1) : data[i + 1] \notin {CR, LF}
  <2>1. dataPos \in 0..Len(data)
    BY <1>2
  <2>. QED
    BY <1>2, <1>3, <2>1, ScanIs
<1>5. PICK part : part = SubSeq(data, 0 + 1, k)
  OBVIOUS
<1>6. /\ part \in Seq(Bytes) /\ part = SubSeq(data, 1, k)
      /\ \A i \in 1..Len(part) : part[i] \notin {CR, LF}
  <2>1. 0 \in 0..Len(data) /\ k \in 0..Len(data) /\ 0 + 1 = 1
    BY <1>4
  <2>2. PICK stops : stops = {CR, LF}
    OBVIOUS
  <2>3. \A i \in 0..(k - 1) : data[i + 1] \notin stops
    BY <1>4, <2>2
  <2>4. part \in Seq(Bytes) /\ \A i \in 1..Len(part) : part[i] \notin stops
    BY <1>2, <1>5, <2>1, <2>3, RunOf
  <2>. QED
    BY <1>5, <2>1, <2>2, <2>4
<1>. HIDE DEF end
<1>7. PICK token \in Seq(Bytes) : token = s.value \o part
  BY <1>6, ConcatProperties DEF Reader
<1>8. PICK u \in Reader : u = [s EXCEPT !.value = token]
  BY DEF Reader
<1>9. /\ u.state = "InHeaderValue" /\ u.value = token
      /\ u.warnings = s.warnings /\ u.field = s.field
      /\ u.headers = s.headers /\ u.size = s.size
      /\ u.body = s.body /\ u.bodies = s.bodies
  BY <1>2, <1>8 DEF Reader
<1>10. ReadFrom(s, Drop(data, 0)) = ReadFrom(u, Drop(data, k))
  <2>1. ReadFrom(s, part) = u
    BY <1>2, <1>6, <1>7, <1>8, ValueRun
  <2>2. 0 \in 0..Len(data) /\ k \in 0..Len(data)
    BY <1>4
  <2>. QED
    BY <1>2, <1>5, <2>1, <2>2, ReadTokenThen
<1>11. Finish(s) = s /\ Finish(u) = u
  BY <1>2, <1>9 DEF Finish
<1>12. /\ u.field = field' /\ u.value = value' /\ u.headers = headers'
       /\ u.warnings = warnings
  BY <1>1, <1>3, <1>6, <1>7, <1>9 DEF HeaderAgrees
<1>13. CASE k = Len(data)
  <2>1. Return /\ UNCHANGED state /\ Complain(0)
    BY <1>1, <1>3, <1>13
  <2>2. RestOf(calls') = <<>> /\ Drop(data, k) = <<>>
    BY <1>2, <1>13, <2>1, CallReturned, DropAll
  <2>3. Leads(s, u)
    BY <1>2, <1>10, <1>11, <2>2 DEF Leads
  <2>4. warnings' = warnings
    BY <2>1 DEF Complain, ParserInv, FaultInv
  <2>5. HeaderAgrees(u)'
    BY <1>1, <1>9, <1>12, <2>1, <2>4 DEF HeaderAgrees
  <2>6. BodyAgrees(u)'
    BY <1>1, <1>9, <2>1, SameBody
  <2>. QED
    BY <2>3, <2>5, <2>6 DEF Followed
<1>14. CASE k # Len(data)
  <2>1. k \in 0..(Len(data) - 1) /\ data[k + 1] \in {CR, LF}
    BY <1>2, <1>4, <1>14
  <2>2. ReadFrom(u, Drop(data, k))
          = ReadFrom(ReadByte(u, data[k + 1]), Drop(data, k + 1))
    BY <1>2, <2>1, ReadByteThen
  <2>3. ReadByte(u, data[k + 1]) = ValueByte(u, data[k + 1])
    BY <1>9 DEF ReadByte
  <2>4. PICK st \in {"AfterCrLf", "AfterCr"} :
          /\ state' = st
          /\ st = IF data[k + 1] = LF THEN "AfterCrLf" ELSE "AfterCr"
    BY <1>1, <1>3, <1>14
  <2>5. PICK m \in {0, 1} :
          m = (IF data[k + 1] = LF THEN 1 ELSE 0) /\ Complain(m)
    BY <1>1, <1>3, <1>14
  <2>6. st \in ReaderStates /\ m \in Nat
    BY DEF ReaderStates
  <2>7. RestOf(calls') = Drop(data, k + 1)
    <3>1. k \in 0..Len(data) /\ 1 \in 0..(Len(data) - k)
      BY <1>2, <2>1
    <3>2. Advance(k, 1)
      BY <1>1, <1>3, <1>14
    <3>. QED
      BY <1>1, <3>1, <3>2, CallAdvanced
  <2>8. PICK t \in Reader : t = Warn(Goto(u, st), m)
    BY <2>6, GoesTo
  <2>9. ReadByte(u, data[k + 1]) = t
    <3>1. Warn(Goto(u, "AfterCr"), 0) = Goto(u, "AfterCr")
      BY GotoTyped, WarnNever DEF ReaderStates
    <3>. QED
      BY <2>1, <2>3, <2>4, <2>5, <2>8, <3>1 DEF ValueByte, CR, LF
  <2>10. /\ t.state = st /\ t.warnings = u.warnings + m
         /\ t.field = u.field /\ t.value = u.value /\ t.headers = u.headers
         /\ t.size = u.size /\ t.body = u.body /\ t.bodies = u.bodies
    BY <2>6, <2>8, GoesTo
  <2>11. Finish(t) = t
    BY <2>10 DEF Finish
  <2>12. Leads(s, t)
    BY <1>2, <1>10, <1>11, <2>2, <2>7, <2>9, <2>11 DEF Leads
  <2>13. HeaderAgrees(t)'
    BY <1>12, <2>4, <2>5, <2>10 DEF HeaderAgrees, Complain
  <2>14. BodyAgrees(t)'
    BY <1>1, <1>9, <2>4, <2>10, SameBody
  <2>. QED
    BY <2>12, <2>13, <2>14 DEF Followed
<1>. QED
  BY <1>13, <1>14

\* callHasHeader, and what the reader does at the end of a header.
LEMMA HeaderFollows ==
  ASSUME ParserInv, NEW n \in Nat, CallHasHeader(n),
         NEW s \in Reader, HeaderAgrees(s),
         NEW t, t = EndHeader(Warn(s, n))
  PROVE  /\ t \in Reader /\ t.state = s.state
         /\ t.field = field' /\ t.value = value' /\ t.headers = headers'
         /\ t.warnings = warnings' /\ t.body = s.body /\ t.bodies = s.bodies
         /\ \/ t.size = contentSize'
            \/ t.size = s.size /\ contentSize' = contentSize
<1>1. t \in Reader
  BY WarnTyped, EndHeaderTyped
<1>2. PICK w \in Reader : w = Warn(s, n)
  BY WarnTyped
<1>3. /\ w.state = s.state /\ w.field = s.field /\ w.value = s.value
      /\ w.headers = s.headers /\ w.size = s.size /\ w.body = s.body
      /\ w.bodies = s.bodies /\ w.warnings = s.warnings + n
  BY <1>2 DEF Warn, Reader
<1>4. CASE field = <<>> /\ value = <<>>
  <2>1. t = w
    BY <1>2, <1>3, <1>4 DEF EndHeader, HeaderAgrees
  <2>2. Complain(n) /\ UNCHANGED <<headerVars, contentSize>>
    BY <1>4 DEF CallHasHeader
  <2>. QED
    BY <1>1, <1>3, <2>1, <2>2 DEF HeaderAgrees, Complain, headerVars
<1>5. CASE ~(field = <<>> /\ value = <<>>)
  <2>1. PICK size : size = ToInt(value)
    OBVIOUS
  <2>2. PICK ok \in BOOLEAN : ok = (size # NotANumber)
    OBVIOUS
  <2>3. PICK valid \in BOOLEAN : valid = (IsLengthField(field) /\ ok)
    OBVIOUS
  <2>4. PICK invalid \in Nat :
          invalid = IF IsLengthField(field) /\ ~ok THEN 1 ELSE 0
    OBVIOUS
  <2>5. PICK one \in Nat : one = HasHeader(field, value)
    BY Complaint
  <2>6. /\ headers' = Append(headers, <<field, value>>)
        /\ field' = <<>> /\ value' = <<>>
        /\ contentSize' = IF valid THEN size ELSE contentSize
        /\ warnings' = warnings + (n + invalid + one)
    BY <1>5, <2>1, <2>2, <2>3, <2>4, <2>5 DEF CallHasHeader, Complain
  <2>7. w.field = field /\ w.value = value /\ w.headers = headers
    BY <1>3 DEF HeaderAgrees
  <2>8. (IF IsLengthField(field) /\ ~valid THEN 1 ELSE 0) = invalid
    BY <2>3, <2>4
  <2>9. t = [w EXCEPT !.headers = Append(@, <<field, value>>),
                      !.size = IF valid THEN size ELSE @,
                      !.warnings = @ + invalid + one,
                      !.field = <<>>, !.value = <<>>]
    BY <1>2, <1>5, <2>1, <2>2, <2>3, <2>5, <2>7, <2>8 DEF EndHeader
  <2>10. /\ t.state = w.state /\ t.field = <<>> /\ t.value = <<>>
         /\ t.headers = Append(headers, <<field, value>>)
         /\ t.size = (IF valid THEN size ELSE w.size)
         /\ t.warnings = w.warnings + invalid + one
         /\ t.body = w.body /\ t.bodies = w.bodies
    BY <2>7, <2>9 DEF Reader
  <2>11. t.warnings = warnings'
    <3>1. w.warnings = warnings + n /\ warnings \in Nat
      BY <1>3 DEF HeaderAgrees, ParserInv, FaultInv
    <3>. QED
      BY <2>6, <2>10, <3>1
  <2>. QED
    BY <1>1, <1>3, <2>6, <2>10, <2>11
<1>. QED
  BY <1>4, <1>5

\* A header begins: the byte that is its first is looked at again.
LEMMA HeaderBegins ==
  ASSUME ParserInv, CallInv, NEW st, InLoop(st), st # "InBody",
         NEW n \in Nat, BeginHeader(n), UNCHANGED <<mode, bodies>>,
         NEW s \in Reader, HeaderAgrees(s), BodyAgrees(s),
         ReadByte(s, c) = FieldByte(EndHeader(Warn(s, n)), c)
  PROVE  Followed(s)
<1>1. /\ state = st /\ state' = "InHeaderField" /\ Advance(dataPos, 0)
      /\ CallHasHeader(n) /\ UNCHANGED <<packet, packetSize>>
  BY DEF InLoop, BeginHeader
<1>2. /\ data \in Seq(Bytes) /\ dataPos \in 0..(Len(data) - 1)
      /\ s.state = st /\ "InHeaderField" \in ReaderStates
  BY <1>1, AtByte DEF HeaderAgrees, ReaderStates
<1>3. PICK h : h = EndHeader(Warn(s, n))
  OBVIOUS
<1>4. /\ h \in Reader
      /\ h.field = field' /\ h.value = value' /\ h.headers = headers'
      /\ h.warnings = warnings' /\ h.body = s.body /\ h.bodies = s.bodies
      /\ \/ h.size = contentSize'
         \/ h.size = s.size /\ contentSize' = contentSize
  BY <1>1, <1>3, HeaderFollows
<1>5. PICK t \in Reader : t = Goto(h, "InHeaderField")
  BY <1>2, <1>4, GotoTyped
<1>6. /\ t.state = "InHeaderField" /\ t.field = h.field /\ t.value = h.value
      /\ t.headers = h.headers /\ t.warnings = h.warnings
      /\ t.body = h.body /\ t.bodies = h.bodies /\ t.size = h.size
  BY <1>4, <1>5 DEF Goto, Reader
<1>7. ReadByte(t, c) = ReadByte(s, c)
  <2>1. ReadByte(t, c) = FieldByte(t, c)
    BY <1>6 DEF ReadByte
  <2>2. FieldByte(t, c) = FieldByte(h, c)
    BY <1>2, <1>4, <1>5, Gone
  <2>. QED
    BY <1>3, <2>1, <2>2
<1>8. RestOf(calls') = Drop(data, dataPos)
  <2>1. dataPos \in 0..Len(data) /\ 0 \in 0..(Len(data) - dataPos)
        /\ dataPos + 0 = dataPos
    BY <1>2
  <2>2. RestOf(calls') = Drop(data, dataPos + 0)
    BY <1>1, <2>1, CallAdvanced
  <2>. QED
    BY <2>1, <2>2
<1>9. Leads(s, t)
  BY <1>1, <1>2, <1>6, <1>7, <1>8, ByteKept
<1>10. HeaderAgrees(t)'
  BY <1>1, <1>4, <1>6 DEF HeaderAgrees
<1>11. BodyAgrees(t)'
  BY <1>1, <1>4, <1>6 DEF BodyAgrees
<1>. QED
  BY <1>9, <1>10, <1>11 DEF Followed

\* The header block is complete: the reader, which is to end the block with
\* this byte, may find that there is no length; a buffered parser finds it too,
\* later, and an unbuffered one need not.
LEMMA BodyBegins ==
  ASSUME ParserInv, CallInv, NEW st, InLoop(st), st # "InBody",
         NEW n \in Nat, BeginBody(dataPos + 1, n), UNCHANGED <<mode, bodies>>,
         NEW s \in Reader, HeaderAgrees(s), BodyAgrees(s),
         ReadByte(s, c) = EndBlock(Warn(s, n))
  PROVE  Followed(s)
<1>1. /\ state = st /\ state' = "InBody" /\ Advance(dataPos + 1, 0)
      /\ CallHasHeader(n) /\ packet' = <<>> /\ packetSize' = 0
  BY DEF InLoop, BeginBody
<1>2. /\ data \in Seq(Bytes) /\ dataPos \in 0..(Len(data) - 1)
      /\ c = data[dataPos + 1] /\ RestOf(calls) = Drop(data, dataPos)
      /\ s.state = st
  BY <1>1, AtByte DEF HeaderAgrees
<1>3. PICK w \in Reader : w = Warn(s, n)
  BY WarnTyped
<1>4. PICK h : h = EndHeader(Warn(s, n))
  OBVIOUS
<1>5. /\ h \in Reader
      /\ h.field = field' /\ h.value = value' /\ h.headers = headers'
      /\ h.warnings = warnings' /\ h.body = s.body /\ h.bodies = s.bodies
      /\ \/ h.size = contentSize'
         \/ h.size = s.size /\ contentSize' = contentSize
  BY <1>1, <1>4, HeaderFollows
<1>6. PICK t \in Reader : t = BeginsBody(w)
  BY BeginsBodyTyped
<1>7. /\ t.state = "InBody" /\ t.field = h.field /\ t.value = h.value
      /\ t.headers = h.headers /\ t.warnings = h.warnings
      /\ t.body = h.body /\ t.bodies = h.bodies /\ t.size = h.size
  BY <1>3, <1>4, <1>5, <1>6 DEF BeginsBody, Goto, Reader
<1>8. EndBlock(w) = Finish(t)
  BY <1>6, EndBlockIs
<1>9. RestOf(calls') = Drop(data, dataPos + 1)
  <2>1. /\ dataPos + 1 \in 0..Len(data) /\ 0 \in 0..(Len(data) - (dataPos + 1))
        /\ (dataPos + 1) + 0 = dataPos + 1
    BY <1>2
  <2>2. RestOf(calls') = Drop(data, (dataPos + 1) + 0)
    BY <1>1, <2>1, CallAdvanced
  <2>. QED
    BY <2>1, <2>2
<1>10. Leads(s, t)
  <2>1. Finish(s) = s
    BY <1>2 DEF Finish
  <2>2. ReadFrom(s, Drop(data, dataPos))
          = ReadFrom(ReadByte(s, c), Drop(data, dataPos + 1))
    BY <1>2, ReadByteThen
  <2>. QED
    BY <1>2, <1>3, <1>8, <1>9, <2>1, <2>2 DEF Leads
<1>11. HeaderAgrees(t)'
  BY <1>1, <1>5, <1>7 DEF HeaderAgrees
<1>12. s.body = <<>>
  BY <1>1 DEF BodyAgrees
<1>13. CASE mode # "BUFFERED" /\ t.size = NoLength
  <2>1. PICK m \in Nat : m = t.unsized
    BY DEF Reader
  <2>2. Finish(t).unsized = m + 1
    BY <1>7, <1>13, <2>1 DEF Finish, Warn, Goto, Reader
  <2>. QED
    BY <1>10, <1>13, <2>2 DEF Followed
<1>14. CASE mode = "BUFFERED" \/ t.size # NoLength
  <2>1. t.size = contentSize'
    BY <1>5, <1>7, <1>14 DEF BodyAgrees
  <2>2. t.body = <<>> /\ Len(t.body) = packetSize' /\ t.bodies = s.bodies
    BY <1>1, <1>5, <1>7, <1>12
  <2>3. BodyAgrees(t)'
    BY <1>1, <1>14, <2>1, <2>2 DEF BodyAgrees
  <2>. QED
    BY <1>10, <1>11, <2>3 DEF Followed
<1>. QED
  BY <1>13, <1>14

\* A line goes on with a space.
LEMMA LineGoesOn ==
  ASSUME ParserInv, CallInv, NEW st, InLoop(st), st # "InBody",
         NEW n \in Nat, Continue(n), UNCHANGED <<mode, bodies>>,
         NEW s \in Reader, HeaderAgrees(s), BodyAgrees(s),
         ReadByte(s, c) = ValueByte(Warn(s, n), c)
  PROVE  Followed(s)
<1>1. /\ state = st /\ state' = "InHeaderValue" /\ Advance(dataPos, 0)
      /\ Complain(n) /\ UNCHANGED <<headerVars, bodyVars>>
  BY DEF InLoop, Continue, bodyVars
<1>2. /\ data \in Seq(Bytes) /\ dataPos \in 0..(Len(data) - 1)
      /\ s.state = st /\ "InHeaderValue" \in ReaderStates
  BY <1>1, AtByte DEF HeaderAgrees, ReaderStates
<1>3. PICK t : t = Warn(Goto(s, "InHeaderValue"), n)
  OBVIOUS
<1>4. PICK w \in Reader : w = Warn(s, n)
  BY WarnTyped
<1>5. t = Goto(w, "InHeaderValue") /\ t.state = "InHeaderValue"
  BY <1>2, <1>3, <1>4, Gone
<1>6. ReadByte(t, c) = ReadByte(s, c)
  <2>1. ReadByte(t, c) = ValueByte(t, c)
    BY <1>5 DEF ReadByte
  <2>2. ValueByte(t, c) = ValueByte(w, c)
    BY <1>2, <1>5, Gone
  <2>. QED
    BY <1>4, <2>1, <2>2
<1>7. RestOf(calls') = Drop(data, dataPos)
  <2>1. dataPos \in 0..Len(data) /\ 0 \in 0..(Len(data) - dataPos)
        /\ dataPos + 0 = dataPos
    BY <1>2
  <2>2. RestOf(calls') = Drop(data, dataPos + 0)
    BY <1>1, <2>1, CallAdvanced
  <2>. QED
    BY <2>1, <2>2
<1>8. Leads(s, t)
  BY <1>1, <1>2, <1>5, <1>6, <1>7, ByteKept
<1>. QED
  BY <1>1, <1>2, <1>3, <1>8, Outside

LEMMA AfterCrReads ==
  ASSUME ParserInv, CallInv, AfterCr,
         NEW s \in Reader, HeaderAgrees(s), BodyAgrees(s)
  PROVE  Followed(s)
<1>1. /\ InLoop("AfterCr") /\ state = "AfterCr" /\ s.state = "AfterCr"
      /\ UNCHANGED <<mode, bodies>>
  BY DEF AfterCr, InLoop, chunkVars, HeaderAgrees
<1>2. dataPos + 1 \in Nat /\ "AfterCrLf" \in ReaderStates
  BY <1>1, AtByte DEF ReaderStates
<1>3. CASE /\ c = LF
           /\ state' = "AfterCrLf" /\ MoveTo(dataPos + 1) /\ Complain(0)
           /\ UNCHANGED <<headerVars, packet, packetSize, contentSize>>
  <2>1. PICK t : t = Warn(Goto(s, "AfterCrLf"), 0)
    OBVIOUS
  <2>2. t = Goto(s, "AfterCrLf") /\ t.state = "AfterCrLf"
    BY <1>2, <2>1, GotoTyped, WarnNever, Gone
  <2>3. t = ReadByte(s, c)
    BY <1>1, <1>3, <2>2 DEF ReadByte, AfterCrByte
  <2>4. Leads(s, t)
    BY <1>1, <1>2, <1>3, <2>2, <2>3, CallMoved, ByteRead
  <2>5. UNCHANGED <<mode, headerVars, bodyVars>>
    BY <1>1, <1>3 DEF bodyVars
  <2>. QED
    BY <1>1, <1>2, <1>3, <2>1, <2>4, <2>5, Outside
<1>4. CASE c = CR /\ BeginBody(dataPos + 1, 1)
  <2>1. ReadByte(s, c) = EndBlock(Warn(s, 1))
    BY <1>1, <1>4 DEF ReadByte, AfterCrByte, CR, LF
  <2>. QED
    BY <1>1, <1>4, <2>1, BodyBegins
<1>5. CASE c = SPACE /\ Continue(1)
  <2>1. ReadByte(s, c) = ValueByte(Warn(s, 1), c)
    BY <1>1, <1>5 DEF ReadByte, AfterCrByte, CR, LF, SPACE
  <2>. QED
    BY <1>1, <1>5, <2>1, LineGoesOn
<1>6. CASE c \notin {LF, CR, SPACE} /\ BeginHeader(1)
  <2>1. ReadByte(s, c) = FieldByte(EndHeader(Warn(s, 1)), c)
    BY <1>1, <1>6 DEF ReadByte, AfterCrByte
  <2>. QED
    BY <1>1, <1>6, <2>1, HeaderBegins
<1>. QED
  BY <1>3, <1>4, <1>5, <1>6 DEF AfterCr

LEMMA AfterCrLfReads ==
  ASSUME ParserInv, CallInv, AfterCrLf,
         NEW s \in Reader, HeaderAgrees(s), BodyAgrees(s)
  PROVE  Followed(s)
<1>1. /\ InLoop("AfterCrLf") /\ state = "AfterCrLf" /\ s.state = "AfterCrLf"
      /\ UNCHANGED <<mode, bodies>>
  BY DEF AfterCrLf, InLoop, chunkVars, HeaderAgrees
<1>2. dataPos \in Nat /\ dataPos + 1 \in Nat /\ "AfterCrLfCr" \in ReaderStates
  BY <1>1, AtByte DEF ReaderStates
<1>3. CASE /\ c \in {LF, CR}
           /\ state' = "AfterCrLfCr"
           /\ MoveTo(IF c = CR THEN dataPos + 1 ELSE dataPos)
           /\ Complain(IF c = CR THEN 0 ELSE 1)
           /\ UNCHANGED <<headerVars, packet, packetSize, contentSize>>
  <2>1. UNCHANGED <<mode, headerVars, bodyVars>>
    BY <1>1, <1>3 DEF bodyVars
  <2>2. CASE c = CR
    <3>1. PICK t : t = Warn(Goto(s, "AfterCrLfCr"), 0)
      OBVIOUS
    <3>2. t = Goto(s, "AfterCrLfCr") /\ t.state = "AfterCrLfCr"
      BY <1>2, <3>1, GotoTyped, WarnNever, Gone
    <3>3. t = ReadByte(s, c)
      BY <1>1, <2>2, <3>2 DEF ReadByte, AfterCrLfByte, CR, LF
    <3>4. MoveTo(dataPos + 1) /\ Complain(0)
      BY <1>3, <2>2
    <3>5. Leads(s, t)
      BY <1>1, <1>2, <3>2, <3>3, <3>4, CallMoved, ByteRead
    <3>. QED
      BY <1>1, <1>2, <1>3, <2>1, <3>1, <3>4, <3>5, Outside
  <2>3. CASE c = LF
    <3>1. PICK t : t = Warn(Goto(s, "AfterCrLfCr"), 1)
      OBVIOUS
    <3>2. PICK w \in Reader : w = Warn(s, 1)
      BY WarnTyped
    <3>3. /\ t = Goto(w, "AfterCrLfCr") /\ t \in Reader
          /\ t.state = "AfterCrLfCr"
      BY <1>2, <3>1, <3>2, Gone, GotoTyped
    <3>4. ReadByte(t, c) = EndBlock(t)
      BY <2>3, <3>3 DEF ReadByte, AfterCrLfCrByte
    <3>5. ReadByte(s, c) = EndBlock(w)
      BY <1>1, <2>3, <3>2 DEF ReadByte, AfterCrLfByte
    <3>6. BeginsBody(t) = BeginsBody(w)
      BY <1>2, <3>3, Gone
    <3>7. EndBlock(t) = EndBlock(w)
      BY <3>3, <3>6, EndBlockIs
    <3>8. MoveTo(dataPos) /\ Complain(1)
      BY <1>3, <2>3 DEF LF, CR
    <3>9. Leads(s, t)
      BY <1>1, <1>2, <3>3, <3>4, <3>5, <3>7, <3>8, CallMoved, ByteKept
    <3>. QED
      BY <1>1, <1>2, <1>3, <2>1, <3>1, <3>8, <3>9, Outside
  <2>. QED
    BY <1>3, <2>2, <2>3
<1>4. Warn(s, 0) = s
  BY WarnNever
<1>5. CASE c = SPACE /\ Continue(0)
  <2>1. ReadByte(s, c) = ValueByte(Warn(s, 0), c)
    BY <1>1, <1>4, <1>5 DEF ReadByte, AfterCrLfByte, CR, LF, SPACE
  <2>. QED
    BY <1>1, <1>5, <2>1, LineGoesOn
<1>6. CASE c \notin {LF, CR, SPACE} /\ BeginHeader(0)
  <2>1. ReadByte(s, c) = FieldByte(EndHeader(Warn(s, 0)), c)
    BY <1>1, <1>4, <1>6 DEF ReadByte, AfterCrLfByte
  <2>. QED
    BY <1>1, <1>6, <2>1, HeaderBegins
<1>. QED
  BY <1>3, <1>5, <1>6 DEF AfterCrLf

LEMMA AfterCrLfCrReads ==
  ASSUME ParserInv, CallInv, AfterCrLfCr,
         NEW s \in Reader, HeaderAgrees(s), BodyAgrees(s)
  PROVE  Followed(s)
<1>1. /\ InLoop("AfterCrLfCr") /\ state = "AfterCrLfCr"
      /\ s.state = "AfterCrLfCr" /\ UNCHANGED <<mode, bodies>>
      /\ IF c = LF THEN BeginBody(dataPos + 1, 0) ELSE BeginHeader(1)
  BY DEF AfterCrLfCr, InLoop, chunkVars, HeaderAgrees
<1>2. CASE c = LF
  <2>1. Warn(s, 0) = s
    BY WarnNever
  <2>2. ReadByte(s, c) = EndBlock(Warn(s, 0))
    BY <1>1, <1>2, <2>1 DEF ReadByte, AfterCrLfCrByte
  <2>. QED
    BY <1>1, <1>2, <2>2, BodyBegins
<1>3. CASE c # LF
  <2>1. ReadByte(s, c) = FieldByte(EndHeader(Warn(s, 1)), c)
    BY <1>1, <1>3 DEF ReadByte, AfterCrLfCrByte
  <2>. QED
    BY <1>1, <1>3, <2>1, HeaderBegins
<1>. QED
  BY <1>2, <1>3

---------------------------------------------------------------------------
\* Steps in the body.

\* A body without a length is skipped.
LEMMA Skipped ==
  ASSUME NEW s \in Reader, s.state = "InBody", s.size = NoLength
  PROVE  LET t == Finish(s)
         IN  /\ t \in Reader /\ t.state = "PreHeader" /\ Finish(t) = t
             /\ t.warnings = s.warnings + 1
             /\ t.field = s.field /\ t.value = s.value
             /\ t.headers = s.headers /\ t.size = s.size
             /\ t.body = s.body /\ t.bodies = s.bodies
<1>1. PICK t \in Reader : t = Finish(s)
  BY FinishTyped
<1>2. "PreHeader" \in ReaderStates /\ 1 \in Nat
  BY DEF ReaderStates
<1>3. PICK w \in Reader : w = Warn(Goto(s, "PreHeader"), 1)
  BY <1>2, GoesTo
<1>4. /\ w.state = "PreHeader" /\ w.warnings = s.warnings + 1
      /\ w.field = s.field /\ w.value = s.value
      /\ w.headers = s.headers /\ w.size = s.size
      /\ w.body = s.body /\ w.bodies = s.bodies
  BY <1>2, <1>3, GoesTo
<1>5. t = [w EXCEPT !.unsized = @ + 1]
  BY <1>1, <1>3 DEF Finish
<1>6. /\ t.state = w.state /\ t.warnings = w.warnings /\ t.field = w.field
      /\ t.value = w.value /\ t.headers = w.headers /\ t.size = w.size
      /\ t.body = w.body /\ t.bodies = w.bodies
  BY <1>5 DEF Reader
<1>7. Finish(t) = t
  BY <1>4, <1>6 DEF Finish
<1>. QED
  BY <1>1, <1>4, <1>6, <1>7

\* A body ends.
LEMMA Ended ==
  ASSUME NEW s \in Reader
  PROVE  LET t == EndBody(s)
         IN  /\ t \in Reader /\ t.state = "PreHeader" /\ Finish(t) = t
             /\ t.warnings = s.warnings
             /\ t.field = s.field /\ t.value = s.value
             /\ t.headers = s.headers /\ t.size = NoLength
             /\ t.body = <<>> /\ t.bodies = Append(s.bodies, s.body)
<1>1. PICK t \in Reader : t = EndBody(s)
  BY EndBodyTyped
<1>2. /\ t.state = "PreHeader" /\ t.warnings = s.warnings
      /\ t.field = s.field /\ t.value = s.value
      /\ t.headers = s.headers /\ t.size = NoLength
      /\ t.body = <<>> /\ t.bodies = Append(s.bodies, s.body)
  BY <1>1 DEF EndBody, Reader
<1>3. Finish(t) = t
  BY <1>2 DEF Finish
<1>. QED
  BY <1>1, <1>2, <1>3

\* ... for both: callHasBody hands on what the reader has.
LEMMA BodyFollows ==
  ASSUME ParserInv, NEW bytes \in Seq(Bytes), NEW size,
         CallHasBody(bytes, size), contentSize # NoLength,
         UNCHANGED <<mode, headerVars, warnings>>, state' = "PreHeader",
         NEW s \in Reader, HeaderAgrees(s),
         mode = "BUFFERED" =>
           bytes = s.body /\ s.bodies = SizedBodies(bodies),
         mode # "BUFFERED" => Len(s.bodies) = Len(bodies)
  PROVE  HeaderAgrees(EndBody(s))' /\ BodyAgrees(EndBody(s))'
<1>1. PICK t : t = EndBody(s)
  OBVIOUS
<1>2. /\ t \in Reader /\ t.state = "PreHeader" /\ t.warnings = s.warnings
      /\ t.field = s.field /\ t.value = s.value
      /\ t.headers = s.headers /\ t.size = NoLength
      /\ t.body = <<>> /\ t.bodies = Append(s.bodies, s.body)
  BY <1>1, Ended
<1>3. HeaderAgrees(t)'
  BY <1>2 DEF HeaderAgrees, headerVars
<1>4. PICK body : body = [size |-> contentSize,
                          bytes |-> IF mode = "BUFFERED" THEN bytes ELSE <<>>]
  OBVIOUS
<1>5. /\ body \in [size : Int, bytes : Seq(Bytes)]
      /\ body.size = contentSize
      /\ mode = "BUFFERED" => body.bytes = bytes
  BY <1>4, EmptySeq DEF ParserInv, HeaderInv
<1>6. bodies \in Seq([size : Int, bytes : Seq(Bytes)])
      /\ bodies' = Append(bodies, body)
  BY <1>4 DEF CallHasBody, ParserInv, BodyInv
<1>7. CASE mode = "BUFFERED"
  <2>1. packet' = <<>> /\ contentSize' = NoLength
    BY <1>7 DEF CallHasBody
  <2>2. SizedBodies(bodies') = Append(SizedBodies(bodies), bytes)
    BY <1>5, <1>6, <1>7, OneMore
  <2>3. t.bodies = SizedBodies(bodies')
    BY <1>2, <1>7, <2>2
  <2>4. BodyAgrees(t)'
    BY <1>2, <1>7, <2>1, <2>3 DEF BodyAgrees
  <2>. QED
    BY <1>1, <1>3, <2>4
<1>8. CASE mode # "BUFFERED"
  <2>1. Len(bodies') = Len(bodies) + 1
    BY <1>5, <1>6, AppendProperties
  <2>2. s.bodies \in Seq(Seq(Bytes)) /\ s.body \in Seq(Bytes)
    BY DEF Reader
  <2>3. Len(Append(s.bodies, s.body)) = Len(s.bodies) + 1
    BY <2>2, AppendProperties
  <2>4. Len(t.bodies) = Len(bodies')
    BY <1>2, <1>8, <2>1, <2>3
  <2>5. BodyAgrees(t)'
    BY <1>2, <1>8, <2>4 DEF BodyAgrees
  <2>. QED
    BY <1>1, <1>3, <2>5
<1>. QED
  BY <1>7, <1>8

LEMMA BodyWithoutLengthReads ==
  ASSUME ParserInv, CallInv, BodyWithoutLength,
         NEW s \in Reader, HeaderAgrees(s), BodyAgrees(s)
  PROVE  Followed(s)
<1>1. /\ InLoop("InBody") /\ state = "InBody" /\ contentSize = NoLength
      /\ state' = "PreHeader" /\ MoveTo(dataPos) /\ Complain(1)
      /\ UNCHANGED <<mode, headerVars, bodyVars>>
  BY DEF BodyWithoutLength, InLoop, chunkVars
<1>2. /\ s.state = "InBody" /\ s.size = NoLength /\ mode = "BUFFERED"
      /\ s.bodies = SizedBodies(bodies) /\ s.body = packet
  BY <1>1 DEF HeaderAgrees, BodyAgrees
<1>3. s.body = <<>>
  <2>1. s.body \in Seq(Bytes)
    BY DEF Reader
  <2>2. PICK n \in Nat : n = Len(s.body)
    BY <2>1
  <2>. QED
    BY <1>2, <2>2 DEF BodyAgrees, NoLength
<1>4. PICK t : t = Finish(s)
  OBVIOUS
<1>5. /\ t \in Reader /\ t.state = "PreHeader" /\ Finish(t) = t
      /\ t.warnings = s.warnings + 1
      /\ t.field = s.field /\ t.value = s.value
      /\ t.headers = s.headers /\ t.size = s.size
      /\ t.body = s.body /\ t.bodies = s.bodies
  BY <1>2, <1>4, Skipped
<1>6. /\ dataPos \in Nat /\ RestOf(calls) = Drop(data, dataPos)
  BY <1>1, AtByte
<1>7. RestOf(calls') = RestOf(calls)
  BY <1>1, <1>6, CallMoved
<1>8. Leads(s, t)
  BY <1>4, <1>5, <1>7 DEF Leads
<1>9. HeaderAgrees(t)'
  BY <1>1, <1>5 DEF HeaderAgrees, headerVars, Complain
<1>10. BodyAgrees(t)'
  BY <1>1, <1>2, <1>3, <1>5 DEF BodyAgrees, bodyVars
<1>. QED
  BY <1>5, <1>8, <1>9, <1>10 DEF Followed

\* The call after k bytes of a body.
LEMMA CallInBody ==
  ASSUME ParserInv, CallInv, ~feed.nested, InLoop("InBody"),
         NEW k \in 0..Len(data),
         SetTop(BodyCall(k)) \/ SetTop(InHandler(BodyCall(k)))
  PROVE  Going(calls') /\ RestOf(calls') = Drop(data, k)
<1>1. calls # <<>> /\ Tail(calls) = <<>> /\ ~Top.done /\ Top \in Calls
      /\ data \in Seq(Bytes) /\ dataPos = 0
  BY LoopFacts DEF CallInv, OneCall, InLoop, GoodTop, GoodCall, SettledStates
<1>2. PICK rest \in Seq(Bytes) : rest = IF k = 0 THEN data ELSE After(k)
  BY <1>1, Dropped DEF After, Drop
<1>3. rest = Drop(data, k)
  BY <1>1, <1>2, DropAll DEF After, Drop
<1>4. BodyCall(k) = [Top EXCEPT !.data = rest, !.pos = 0, !.user = FALSE]
  BY <1>1, <1>2 DEF BodyCall
<1>5. PICK call : call = BodyCall(k)
  OBVIOUS
<1>6. /\ call \in Calls /\ call.data = rest /\ call.pos = 0 /\ ~call.done
      /\ ~call.user
  <2>1. PICK top \in Calls : top = Top
    BY <1>1
  <2>2. /\ [top EXCEPT !.data = rest, !.pos = 0, !.user = FALSE] \in Calls
        /\ call = [top EXCEPT !.data = rest, !.pos = 0, !.user = FALSE]
        /\ ~top.done
    BY <1>1, <1>4, <1>5, <2>1 DEF Calls
  <2>. QED
    BY <2>2 DEF Calls
<1>7. feed.nested = FALSE
  BY FeedsAssumption DEF ParserInv, FeedInv, FeedsAssumption, Feed
<1>8. InHandler(call) = call
  BY <1>6, <1>7 DEF InHandler, Calls
<1>9. calls' = <<call>> \o <<>>
  BY <1>1, <1>5, <1>8 DEF SetTop
<1>10. calls' = <<call>>
  BY <1>6, <1>9
<1>11. calls' # <<>> /\ Tail(calls') = <<>> /\ Head(calls') = call
  BY <1>10
<1>12. rest = Drop(rest, 0)
  BY DropAll
<1>. QED
  BY <1>3, <1>6, <1>11, <1>12 DEF Going, RestOf

LEMMA BodyReads ==
  ASSUME ParserInv, CallInv, ~feed.nested, Body,
         NEW s \in Reader, HeaderAgrees(s), BodyAgrees(s)
  PROVE  Followed(s)
<1>1. InLoop("InBody") /\ contentSize # NoLength /\ state = "InBody"
      /\ UNCHANGED <<mode, headerVars, warnings>>
  BY DEF Body, InLoop, chunkVars
<1>2. /\ data \in Seq(Bytes) /\ dataPos = 0 /\ Len(data) > 0
      /\ RestOf(calls) = Drop(data, 0) /\ c = data[0 + 1]
  BY <1>1, AtByte, LoopFacts DEF SettledStates
<1>3. PICK length \in Nat : length = Len(data)
  BY <1>2
<1>4. PICK k \in 0..length : k = Taken
  BY <1>1, <1>3, TakenFacts, LoopFacts
<1>5. PICK bytes :
        bytes = packet \o IF mode = "BUFFERED" THEN SubSeq(data, 1, k) ELSE <<>>
  OBVIOUS
<1>6. \/ /\ packetSize + k >= contentSize
         /\ state' = "PreHeader"
         /\ SetTop(InHandler(BodyCall(k)))
         /\ CallHasBody(bytes, packetSize + k)
      \/ /\ ~(packetSize + k >= contentSize)
         /\ packet' = bytes /\ packetSize' = packetSize + k
         /\ SetTop(BodyCall(k))
         /\ UNCHANGED <<state, contentSize, bodies>>
  BY <1>4, <1>5 DEF Body
<1>7. RestOf(calls') = Drop(data, k)
  BY <1>1, <1>3, <1>6, CallInBody
<1>8. /\ s.state = "InBody" /\ s.size = contentSize
      /\ Len(s.body) = packetSize
      /\ s.body = <<>> \/ Len(s.body) < s.size
      /\ mode = "BUFFERED" => s.body = packet /\ s.bodies = SizedBodies(bodies)
      /\ mode # "BUFFERED" => Len(s.bodies) = Len(bodies)
  BY <1>1 DEF HeaderAgrees, BodyAgrees
<1>9. PICK size \in Int : size = contentSize
  BY DEF ParserInv, HeaderInv
<1>10. PICK counted \in Nat : counted = packetSize
  BY DEF ParserInv, BodyInv
<1>11. k = IF size - counted <= 0 THEN 0
           ELSE IF size - counted < length THEN size - counted ELSE length
  BY <1>3, <1>4, <1>9, <1>10 DEF Taken
<1>12. PICK part \in Seq(Bytes) : part = SubSeq(data, 0 + 1, k)
  <2>1. 0 \in 0..Len(data) /\ k \in 0..Len(data)
    BY <1>3
  <2>. QED
    BY <1>2, <2>1, Taking
<1>13. /\ part = SubSeq(data, 1, k) /\ Len(part) = k
       /\ ReadFrom(s, Drop(data, 0))
            = ReadFrom(ReadFrom(s, part), Drop(data, k))
  <2>1. 0 \in 0..Len(data) /\ k \in 0..Len(data) /\ 0 + 1 = 1 /\ k - 0 = k
    BY <1>3
  <2>. QED
    BY <1>2, <1>12, <2>1, Taking, ReadTokenThen
<1>14. s.body \in Seq(Bytes) /\ packet \in Seq(Bytes)
  BY DEF Reader, ParserInv, BodyInv
<1>15. PICK token \in Seq(Bytes) : token = s.body \o part
  BY <1>14, ConcatProperties
<1>16. Len(token) = counted + k
  <2>1. Len(s.body \o part) = Len(s.body) + Len(part)
    BY <1>14, ConcatProperties
  <2>. QED
    BY <1>8, <1>10, <1>13, <1>15, <2>1
<1>17. mode = "BUFFERED" => bytes = token
  BY <1>5, <1>8, <1>13, <1>15
<1>18. bytes \in Seq(Bytes)
  <2>1. CASE mode = "BUFFERED"
    BY <1>17, <2>1
  <2>2. CASE mode # "BUFFERED"
    BY <1>5, <1>14, <2>2, EmptySeq, ConcatProperties
  <2>. QED
    BY <2>1, <2>2
<1>19. PICK u \in Reader : u = [s EXCEPT !.body = token]
  BY DEF Reader
<1>20. /\ u.state = s.state /\ u.body = token
       /\ u.warnings = s.warnings /\ u.field = s.field /\ u.value = s.value
       /\ u.headers = s.headers /\ u.size = s.size /\ u.bodies = s.bodies
  BY <1>19 DEF Reader
<1>21. CASE size - counted <= 0
  <2>1. k = 0 /\ counted = 0 /\ s.body = <<>> /\ size <= 0
    <3>1. counted = 0 \/ counted < size
      BY <1>8, <1>9, <1>10
    <3>2. counted = 0
      BY <1>21, <3>1
    <3>. QED
      BY <1>8, <1>10, <1>11, <1>14, <1>21, <3>2, EmptySeq
  <2>2. token = <<>>
    BY <1>16, <2>1
  <2>3. packetSize + k >= contentSize
    BY <1>9, <1>10, <2>1
  <2>4. PICK t : t = EndBody(s)
    OBVIOUS
  <2>5. t \in Reader /\ t.state = "PreHeader" /\ Finish(t) = t
    BY <2>4, Ended
  <2>6. HeaderAgrees(t)' /\ BodyAgrees(t)'
    <3>1. mode = "BUFFERED" => bytes = s.body
      BY <1>17, <2>1, <2>2
    <3>. QED
      BY <1>1, <1>6, <1>8, <1>18, <2>3, <2>4, <3>1, BodyFollows
  <2>7. ReadFrom(Finish(s), Drop(data, 0)) = ReadFrom(t, Drop(data, 0))
    <3>1. CASE size = 0
      <4>1. Finish(s) = t
        BY <1>8, <1>9, <2>4, <3>1 DEF Finish, NoLength
      <4>. QED
        BY <4>1
    <3>2. CASE size # 0
      <4>1. size < 0 /\ Finish(s) = s
        BY <1>1, <1>8, <1>9, <2>1, <3>2 DEF Finish
      <4>2. ReadByte(s, c) = PreHeaderByte(t, c)
        BY <1>8, <1>9, <2>4, <4>1 DEF ReadByte
      <4>3. ReadByte(t, c) = PreHeaderByte(t, c)
        BY <2>5 DEF ReadByte
      <4>4. 0 \in 0..(Len(data) - 1)
        BY <1>2
      <4>. QED
        BY <1>2, <4>1, <4>2, <4>3, <4>4, SameNext
    <3>. QED
      BY <3>1, <3>2
  <2>8. Leads(s, t)
    BY <1>2, <1>7, <2>1, <2>5, <2>7 DEF Leads
  <2>. QED
    BY <2>5, <2>6, <2>8 DEF Followed
<1>22. CASE size - counted > 0
  <2>1. size > 0 /\ k > 0 /\ Finish(s) = s
    <3>1. size > 0 /\ k > 0
      BY <1>2, <1>3, <1>11, <1>22
    <3>. QED
      BY <1>1, <1>8, <1>9, <3>1 DEF Finish
  <2>2. CASE k = size - counted
    <3>1. packetSize + k >= contentSize
      BY <1>9, <1>10, <2>2
    <3>2. PICK t : t = EndBody(u)
      OBVIOUS
    <3>3. t \in Reader /\ t.state = "PreHeader" /\ Finish(t) = t
      BY <3>2, Ended
    <3>4. ReadFrom(s, part) = t
      <4>1. Len(s.body) + Len(part) = s.size /\ Len(part) > 0
        BY <1>8, <1>9, <1>10, <1>13, <2>1, <2>2
      <4>. QED
        BY <1>8, <1>15, <1>19, <3>2, <4>1, BodyRunEnds
    <3>5. HeaderAgrees(t)' /\ BodyAgrees(t)'
      <4>1. HeaderAgrees(u)
        BY <1>20 DEF HeaderAgrees
      <4>2. /\ mode = "BUFFERED" =>
                 bytes = u.body /\ u.bodies = SizedBodies(bodies)
            /\ mode # "BUFFERED" => Len(u.bodies) = Len(bodies)
        BY <1>8, <1>17, <1>20
      <4>. QED
        BY <1>1, <1>6, <1>18, <3>1, <3>2, <4>1, <4>2, BodyFollows
    <3>6. Leads(s, t)
      BY <1>2, <1>7, <1>13, <2>1, <3>3, <3>4 DEF Leads
    <3>. QED
      BY <3>3, <3>5, <3>6 DEF Followed
  <2>3. CASE k # size - counted
    <3>1. counted + k < size
      BY <1>11, <1>22, <2>3
    <3>2. /\ packet' = bytes /\ packetSize' = counted + k
          /\ UNCHANGED <<state, contentSize, bodies>>
      BY <1>6, <1>9, <1>10, <3>1
    <3>3. ReadFrom(s, part) = u
      <4>1. Len(s.body) + Len(part) < s.size
        BY <1>8, <1>9, <1>10, <1>13, <3>1
      <4>. QED
        BY <1>8, <1>15, <1>19, <4>1, BodyRun
    <3>4. Finish(u) = u
      BY <1>8, <1>9, <1>20, <2>1 DEF Finish, NoLength
    <3>5. Leads(s, u)
      BY <1>2, <1>7, <1>13, <2>1, <3>3, <3>4 DEF Leads
    <3>6. HeaderAgrees(u)'
      BY <1>1, <1>20, <3>2 DEF HeaderAgrees, headerVars
    <3>7. BodyAgrees(u)'
      <4>1. Len(u.body) = packetSize' /\ Len(u.body) < u.size
            /\ u.size = contentSize'
        BY <1>8, <1>9, <1>16, <1>20, <3>1, <3>2
      <4>. QED
        BY <1>1, <1>8, <1>17, <1>20, <3>2, <4>1 DEF BodyAgrees
    <3>. QED
      BY <3>5, <3>6, <3>7 DEF Followed
  <2>. QED
    BY <2>2, <2>3
<1>. QED
  BY <1>9, <1>10, <1>21, <1>22

\* The chunk has been parsed; its call may end with an empty body.
Ends == ~Top.done /\ state = "InBody" /\ contentSize \in {NoLength, 0}

LEMMA EndOfDataCalls ==
  ASSUME ParserInv, CallInv, ~feed.nested, EndOfData
  PROVE  /\ CallInv' /\ RestOf(calls) = <<>> /\ RestOf(calls') = <<>>
         /\ UNCHANGED <<mode, headerVars>>
         /\ \/ /\ Ends /\ state' = "PreHeader"
               /\ Complain(IF contentSize = NoLength THEN 1 ELSE 0)
               /\ CallHasBody(packet, packetSize)
            \/ ~Ends /\ UNCHANGED <<state, bodyVars, warnings>>
         /\ state = "InBody" /\ ~Ends => contentSize \notin {NoLength, 0}
<1>1. /\ calls # <<>>
      /\ Top.done \/ dataPos >= Len(data)
      /\ UNCHANGED <<mode, headerVars>>
      /\ \/ /\ Ends /\ state' = "PreHeader"
            /\ SetTop(InHandler([Top EXCEPT !.done = TRUE]))
            /\ Complain(IF contentSize = NoLength THEN 1 ELSE 0)
            /\ CallHasBody(packet, packetSize)
         \/ ~Ends /\ Return /\ UNCHANGED <<state, bodyVars, warnings>>
  BY DEF EndOfData, chunkVars, Ends
<1>2. /\ Tail(calls) = <<>> /\ Top \in Calls /\ data \in Seq(Bytes)
      /\ dataPos \in 0..Len(data)
      /\ Top.done => state = "PreHeader" /\ RestOf(calls) = <<>>
  BY <1>1, TopFacts DEF CallInv, OneCall, GoodTop, GoodCall, Top
<1>3. ~Top.done => dataPos = Len(data)
  BY <1>1, <1>2
<1>4. RestOf(calls) = <<>>
  <2>1. dataPos = Len(data) => RestOf(calls) = <<>>
    BY <1>1, <1>2, DropAll DEF RestOf, data, dataPos, Top
  <2>. QED
    BY <1>2, <1>3, <2>1
<1>5. state = "InBody" /\ ~Ends => contentSize \notin {NoLength, 0}
  BY <1>2 DEF Ends
<1>6. CASE ~Ends /\ Return /\ UNCHANGED <<state, bodyVars, warnings>>
  <2>1. calls' = <<>> /\ RestOf(calls') = <<>>
    BY <1>1, <1>6, CallReturned
  <2>2. CallInv'
    BY <1>5, <1>6, <2>1 DEF CallInv, OneCall, bodyVars
  <2>. QED
    BY <1>1, <1>4, <1>5, <1>6, <2>1, <2>2
<1>7. CASE /\ Ends /\ state' = "PreHeader"
           /\ SetTop(InHandler([Top EXCEPT !.done = TRUE]))
           /\ Complain(IF contentSize = NoLength THEN 1 ELSE 0)
           /\ CallHasBody(packet, packetSize)
  <2>1. PICK top \in Calls : top = Top
    BY <1>2
  <2>2. PICK call \in Calls : call = [top EXCEPT !.done = TRUE]
    BY DEF Calls
  <2>3. call.data = data /\ call.pos = dataPos /\ call.user = Top.user
    BY <2>1, <2>2 DEF Calls, data, dataPos
  <2>4. feed.nested = FALSE /\ ~call.user
    <3>1. feed.nested = FALSE
      BY FeedsAssumption DEF ParserInv, FeedInv, FeedsAssumption, Feed
    <3>2. Top.user => feed.nested
      BY <1>1, TopFacts DEF GoodTop, GoodCall
    <3>. QED
      BY <2>3, <3>1, <3>2
  <2>5. InHandler(call) = call
    BY <2>4 DEF InHandler, Calls
  <2>6. calls' = <<call>> \o <<>>
    BY <1>2, <1>7, <2>1, <2>2, <2>5 DEF SetTop
  <2>7. calls' = <<call>>
    BY <2>6
  <2>8. calls' # <<>> /\ Tail(calls') = <<>> /\ Head(calls') = call
    BY <2>7
  <2>9. RestOf(calls') = <<>>
    BY <1>2, <1>3, <1>7, <2>3, <2>8, DropAll DEF RestOf, Ends
  <2>10. CallInv'
    BY <1>7, <2>8, <2>9 DEF CallInv, OneCall
  <2>. QED
    BY <1>1, <1>4, <1>5, <1>7, <2>9, <2>10
<1>. QED
  BY <1>1, <1>6, <1>7

LEMMA EndOfDataReads ==
  ASSUME ParserInv, CallInv, ~feed.nested, EndOfData,
         NEW s \in Reader, HeaderAgrees(s), BodyAgrees(s)
  PROVE  Followed(s)
<1>1. /\ RestOf(calls) = <<>> /\ RestOf(calls') = <<>>
      /\ UNCHANGED <<mode, headerVars>>
      /\ \/ /\ Ends /\ state' = "PreHeader"
            /\ Complain(IF contentSize = NoLength THEN 1 ELSE 0)
            /\ CallHasBody(packet, packetSize)
         \/ ~Ends /\ UNCHANGED <<state, bodyVars, warnings>>
      /\ state = "InBody" /\ ~Ends => contentSize \notin {NoLength, 0}
  BY EndOfDataCalls
<1>2. s.state = state
  BY DEF HeaderAgrees
<1>3. CASE ~Ends /\ UNCHANGED <<state, bodyVars, warnings>>
  <2>1. state = "InBody" => s.size \notin {NoLength, 0}
    BY <1>1, <1>3 DEF BodyAgrees
  <2>2. Finish(s) = s
    BY <1>2, <2>1 DEF Finish
  <2>3. Leads(s, s)
    BY <1>1, <2>2 DEF Leads
  <2>4. HeaderAgrees(s)'
    BY <1>1, <1>3 DEF HeaderAgrees, headerVars
  <2>5. BodyAgrees(s)'
    BY <1>1, <1>3 DEF BodyAgrees, bodyVars
  <2>. QED
    BY <2>3, <2>4, <2>5 DEF Followed
<1>4. CASE /\ Ends /\ state' = "PreHeader"
           /\ Complain(IF contentSize = NoLength THEN 1 ELSE 0)
           /\ CallHasBody(packet, packetSize)
  <2>. USE DEF Ends
  <2>1. /\ s.size = contentSize
        /\ s.body = <<>> \/ Len(s.body) < s.size
        /\ mode = "BUFFERED" =>
             s.body = packet /\ s.bodies = SizedBodies(bodies)
        /\ mode # "BUFFERED" =>
             Len(s.bodies) = Len(bodies) /\ s.size # NoLength
    BY <1>4 DEF BodyAgrees
  <2>2. s.body = <<>>
    <3>1. s.body \in Seq(Bytes)
      BY DEF Reader
    <3>2. PICK n \in Nat : n = Len(s.body)
      BY <3>1
    <3>3. s.size <= 0
      BY <1>4, <2>1 DEF NoLength
    <3>. QED
      BY <1>4, <2>1, <3>2 DEF NoLength
  <2>3. packet \in Seq(Bytes)
    BY DEF ParserInv, BodyInv
  <2>4. CASE contentSize = NoLength
    <3>1. mode = "BUFFERED"
      BY <2>1, <2>4
    <3>2. PICK t : t = Finish(s)
      OBVIOUS
    <3>3. /\ t \in Reader /\ t.state = "PreHeader" /\ Finish(t) = t
          /\ t.warnings = s.warnings + 1
          /\ t.field = s.field /\ t.value = s.value
          /\ t.headers = s.headers /\ t.size = s.size
          /\ t.body = s.body /\ t.bodies = s.bodies
      BY <1>2, <1>4, <2>1, <2>4, <3>2, Skipped
    <3>4. Leads(s, t)
      BY <1>1, <3>2, <3>3 DEF Leads
    <3>5. HeaderAgrees(t)'
      BY <1>1, <1>4, <2>4, <3>3 DEF HeaderAgrees, headerVars, Complain
    <3>6. packet' = <<>> /\ contentSize' = NoLength
      BY <1>4, <3>1 DEF CallHasBody
    <3>7. SizedBodies(bodies') = SizedBodies(bodies)
      <4>1. PICK body : body = [size |-> contentSize, bytes |-> packet]
        OBVIOUS
      <4>2. /\ body \in [size : Int, bytes : Seq(Bytes)]
            /\ body.size = NoLength
        BY <2>3, <2>4, <4>1 DEF NoLength
      <4>3. bodies' = Append(bodies, body)
        BY <1>4, <3>1, <4>1 DEF CallHasBody
      <4>4. bodies \in Seq([size : Int, bytes : Seq(Bytes)])
        BY DEF ParserInv, BodyInv
      <4>. QED
        BY <4>2, <4>3, <4>4, OneMore
    <3>8. BodyAgrees(t)'
      BY <1>1, <1>4, <2>1, <2>2, <2>4, <3>1, <3>3, <3>6, <3>7 DEF BodyAgrees
    <3>. QED
      BY <3>3, <3>4, <3>5, <3>8 DEF Followed
  <2>5. CASE contentSize # NoLength
    <3>1. contentSize = 0 /\ Complain(0)
      BY <1>4, <2>5
    <3>2. PICK t : t = EndBody(s)
      OBVIOUS
    <3>3. t \in Reader /\ Finish(t) = t
      BY <3>2, Ended
    <3>4. Finish(s) = t
      BY <1>2, <1>4, <2>1, <3>1, <3>2 DEF Finish, NoLength
    <3>5. Leads(s, t)
      BY <1>1, <3>3, <3>4 DEF Leads
    <3>6. UNCHANGED warnings
      BY <3>1 DEF Complain, ParserInv, FaultInv
    <3>7. HeaderAgrees(t)' /\ BodyAgrees(t)'
      BY <1>1, <1>4, <2>1, <2>3, <2>5, <3>2, <3>6, BodyFollows
    <3>. QED
      BY <3>3, <3>5, <3>7 DEF Followed
  <2>. QED
    BY <2>4, <2>5
<1>. QED
  BY <1>1, <1>3, <1>4

---------------------------------------------------------------------------
\* The calls in progress stay one.

LEMMA GoesOn ==
  ASSUME ParserInv, CallInv, NEW st, InLoop(st), NEW k, NEW p,
         MoveTo(p) \/ Advance(k, p)
  PROVE  CallInv'
<1>1. Tail(calls) = <<>> /\ ~Top.done /\ Top \in Calls
  BY LoopFacts DEF CallInv, OneCall, InLoop, GoodTop, GoodCall
<1>2. PICK call : ~call.done /\ SetTop(call)
  BY <1>1 DEF MoveTo, Advance, Calls
<1>3. <<call>> \in Seq({call})
  OBVIOUS
<1>4. calls' = <<call>>
  <2>1. <<call>> \o <<>> = <<call>>
    BY <1>3, ConcatEmptySeq
  <2>. QED
    BY <1>1, <1>2, <2>1 DEF SetTop
<1>5. calls' # <<>> /\ Tail(calls') = <<>> /\ Head(calls') = call
  BY <1>4
<1>. QED
  BY <1>2, <1>5, StillGoing DEF Going

LEMMA HeaderStepCalls ==
  ASSUME ParserInv, CallInv,
         \/ PreHeader \/ PreHeaderSpace
         \/ HeaderField \/ HeaderValueSpace \/ HeaderValue
         \/ AfterCr \/ AfterCrLf \/ AfterCrLfCr \/ BodyWithoutLength
  PROVE  CallInv'
<1>1. CASE PreHeader
  BY <1>1, GoesOn DEF PreHeader
<1>2. CASE PreHeaderSpace
  BY <1>2, GoesOn DEF PreHeaderSpace
<1>3. CASE HeaderField
  <2>1. InLoop("InHeaderField") /\ calls # <<>> /\ state = "InHeaderField"
    BY <1>3 DEF HeaderField, InLoop
  <2>2. \/ Return /\ UNCHANGED state
        \/ \E k, p : Advance(k, p)
    BY <1>3 DEF HeaderField
  <2>3. CASE Return /\ UNCHANGED state
    BY <2>1, <2>3, CallReturned DEF CallInv, OneCall
  <2>. QED
    BY <2>1, <2>2, <2>3, GoesOn
<1>4. CASE HeaderValueSpace
  BY <1>4, GoesOn DEF HeaderValueSpace
<1>5. CASE HeaderValue
  <2>1. InLoop("InHeaderValue") /\ calls # <<>> /\ state = "InHeaderValue"
    BY <1>5 DEF HeaderValue, InLoop
  <2>2. \/ Return /\ UNCHANGED state
        \/ \E k, p : Advance(k, p)
    BY <1>5 DEF HeaderValue
  <2>3. CASE Return /\ UNCHANGED state
    BY <2>1, <2>3, CallReturned DEF CallInv, OneCall
  <2>. QED
    BY <2>1, <2>2, <2>3, GoesOn
<1>6. CASE AfterCr
  BY <1>6, GoesOn DEF AfterCr, BeginBody, BeginHeader, Continue
<1>7. CASE AfterCrLf
  BY <1>7, GoesOn DEF AfterCrLf, BeginHeader, Continue
<1>8. CASE AfterCrLfCr
  BY <1>8, GoesOn DEF AfterCrLfCr, BeginBody, BeginHeader
<1>9. CASE BodyWithoutLength
  BY <1>9, GoesOn DEF BodyWithoutLength
<1>. QED
  BY <1>1, <1>2, <1>3, <1>4, <1>5, <1>6, <1>7, <1>8, <1>9

LEMMA BodyCalls ==
  ASSUME ParserInv, CallInv, ~feed.nested, Body
  PROVE  CallInv'
<1>1. InLoop("InBody") /\ calls # <<>>
  BY DEF Body, InLoop
<1>2. Taken \in 0..Len(data)
  BY <1>1, TakenFacts
<1>3. SetTop(BodyCall(Taken)) \/ SetTop(InHandler(BodyCall(Taken)))
  BY DEF Body
<1>. QED
  BY <1>1, <1>2, <1>3, CallInBody, StillGoing

---------------------------------------------------------------------------
\* Every step is followed.

LEMMA HeaderStepReads ==
  ASSUME ParserInv, CallInv,
         \/ PreHeader \/ PreHeaderSpace
         \/ HeaderField \/ HeaderValueSpace \/ HeaderValue
         \/ AfterCr \/ AfterCrLf \/ AfterCrLfCr \/ BodyWithoutLength,
         NEW s \in Reader, HeaderAgrees(s), BodyAgrees(s)
  PROVE  Followed(s)
  BY PreHeaderReads, PreHeaderSpaceReads, HeaderFieldReads,
     HeaderValueSpaceReads, HeaderValueReads, AfterCrReads, AfterCrLfReads,
     AfterCrLfCrReads, BodyWithoutLengthReads

LEMMA RestTyped ==
  ASSUME NEW stack, NEW nested, NEW s, GoodCalls(stack, nested, s)
  PROVE  RestOf(stack) \in Seq(Bytes)
<1>1. CASE stack = <<>>
  BY <1>1, EmptySeq DEF RestOf
<1>2. CASE stack # <<>>
  <2>1. /\ Head(stack) \in Calls
        /\ Head(stack).pos <= Len(Head(stack).data)
    BY <1>2 DEF GoodCalls, GoodTop, GoodCall
  <2>2. PICK bytes \in Seq(Bytes), p \in Nat :
          bytes = Head(stack).data /\ p = Head(stack).pos
    BY <2>1 DEF Calls
  <2>3. p \in 0..Len(bytes)
    BY <2>1, <2>2
  <2>. QED
    BY <1>2, <2>2, <2>3, Dropped DEF RestOf
<1>. QED
  BY <1>1, <1>2

\* The bytes handed to receiveData so far, and what the reader makes of them.
LEMMA SoFarTyped ==
  ASSUME ParserInv
  PROVE  /\ SubSeq(feed.stream, 1, given) \in Seq(Bytes)
         /\ feed.stream \in Seq(Bytes) /\ given \in 0..Len(feed.stream)
         /\ ReadSoFar \in Reader /\ ReadSoFar.unsized \in Nat
<1>1. feed.stream \in Seq(Bytes) /\ given \in 0..Len(feed.stream)
  BY FeedsAssumption DEF ParserInv, FeedInv, FeedsAssumption, Feed
<1>2. SubSeq(feed.stream, 1, given) \in Seq(Bytes)
  <2>1. 1 \in 1..(Len(feed.stream) + 1) /\ given + 1 >= 1
    BY <1>1
  <2>. QED
    BY <1>1, <2>1, Part
<1>3. ReadSoFar \in Reader
  BY <1>2, StartTyped, ReadTyped DEF ReadSoFar, Read
<1>. QED
  BY <1>1, <1>2, <1>3 DEF Reader

LEMMA StepReads ==
  ASSUME ParserInv, ParserInv', CallInv, ~feed.nested,
         Step, ~PreHeaderOverread,
         Lost \/ \E s \in Reader : Reads(s)
  PROVE  CallInv' /\ (Lost' \/ \E t \in Reader : Reads(t)')
<1>. DEFINE header == \/ PreHeader \/ PreHeaderSpace
                      \/ HeaderField \/ HeaderValueSpace \/ HeaderValue
                      \/ AfterCr \/ AfterCrLf \/ AfterCrLfCr
                      \/ BodyWithoutLength
<1>1. header \/ Body \/ EndOfData
  BY DEF Step
<1>2. UNCHANGED <<feed, given, mode>>
  BY <1>1 DEF PreHeader, PreHeaderSpace, HeaderField, HeaderValueSpace,
              HeaderValue, AfterCr, AfterCrLf, AfterCrLfCr, BodyWithoutLength,
              Body, EndOfData, chunkVars
<1>3. CallInv'
  <2>1. CASE header
    BY <2>1, HeaderStepCalls
  <2>2. CASE Body
    BY <2>2, BodyCalls
  <2>3. CASE EndOfData
    BY <2>3, EndOfDataCalls
  <2>. QED
    BY <1>1, <2>1, <2>2, <2>3
<1>4. ReadSoFar' = ReadSoFar
  BY <1>2 DEF ReadSoFar
<1>5. CASE Lost
  BY <1>2, <1>3, <1>4, <1>5 DEF Lost
<1>6. CASE \E s \in Reader : Reads(s)
  <2>1. PICK s \in Reader : Reads(s)
    BY <1>6
  <2>2. /\ HeaderAgrees(s) /\ BodyAgrees(s)
        /\ ReadFrom(Finish(s), RestOf(calls)) = ReadSoFar
    BY <2>1 DEF Reads
  <2>3. Followed(s)
    <3>1. CASE header
      BY <2>2, <3>1, HeaderStepReads
    <3>2. CASE Body
      BY <2>2, <3>2, BodyReads
    <3>3. CASE EndOfData
      BY <2>2, <3>3, EndOfDataReads
    <3>. QED
      BY <1>1, <3>1, <3>2, <3>3
  <2>4. PICK t \in Reader : /\ Leads(s, t)
                            /\ \/ HeaderAgrees(t)' /\ BodyAgrees(t)'
                               \/ mode # "BUFFERED" /\ Finish(t).unsized # 0
    BY <2>3 DEF Followed
  <2>5. ReadFrom(Finish(t), RestOf(calls')) = ReadSoFar
    BY <2>2, <2>4 DEF Leads
  <2>6. CASE HeaderAgrees(t)' /\ BodyAgrees(t)'
    <3>1. Reads(t)'
      BY <1>4, <2>5, <2>6 DEF Reads
    <3>. QED
      BY <1>3, <3>1
  <2>7. CASE mode # "BUFFERED" /\ Finish(t).unsized # 0
    <3>1. RestOf(calls') \in Seq(Bytes)
      BY RestTyped DEF ParserInv, CallsInv
    <3>2. PICK f \in Reader : f = Finish(t)
      BY FinishTyped
    <3>3. ReadSoFar.unsized >= f.unsized
      BY <2>5, <3>1, <3>2, ReadTyped
    <3>4. ReadSoFar.unsized # 0
      <4>1. PICK m \in Nat : m = f.unsized
        BY DEF Reader
      <4>2. PICK n \in Nat : n = ReadSoFar.unsized
        BY SoFarTyped
      <4>. QED
        BY <2>7, <3>2, <3>3, <4>1, <4>2
    <3>5. Lost'
      BY <1>2, <1>4, <2>7, <3>4 DEF Lost
    <3>. QED
      BY <1>3, <3>5
  <2>. QED
    BY <2>4, <2>6, <2>7
<1>. QED
  BY <1>5, <1>6

\* Between the calls the reader and the parser are where the stream is.
LEMMA BetweenCalls ==
  ASSUME CallInv, calls = <<>>, NEW s \in Reader, Reads(s)
  PROVE  s = ReadSoFar
<1>1. Finish(s) = s
  BY DEF CallInv, OneCall, Reads, HeaderAgrees, BodyAgrees, Finish
<1>2. ReadFrom(s, <<>>) = s
  BY ReadNothing
<1>. QED
  BY <1>1, <1>2 DEF Reads, RestOf

LEMMA ReceiveDataReads ==
  ASSUME ParserInv, ParserInv', CallInv, ~feed.nested,
         NEW n \in 1..Len(feed.stream), ReceiveData(n),
         Lost \/ \E s \in Reader : Reads(s)
  PROVE  CallInv' /\ (Lost' \/ \E t \in Reader : Reads(t)')
<1>. DEFINE chunk == SubSeq(feed.stream, given + 1, given + n)
<1>1. /\ calls # <<>> => Top.user
      /\ given + n \in feed.cuts /\ given' = given + n
      /\ calls' = <<Call(chunk)>> \o calls
      /\ UNCHANGED <<feed, mode, state, headerVars, bodyVars, warnings>>
  BY DEF ReceiveData
<1>2. calls = <<>>
  BY <1>1, TopFacts DEF GoodTop, GoodCall
<1>3. /\ feed.stream \in Seq(Bytes) /\ given \in 0..Len(feed.stream)
      /\ given + n \in 0..Len(feed.stream)
  <2>1. feed \in Feeds
    BY DEF ParserInv, FeedInv
  <2>2. feed.cuts \subseteq 0..Len(feed.stream)
    BY <2>1, FeedsAssumption DEF FeedsAssumption
  <2>. QED
    BY <1>1, <2>2, SoFarTyped
<1>4. PICK m \in given..Len(feed.stream) : m = given + n
  BY <1>3
<1>5. PICK bytes \in Seq(Bytes) : bytes = chunk
  BY <1>3, <1>4, Taking
<1>6. PICK old \in Seq(Bytes) : old = SubSeq(feed.stream, 1, given)
  BY SoFarTyped
<1>7. SubSeq(feed.stream, 1, m) = old \o bytes
  <2>1. /\ 1 \in 1..(Len(feed.stream) + 1)
        /\ given \in (1 - 1)..Len(feed.stream)
    BY <1>3
  <2>2. SubSeq(feed.stream, 1, given) \o SubSeq(feed.stream, given + 1, m)
          = SubSeq(feed.stream, 1, m)
    BY <1>3, <2>1, ConcatAdjacentSubSeq
  <2>. QED
    BY <1>4, <1>5, <1>6, <2>2
<1>8. ReadSoFar' = ReadFrom(ReadSoFar, bytes)
  <2>1. ReadSoFar = ReadFrom(Start, old)
    BY <1>6 DEF ReadSoFar, Read
  <2>2. ReadSoFar' = ReadFrom(Start, old \o bytes)
    BY <1>1, <1>4, <1>7 DEF ReadSoFar, Read
  <2>. QED
    BY <2>1, <2>2, ReadOn
<1>9. PICK call : call = Call(bytes)
  OBVIOUS
<1>10. /\ call.data = bytes /\ call.pos = 0 /\ ~call.done
       /\ calls' = <<call>>
  <2>1. <<call>> \in Seq({call})
    OBVIOUS
  <2>2. <<call>> \o <<>> = <<call>>
    BY <2>1, ConcatEmptySeq
  <2>. QED
    BY <1>1, <1>2, <1>5, <1>9, <2>2 DEF Call
<1>11. calls' # <<>> /\ Tail(calls') = <<>> /\ Head(calls') = call
  BY <1>10
<1>12. RestOf(calls') = bytes
  BY <1>10, <1>11, DropAll DEF RestOf
<1>13. CallInv'
  BY <1>10, <1>11, StillGoing DEF Going
<1>14. CASE Lost
  <2>1. ReadSoFar'.unsized >= ReadSoFar.unsized
    BY <1>8, SoFarTyped, ReadTyped
  <2>2. ReadSoFar'.unsized \in Nat
    BY <1>8, SoFarTyped, ReadTyped DEF Reader
  <2>3. Lost'
    BY <1>1, <1>14, <2>1, <2>2, SoFarTyped DEF Lost
  <2>. QED
    BY <1>13, <2>3
<1>15. CASE \E s \in Reader : Reads(s)
  <2>1. PICK s \in Reader : Reads(s)
    BY <1>15
  <2>2. s = ReadSoFar
    BY <1>2, <2>1, BetweenCalls
  <2>3. Finish(s) = s
    BY <1>2, <2>1
       DEF CallInv, OneCall, Reads, HeaderAgrees, BodyAgrees, Finish
  <2>4. HeaderAgrees(s)' /\ BodyAgrees(s)'
    BY <1>1, <2>1 DEF Reads, HeaderAgrees, BodyAgrees, headerVars, bodyVars
  <2>5. Reads(s)'
    BY <1>8, <1>12, <2>2, <2>3, <2>4 DEF Reads
  <2>. QED
    BY <1>13, <2>5
<1>. QED
  BY <1>14, <1>15

---------------------------------------------------------------------------
\* The theorems.

LEMMA ReadingStarts ==
  ASSUME Init, ParserInv
  PROVE  ReadInv
<1>1. calls = <<>> /\ state = "PreHeader" /\ given = 0
  BY DEF Init
<1>2. CallInv
  BY <1>1 DEF CallInv, OneCall
<1>3. HeaderAgrees(Start)
  BY DEF Init, HeaderAgrees, Start
<1>4. BodyAgrees(Start)
  BY NoBodies DEF Init, BodyAgrees, Start
<1>5. ReadFrom(Finish(Start), RestOf(calls)) = ReadSoFar
  <2>1. Finish(Start) = Start
    BY DEF Finish, Start
  <2>2. SubSeq(feed.stream, 1, given) = <<>>
    BY <1>1, SoFarTyped, SubSeqEmpty
  <2>. QED
    BY <1>1, <2>1, <2>2 DEF RestOf, ReadSoFar, Read
<1>. QED
  BY <1>2, <1>3, <1>4, <1>5, StartTyped DEF ReadInv, Reads

\* While receiveData runs, a reader in the state of the parser makes of the
\* rest of the chunk what the reader of the whole stream does.
THEOREM ReadInvariance == Spec => []ReadInv
<1>1. Init /\ ParserInv => ReadInv
  BY ReadingStarts
<1>2. ParserInv /\ ParserInv' /\ ReadInv /\ [Next]_vars => ReadInv'
  <2>. SUFFICES ASSUME ParserInv, ParserInv', ReadInv, [Next]_vars,
                       ~feed.nested', ~overread'
                PROVE  CallInv' /\ (Lost' \/ \E t \in Reader : Reads(t)')
    BY DEF ReadInv
  <2>1. CASE Step
    <3>1. ~PreHeaderOverread
      BY DEF PreHeaderOverread
    <3>2. UNCHANGED <<feed, overread>>
      BY <2>1, <3>1 DEF Step, PreHeader, PreHeaderSpace, HeaderField,
         HeaderValueSpace, HeaderValue, AfterCr, AfterCrLf, AfterCrLfCr,
         BodyWithoutLength, Body, EndOfData, chunkVars, faultVars
    <3>3. CallInv /\ (Lost \/ \E s \in Reader : Reads(s)) /\ ~feed.nested
      BY <3>2 DEF ReadInv
    <3>. QED
      BY <2>1, <3>1, <3>3, StepReads
  <2>2. CASE \E n \in 1..Len(feed.stream) : ReceiveData(n)
    <3>1. PICK n \in 1..Len(feed.stream) : ReceiveData(n)
      BY <2>2
    <3>2. UNCHANGED <<feed, overread>>
      BY <3>1 DEF ReceiveData, faultVars
    <3>3. CallInv /\ (Lost \/ \E s \in Reader : Reads(s)) /\ ~feed.nested
      BY <3>2 DEF ReadInv
    <3>. QED
      BY <3>1, <3>3, ReceiveDataReads
  <2>3. CASE UNCHANGED vars
    <3>1. UNCHANGED <<feed, given, mode, calls, state, headerVars, bodyVars,
                      overread, warnings>>
      BY <2>3 DEF vars, chunkVars, faultVars
    <3>2. CallInv /\ (Lost \/ \E s \in Reader : Reads(s))
      BY <3>1 DEF ReadInv
    <3>3. CallInv' /\ ReadSoFar' = ReadSoFar /\ (Lost => Lost')
      BY <3>1, <3>2 DEF CallInv, bodyVars, ReadSoFar, Lost
    <3>4. ASSUME NEW s \in Reader, Reads(s)
          PROVE  Reads(s)'
      BY <3>1, <3>3, <3>4
         DEF Reads, HeaderAgrees, BodyAgrees, headerVars, bodyVars
    <3>. QED
      BY <3>2, <3>3, <3>4
  <2>. QED
    BY <2>1, <2>2, <2>3 DEF Next
<1>. QED
  BY <1>1, <1>2, ParserInvariance, PTL DEF Spec

\* How a stream is cut into chunks makes no difference: whenever receiveData
\* has returned, its state, the headers, the complaints and the bodies with a
\* Content-Length are those of a reader that takes one byte after the other.
THEOREM ChunksDoNotMatter == Spec => []ChunkingIrrelevant
<1>1. ReadInv => ChunkingIrrelevant
  <2>. SUFFICES ASSUME ReadInv, Idle, ~feed.nested, ~overread
                PROVE  LET r == ReadSoFar
                       IN  IF mode = "BUFFERED"
                           THEN /\ <<state, field, value, packet, contentSize>>
                                     = <<r.state, r.field, r.value, r.body,
                                         r.size>>
                                /\ <<headers, warnings>>
                                     = <<r.headers, r.warnings>>
                                /\ SizedBodies(bodies) = r.bodies
                           ELSE r.unsized = 0 =>
                                /\ <<state, field, value>>
                                     = <<r.state, r.field, r.value>>
                                /\ <<headers, warnings>>
                                     = <<r.headers, r.warnings>>
                                /\ Len(bodies) = Len(r.bodies)
    BY DEF ChunkingIrrelevant, ReadSoFar
  <2>1. CallInv /\ calls = <<>> /\ (Lost \/ \E s \in Reader : Reads(s))
    BY DEF ReadInv, Idle
  <2>2. CASE Lost
    BY <2>2 DEF Lost
  <2>3. CASE \E s \in Reader : Reads(s)
    <3>1. PICK s \in Reader : Reads(s)
      BY <2>3
    <3>2. s = ReadSoFar
      BY <2>1, <3>1, BetweenCalls
    <3>. QED
      BY <3>1, <3>2 DEF Reads, HeaderAgrees, BodyAgrees
  <2>. QED
    BY <2>1, <2>2, <2>3
<1>. QED
  BY <1>1, ReadInvariance, PTL

---------------------------------------------------------------------------
\* A stream of messages.

\* A message is where the feed says.
LEMMA FrameIs ==
  ASSUME NEW f \in Feed, Framed(f), NEW n \in 1..Len(f.messages)
  PROVE  /\ f.messages[n] \in Seq(Bytes) /\ Len(f.messages[n]) <= MaxInt
         /\ \E d \in Numbers :
              /\ NumberValue[d] = Len(f.messages[n])
              /\ SubSeq(f.stream, EndOf(f, n - 1) + 1, EndOf(f, n))
                   = FrameOf(d) \o f.messages[n]
         /\ EndOf(f, n) = EndOf(f, n - 1) + (8 + Len(f.messages[n]))
<1>1. PICK m \in Seq(Bytes) : m = f.messages[n]
  BY ElementOfSeq DEF Feed
<1>2. /\ Len(m) <= MaxInt
      /\ \E d \in Numbers : NumberValue[d] = Len(m)
      /\ EndOf(f, n) = EndOf(f, n - 1) + Len(Message(m))
      /\ SubSeq(f.stream, EndOf(f, n - 1) + 1, EndOf(f, n)) = Message(m)
  BY <1>1 DEF Framed
<1>3. PICK d \in Numbers : d = CHOOSE e \in Numbers : NumberValue[e] = Len(m)
  BY <1>2
<1>4. NumberValue[d] = Len(m)
  BY <1>2, <1>3
<1>5. Message(m) = FrameOf(d) \o m
  BY <1>3 DEF Message, FrameOf
<1>6. Len(FrameOf(d) \o m) = 8 + Len(m)
  <2>1. /\ LENGTH \in Bytes /\ COLON \in Bytes /\ SPACE \in Bytes
        /\ d \in Bytes /\ CR \in Bytes /\ LF \in Bytes
    BY DEF Bytes, Others
  <2>2. FrameOf(d) \in Seq(Bytes) /\ Len(FrameOf(d)) = 8
    BY <2>1 DEF FrameOf
  <2>3. PICK frame \in Seq(Bytes) : frame = FrameOf(d)
    BY <2>2
  <2>4. Len(frame \o m) = Len(frame) + Len(m)
    BY ConcatProperties
  <2>. QED
    BY <2>2, <2>3, <2>4
<1>. QED
  BY <1>1, <1>2, <1>4, <1>5, <1>6

LEMMA EndsTyped ==
  ASSUME NEW f \in Feed, Framed(f), NEW n \in 0..Len(f.messages)
  PROVE  EndOf(f, n) \in Nat
<1>1. f.ends \in Seq(Nat) /\ Len(f.ends) = Len(f.messages)
  BY DEF Feed, Framed
<1>2. CASE n = 0
  BY <1>2 DEF EndOf
<1>3. CASE n # 0
  <2>1. n \in 1..Len(f.ends)
    BY <1>1, <1>3
  <2>2. f.ends[n] \in Nat
    BY <1>1, <2>1, ElementOfSeq
  <2>. QED
    BY <1>3, <2>2 DEF EndOf
<1>. QED
  BY <1>2, <1>3

\* A later message ends later.
LEMMA EndsGrow ==
  ASSUME NEW f \in Feed, Framed(f), NEW i \in 0..Len(f.messages),
         NEW j \in (i + 1)..Len(f.messages)
  PROVE  EndOf(f, i) < EndOf(f, j)
<1>. DEFINE Bad == {k \in (i + 1)..Len(f.messages) :
                      ~(EndOf(f, i) < EndOf(f, k))}
<1>1. Bad = {}
  <2>. SUFFICES ASSUME Bad # {} PROVE FALSE
    OBVIOUS
  <2>1. Bad \in SUBSET Nat
    OBVIOUS
  <2>2. PICK k \in Bad : \A l \in Bad : k <= l
    <3>. HIDE DEF Bad
    <3>. QED
      BY <2>1, Least
  <2>3. /\ k \in 1..Len(f.messages) /\ k - 1 \in i..Len(f.messages)
        /\ k \in 0..Len(f.messages) /\ k - 1 \in 0..Len(f.messages)
        /\ i \in 0..Len(f.messages)
    BY <2>2
  <2>4. PICK a \in Nat : a = EndOf(f, i)
    BY <2>3, EndsTyped
  <2>5. PICK b \in Nat : b = EndOf(f, k - 1)
    BY <2>3, EndsTyped
  <2>6. PICK d \in Nat : d = EndOf(f, k)
    BY <2>3, EndsTyped
  <2>7. b < d
    <3>1. f.messages[k] \in Seq(Bytes)
          /\ EndOf(f, k) = EndOf(f, k - 1) + (8 + Len(f.messages[k]))
      BY <2>3, FrameIs
    <3>2. PICK m \in Nat : m = Len(f.messages[k])
      BY <3>1
    <3>3. d = b + (8 + m)
      BY <2>5, <2>6, <3>1, <3>2
    <3>. QED
      BY <3>3
  <2>8. a <= b
    <3>1. CASE k - 1 = i
      BY <2>4, <2>5, <3>1
    <3>2. CASE k - 1 # i
      <4>1. k - 1 \in (i + 1)..Len(f.messages) /\ k - 1 \notin Bad
        BY <2>2, <2>3, <3>2
      <4>2. EndOf(f, i) < EndOf(f, k - 1)
        BY <4>1
      <4>. QED
        BY <2>4, <2>5, <4>2
    <3>. QED
      BY <3>1, <3>2
  <2>9. ~(a < d)
    BY <2>2, <2>4, <2>6
  <2>. QED
    BY <2>7, <2>8, <2>9
<1>. QED
  BY <1>1

LEMMA EndsWithin ==
  ASSUME NEW f \in Feed, Framed(f), NEW n \in 0..Len(f.messages)
  PROVE  EndOf(f, n) \in 0..Len(f.stream)
<1>1. EndOf(f, n) \in Nat /\ Len(f.stream) \in Nat
  BY EndsTyped, SMTT(30) DEF Feed
<1>2. PICK k \in Nat : k = Len(f.messages)
  BY DEF Feed
<1>3. CASE k = 0
  BY <1>1, <1>2, <1>3 DEF EndOf
<1>4. CASE k > 0
  <2>1. f.messages # <<>>
    BY <1>2, <1>4
  <2>2. EndOf(f, k) = Len(f.stream)
    BY <1>2, <2>1 DEF Framed
  <2>3. n = k \/ (n \in 0..Len(f.messages) /\ k \in (n + 1)..Len(f.messages))
    BY <1>2
  <2>4. n = k \/ EndOf(f, n) < EndOf(f, k)
    BY <2>3, EndsGrow
  <2>. QED
    BY <1>1, <2>2, <2>4
<1>. QED
  BY <1>2, <1>3, <1>4

\* The bytes before a position, and the next ones.
LEMMA PartsOf ==
  ASSUME NEW f \in Feed, NEW p \in 0..Len(f.stream),
         NEW q \in p..Len(f.stream)
  PROVE  /\ SubSeq(f.stream, 1, p) \in Seq(Bytes)
         /\ SubSeq(f.stream, p + 1, q) \in Seq(Bytes)
         /\ SubSeq(f.stream, 1, q)
              = SubSeq(f.stream, 1, p) \o SubSeq(f.stream, p + 1, q)
<1>1. PICK bytes \in Seq(Bytes) : bytes = f.stream
  BY DEF Feed
<1>2. /\ SubSeq(bytes, 0 + 1, p) \in Seq(Bytes)
      /\ SubSeq(bytes, p + 1, q) \in Seq(Bytes)
  <2>1. 0 \in 0..Len(bytes) /\ p \in 0..Len(bytes) /\ q \in p..Len(bytes)
    BY <1>1
  <2>. QED
    BY <2>1, Taking
<1>3. SubSeq(bytes, 1, p) \o SubSeq(bytes, p + 1, q) = SubSeq(bytes, 1, q)
  <2>1. /\ 1 \in 1..(Len(bytes) + 1) /\ p \in (1 - 1)..Len(bytes)
        /\ q \in p..Len(bytes)
    BY <1>1
  <2>. QED
    BY <2>1, ConcatAdjacentSubSeq
<1>. QED
  BY <1>1, <1>2, <1>3

ReadTo(f, p) == Read(SubSeq(f.stream, 1, p))

LEMMA ReadToTyped ==
  ASSUME NEW f \in Feed, NEW p \in 0..Len(f.stream)
  PROVE  ReadTo(f, p) \in Reader
<1>1. p \in p..Len(f.stream)
  BY DEF Feed
<1>2. SubSeq(f.stream, 1, p) \in Seq(Bytes)
  BY <1>1, PartsOf
<1>. QED
  BY <1>2, ReadTyped, StartTyped DEF ReadTo, Read

LEMMA ReadToMore ==
  ASSUME NEW f \in Feed, NEW p \in 0..Len(f.stream),
         NEW q \in p..Len(f.stream)
  PROVE  /\ ReadTo(f, q) = ReadFrom(ReadTo(f, p), SubSeq(f.stream, p + 1, q))
         /\ More(ReadTo(f, p), ReadTo(f, q))
<1>1. PICK a \in Seq(Bytes) : a = SubSeq(f.stream, 1, p)
  BY PartsOf
<1>2. PICK b \in Seq(Bytes) : b = SubSeq(f.stream, p + 1, q)
  BY PartsOf
<1>3. SubSeq(f.stream, 1, q) = a \o b
  BY <1>1, <1>2, PartsOf
<1>4. ReadFrom(Start, a \o b) = ReadFrom(ReadFrom(Start, a), b)
  BY ReadOn
<1>5. ReadTo(f, q) = ReadFrom(ReadTo(f, p), b)
  BY <1>1, <1>3, <1>4 DEF ReadTo, Read
<1>6. More(ReadTo(f, p), ReadFrom(ReadTo(f, p), b))
  BY ReadToTyped, ReadGrows
<1>. QED
  BY <1>2, <1>5, <1>6

\* The first n messages and nothing else has been handed on.
Handed(r, f, n) ==
  /\ Between(r) /\ r.warnings = 0
  /\ Len(r.bodies) = n /\ \A i \in 1..n : r.bodies[i] = f.messages[i]

LEMMA StartHanded ==
  ASSUME NEW f \in Feed
  PROVE  Handed(ReadTo(f, 0), f, 0)
<1>1. SubSeq(f.stream, 1, 0) = <<>>
  BY DEF Feed
<1>2. ReadTo(f, 0) = Start
  BY <1>1, ReadNothing DEF ReadTo, Read
<1>3. Between(Start) /\ Start.warnings = 0 /\ Start.bodies = <<>>
  BY StartTyped DEF Start, Between, At
<1>. QED
  BY <1>2, <1>3 DEF Handed

\* One message more; and until its last byte nothing is handed on.
LEMMA OneHanded ==
  ASSUME NEW f \in Feed, Framed(f), NEW n \in 1..Len(f.messages),
         Handed(ReadTo(f, EndOf(f, n - 1)), f, n - 1)
  PROVE  /\ Handed(ReadTo(f, EndOf(f, n)), f, n)
         /\ Len(ReadTo(f, EndOf(f, n) - 1).bodies) = n - 1
<1>1. PICK m \in Seq(Bytes) : m = f.messages[n] /\ Len(m) <= MaxInt
  BY FrameIs
<1>2. PICK d \in Numbers :
        /\ NumberValue[d] = Len(m)
        /\ SubSeq(f.stream, EndOf(f, n - 1) + 1, EndOf(f, n)) = FrameOf(d) \o m
  BY <1>1, FrameIs
<1>3. n - 1 \in 0..Len(f.messages) /\ n \in 0..Len(f.messages)
  OBVIOUS
<1>4. PICK p \in 0..Len(f.stream) : p = EndOf(f, n - 1)
  BY <1>3, EndsWithin
<1>5. PICK q \in 0..Len(f.stream) : q = EndOf(f, n)
  BY <1>3, EndsWithin
<1>6. PICK k \in Nat : k = Len(m)
  OBVIOUS
<1>7. q = p + (8 + k)
  BY <1>1, <1>4, <1>5, <1>6, FrameIs
<1>8. PICK w : w = FrameOf(d) \o m
  OBVIOUS
<1>9. PICK s : s = ReadTo(f, p)
  OBVIOUS
<1>10. Between(s) /\ s.warnings = 0 /\ Len(s.bodies) = n - 1
       /\ \A i \in 1..(n - 1) : s.bodies[i] = f.messages[i]
  BY <1>4, <1>9 DEF Handed
<1>11. PICK r : r = ReadFrom(s, w)
  OBVIOUS
<1>12. /\ w \in Seq(Bytes) /\ Len(w) = 8 + k
       /\ Between(r) /\ r.bodies = Append(s.bodies, m)
       /\ r.warnings = s.warnings
       /\ ReadFrom(s, SubSeq(w, 1, Len(w) - 1)).bodies = s.bodies
  BY <1>1, <1>2, <1>6, <1>8, <1>10, <1>11, MessageRead, SMTT(30)
<1>13. SubSeq(f.stream, p + 1, q) = w
  BY <1>2, <1>4, <1>5, <1>8
<1>14. p \in 0..Len(f.stream) /\ q \in p..Len(f.stream)
       /\ q - 1 \in p..Len(f.stream)
  BY <1>7
<1>15. ReadTo(f, q) = r
  BY <1>9, <1>11, <1>13, <1>14, ReadToMore
<1>16. Handed(r, f, n)
  <2>1. s.bodies \in Seq(Seq(Bytes))
    BY <1>10 DEF Between, At, Reader
  <2>2. /\ Len(r.bodies) = Len(s.bodies) + 1
        /\ \A i \in 1..Len(s.bodies) : r.bodies[i] = s.bodies[i]
        /\ r.bodies[Len(s.bodies) + 1] = m
    BY <1>12, <2>1, AppendProperties
  <2>3. Len(r.bodies) = n /\ \A i \in 1..(n - 1) : r.bodies[i] = s.bodies[i]
    BY <1>10, <2>2
  <2>4. r.bodies[n] = m
    BY <1>10, <2>2
  <2>5. \A i \in 1..n : r.bodies[i] = f.messages[i]
    BY <1>1, <1>10, <2>3, <2>4
  <2>. QED
    BY <1>10, <1>12, <2>3, <2>5 DEF Handed
<1>17. Len(ReadTo(f, q - 1).bodies) = n - 1
  <2>1. ReadTo(f, q - 1) = ReadFrom(s, SubSeq(f.stream, p + 1, q - 1))
    BY <1>9, <1>14, ReadToMore
  <2>2. SubSeq(f.stream, p + 1, q - 1) = SubSeq(w, 1, Len(w) - 1)
    <3>1. PICK bytes \in Seq(Bytes) : bytes = f.stream
      BY DEF Feed
    <3>2. /\ SubSeq(bytes, p + 1, q) \in Seq(Bytes)
          /\ \A i \in 1..(q - p) : SubSeq(bytes, p + 1, q)[i] = bytes[p + i]
      BY <1>14, <3>1, Taking
    <3>3. /\ SubSeq(bytes, p + 1, q - 1) \in Seq(Bytes)
          /\ Len(SubSeq(bytes, p + 1, q - 1)) = (q - 1) - p
          /\ \A i \in 1..((q - 1) - p) :
               SubSeq(bytes, p + 1, q - 1)[i] = bytes[p + i]
      BY <1>14, <3>1, Taking
    <3>4. /\ 0 \in 0..Len(w) /\ Len(w) - 1 \in 0..Len(w)
          /\ Len(w) - 1 = (q - 1) - p
          /\ (Len(w) - 1) - 0 = (q - 1) - p /\ 0 + 1 = 1
      BY <1>7, <1>12
    <3>5. /\ SubSeq(w, 0 + 1, Len(w) - 1) \in Seq(Bytes)
          /\ Len(SubSeq(w, 0 + 1, Len(w) - 1)) = (Len(w) - 1) - 0
          /\ \A i \in 1..((Len(w) - 1) - 0) :
               SubSeq(w, 0 + 1, Len(w) - 1)[i] = w[0 + i]
      BY <1>12, <3>4, Taking
    <3>6. /\ SubSeq(w, 1, Len(w) - 1) \in Seq(Bytes)
          /\ Len(SubSeq(w, 1, Len(w) - 1)) = (q - 1) - p
          /\ \A i \in 1..((q - 1) - p) : SubSeq(w, 1, Len(w) - 1)[i] = w[i]
      BY <3>4, <3>5
    <3>7. \A i \in 1..((q - 1) - p) : bytes[p + i] = w[i]
      <4>1. \A i \in 1..((q - 1) - p) : i \in 1..(q - p)
        OBVIOUS
      <4>2. SubSeq(bytes, p + 1, q) = w
        BY <1>13, <3>1
      <4>. QED
        BY <3>2, <4>1, <4>2
    <3>8. \A i \in 1..((q - 1) - p) : SubSeq(bytes, p + 1, q - 1)[i]
                                        = SubSeq(w, 1, Len(w) - 1)[i]
      BY <3>3, <3>6, <3>7
    <3>9. SubSeq(bytes, p + 1, q - 1) = SubSeq(w, 1, Len(w) - 1)
      BY <3>3, <3>6, <3>8, SeqEqual
    <3>. QED
      BY <3>1, <3>9
  <2>. QED
    BY <1>10, <1>12, <2>1, <2>2
<1>. QED
  BY <1>5, <1>15, <1>16, <1>17

\* All messages up to the n-th.
LEMMA AllHanded ==
  ASSUME NEW f \in Feed, Framed(f), NEW n \in 0..Len(f.messages)
  PROVE  Handed(ReadTo(f, EndOf(f, n)), f, n)
<1>. DEFINE Bad == {k \in 0..Len(f.messages) :
                      ~Handed(ReadTo(f, EndOf(f, k)), f, k)}
<1>1. Bad = {}
  <2>. SUFFICES ASSUME Bad # {} PROVE FALSE
    OBVIOUS
  <2>1. Bad \in SUBSET Nat
    OBVIOUS
  <2>2. PICK k \in Bad : \A l \in Bad : k <= l
    <3>. HIDE DEF Bad
    <3>. QED
      BY <2>1, Least
  <2>3. k # 0
    BY <2>2, StartHanded DEF EndOf
  <2>4. k \in 1..Len(f.messages) /\ k - 1 \in 0..Len(f.messages)
        /\ k - 1 \notin Bad
    BY <2>2, <2>3
  <2>5. Handed(ReadTo(f, EndOf(f, k - 1)), f, k - 1)
    BY <2>4
  <2>6. Handed(ReadTo(f, EndOf(f, k)), f, k)
    BY <2>4, <2>5, OneHanded
  <2>. QED
    BY <2>2, <2>6
<1>. QED
  BY <1>1

\* Wherever reading stops there is nothing to complain of, the bodies are
\* those of the messages, and each of them has been read to its end.
LEMMA HandedSoFar ==
  ASSUME NEW f \in Feed, Framed(f), f.messages # <<>>,
         NEW p \in 0..Len(f.stream)
  PROVE  LET r == ReadTo(f, p)
         IN  /\ r \in Reader /\ r.warnings = 0
             /\ \A i \in 1..Len(r.bodies) :
                  /\ i \in 1..Len(f.messages) /\ r.bodies[i] = f.messages[i]
                  /\ EndOf(f, i) <= p
<1>1. PICK k \in Nat : k = Len(f.messages)
  BY DEF Feed
<1>2. PICK r \in Reader : r = ReadTo(f, p)
  BY ReadToTyped
<1>3. PICK last : last = ReadTo(f, Len(f.stream))
  OBVIOUS
<1>4. Handed(last, f, k)
  <2>1. EndOf(f, k) = Len(f.stream) /\ k \in 0..Len(f.messages)
    BY <1>1 DEF Framed
  <2>. QED
    BY <1>3, <2>1, AllHanded
<1>5. More(r, last)
  <2>1. Len(f.stream) \in p..Len(f.stream)
    BY DEF Feed
  <2>. QED
    BY <1>2, <1>3, <2>1, ReadToMore
<1>6. PICK n \in Nat : n = Len(r.bodies)
  BY BodiesCounted
<1>7. /\ r.warnings <= last.warnings /\ last.warnings = 0 /\ r.warnings \in Nat
      /\ n <= k /\ \A i \in 1..n : last.bodies[i] = r.bodies[i]
      /\ \A i \in 1..k : last.bodies[i] = f.messages[i]
  BY <1>4, <1>5, <1>6 DEF More, Grown, Handed, Reader
<1>8. ASSUME NEW i \in 1..n
      PROVE  EndOf(f, i) <= p
  <2>1. /\ i \in 1..Len(f.messages) /\ i \in 0..Len(f.messages)
        /\ i - 1 \in 0..Len(f.messages)
    BY <1>1, <1>7
  <2>2. Len(ReadTo(f, EndOf(f, i) - 1).bodies) = i - 1
    BY <2>1, AllHanded, OneHanded
  <2>3. PICK e \in 0..Len(f.stream) : e = EndOf(f, i)
    BY <2>1, EndsWithin
  <2>4. ASSUME p < e PROVE FALSE
    <3>1. e - 1 \in p..Len(f.stream)
      BY <2>3, <2>4
    <3>2. More(r, ReadTo(f, e - 1))
      BY <1>2, <3>1, ReadToMore
    <3>3. n <= i - 1
      BY <1>6, <2>2, <2>3, <3>2 DEF More, Grown
    <3>. QED
      BY <3>3
  <2>. QED
    BY <2>3, <2>4
<1>. QED
  BY <1>1, <1>2, <1>6, <1>7, <1>8

---------------------------------------------------------------------------
\* What a reader that agrees with the parser has read of a stream of messages.

LEMMA QuietReader ==
  ASSUME NEW f \in Feed, Framed(f), f.messages # <<>>,
         NEW p \in 0..Len(f.stream),
         NEW s \in Reader, NEW rest \in Seq(Bytes),
         ReadFrom(Finish(s), rest) = ReadTo(f, p)
  PROVE  /\ s.warnings = 0
         /\ ReadTo(f, p).warnings = 0
         /\ \A i \in 1..Len(s.bodies) :
              /\ i \in 1..Len(f.messages) /\ s.bodies[i] = f.messages[i]
              /\ EndOf(f, i) <= p
<1>1. PICK t \in Reader : t = Finish(s)
  BY FinishTyped
<1>2. PICK r \in Reader : r = ReadTo(f, p)
  BY ReadToTyped
<1>3. More(s, t)
  BY <1>1, FinishGrows
<1>4. More(t, r)
  BY <1>1, <1>2, ReadGrows
<1>5. More(s, r)
  BY <1>3, <1>4, MoreTwice
<1>6. /\ r.warnings = 0
      /\ \A i \in 1..Len(r.bodies) :
           /\ i \in 1..Len(f.messages) /\ r.bodies[i] = f.messages[i]
           /\ EndOf(f, i) <= p
  BY <1>2, HandedSoFar
<1>7. s.warnings = 0
  <2>1. s.warnings \in Nat /\ s.warnings <= r.warnings
    BY <1>5 DEF More, Reader
  <2>. QED
    BY <1>6, <2>1
<1>8. PICK n \in Nat : n = Len(s.bodies)
  BY BodiesCounted
<1>9. PICK m \in Nat : m = Len(r.bodies)
  BY BodiesCounted
<1>10. n <= m /\ \A i \in 1..n : r.bodies[i] = s.bodies[i]
  BY <1>5, <1>8, <1>9 DEF More, Grown
<1>11. ASSUME NEW i \in 1..n
       PROVE  /\ i \in 1..Len(f.messages) /\ s.bodies[i] = f.messages[i]
              /\ EndOf(f, i) <= p
  <2>1. i \in 1..m
    BY <1>10
  <2>. QED
    BY <1>6, <1>9, <1>10, <2>1
<1>. QED
  BY <1>2, <1>6, <1>7, <1>8, <1>11

\* A stream of messages, in one call at a time.
Talking == Channelled /\ feed.messages # <<>>

LEMMA FeedFacts ==
  ASSUME ParserInv
  PROVE  /\ feed \in Feed /\ Framed(feed) /\ feed.nested \in BOOLEAN
         /\ given \in 0..Len(feed.stream)
         /\ feed.messages \in Seq(Seq(Bytes))
<1>1. feed \in Feeds /\ given \in 0..Len(feed.stream)
  BY DEF ParserInv, FeedInv
<1>2. feed \in Feed /\ Framed(feed)
  BY <1>1, FeedsAssumption DEF FeedsAssumption
<1>. QED
  BY <1>1, <1>2 DEF Feed

\* There is such a reader while nothing has been overread.
LEMMA ReaderOfMessages ==
  ASSUME ParserInv, ReadInv, Talking, ~overread
  PROVE  /\ CallInv /\ RestOf(calls) \in Seq(Bytes)
         /\ ReadSoFar = ReadTo(feed, given)
         /\ \E s \in Reader : Reads(s)
<1>1. CallInv /\ \E s \in Reader : Reads(s)
  BY DEF ReadInv, Talking, Channelled, Lost
<1>2. RestOf(calls) \in Seq(Bytes)
  BY RestTyped DEF ParserInv, CallsInv
<1>. QED
  BY <1>1, <1>2 DEF ReadSoFar, ReadTo

QuietInv == Talking /\ ~overread => warnings = 0

LEMMA StaysQuiet ==
  ASSUME ParserInv, ReadInv
  PROVE  QuietInv
<1>. SUFFICES ASSUME Talking, ~overread
              PROVE  warnings = 0
  BY DEF QuietInv
<1>1. PICK s \in Reader : Reads(s)
  BY ReaderOfMessages
<1>2. ReadFrom(Finish(s), RestOf(calls)) = ReadTo(feed, given)
  BY <1>1, ReaderOfMessages DEF Reads
<1>3. s.warnings = 0
  BY <1>2, FeedFacts, ReaderOfMessages, QuietReader DEF Talking
<1>. QED
  BY <1>1, <1>3 DEF Reads, HeaderAgrees

\* A space before a header would be complained of: it is not there to be
\* overread.
LEMMA NoSpaceBefore ==
  ASSUME ParserInv, ReadInv, Talking, ~overread
  PROVE  ~PreHeaderOverread
<1>. SUFFICES ASSUME PreHeaderOverread PROVE FALSE
  OBVIOUS
<1>1. InLoop("PreHeader") /\ c = SPACE /\ state = "PreHeader"
  BY DEF PreHeaderOverread, InLoop
<1>2. PICK s \in Reader : Reads(s)
  BY ReaderOfMessages
<1>3. s.state = "PreHeader" /\ Finish(s) = s
  BY <1>1, <1>2 DEF Reads, HeaderAgrees, Finish
<1>4. ReadFrom(s, RestOf(calls)) = ReadTo(feed, given)
  BY <1>2, <1>3, ReaderOfMessages DEF Reads
<1>5. PICK bytes \in Seq(Bytes) : bytes = data
  BY <1>1, AtByte
<1>6. PICK p \in 0..(Len(bytes) - 1) : p = dataPos
  BY <1>1, <1>5, AtByte
<1>7. bytes[p + 1] = SPACE /\ RestOf(calls) = Drop(bytes, p)
  BY <1>1, <1>5, <1>6, AtByte
<1>8. PICK t : t = ReadByte(s, SPACE)
  OBVIOUS
<1>9. SPACE \in Bytes
  BY DEF Bytes, Others
<1>10. t \in Reader
  BY <1>8, <1>9, ByteTyped
<1>11. t.warnings = s.warnings + 1
  <2>1. t = Warn(Goto(s, "PreSpace"), 1)
    BY <1>3, <1>8 DEF ReadByte, PreHeaderByte, SPACE, LF, CR
  <2>. QED
    BY <2>1 DEF Warn, Goto, Reader
<1>12. ReadTo(feed, given) = ReadFrom(t, Drop(bytes, p + 1))
  BY <1>4, <1>7, <1>8, ReadByteThen
<1>13. Drop(bytes, p + 1) \in Seq(Bytes)
  <2>1. p + 1 \in 0..Len(bytes)
    OBVIOUS
  <2>. QED
    BY <2>1, Dropped
<1>14. More(t, ReadTo(feed, given))
  BY <1>10, <1>12, <1>13, ReadGrows
<1>15. ReadTo(feed, given).warnings = 0
  <2>1. ReadFrom(Finish(s), RestOf(calls)) = ReadTo(feed, given)
    BY <1>3, <1>4
  <2>. QED
    BY <2>1, FeedFacts, ReaderOfMessages, QuietReader DEF Talking
<1>16. s.warnings \in Nat /\ t.warnings \in Nat /\ t.warnings <= 0
  BY <1>10, <1>14, <1>15 DEF More, Reader
<1>. QED
  BY <1>11, <1>16

---------------------------------------------------------------------------
\* The bodies handed on.

HandsOn(body) ==
  /\ bodies' = Append(bodies, body)
  /\ body.size = NoLength => warnings' = warnings + 1

\* A step hands on one body or none.
LEMMA BodiesAdded ==
  ASSUME ParserInv, Step
  PROVE  /\ UNCHANGED <<feed, given, mode>>
         /\ \/ UNCHANGED bodies
            \/ \E body \in [size : Int, bytes : Seq(Bytes)] : HandsOn(body)
<1>1. CASE Body
  <2>1. contentSize # NoLength /\ UNCHANGED <<feed, given, mode>>
        /\ calls # <<>>
    BY <1>1 DEF Body, InLoop, chunkVars
  <2>2. /\ data \in Seq(Bytes) /\ Taken \in 0..Len(data)
        /\ packet \in Seq(Bytes) /\ contentSize \in Int
    BY <2>1, TopFacts, TakenFacts DEF ParserInv, HeaderInv, BodyInv
  <2>3. SubSeq(data, 1, Taken) \in Seq(Bytes)
    BY <2>2, Part
  <2>4. PICK taken \in Seq(Bytes) :
          taken = IF mode = "BUFFERED" THEN SubSeq(data, 1, Taken) ELSE <<>>
    BY <2>3, EmptySeq
  <2>5. PICK bytes \in Seq(Bytes) : bytes = packet \o taken
    BY <2>2, <2>4, ConcatProperties
  <2>6. UNCHANGED bodies \/ CallHasBody(bytes, packetSize + Taken)
    BY <1>1, <2>4, <2>5 DEF Body
  <2>7. ASSUME CallHasBody(bytes, packetSize + Taken)
        PROVE  \E body \in [size : Int, bytes : Seq(Bytes)] : HandsOn(body)
    <3>1. PICK body : body = [size |-> contentSize,
                              bytes |-> IF mode = "BUFFERED" THEN bytes
                                        ELSE <<>>]
      OBVIOUS
    <3>2. body \in [size : Int, bytes : Seq(Bytes)]
      BY <2>2, <3>1, EmptySeq
    <3>3. bodies' = Append(bodies, body) /\ body.size # NoLength
      BY <2>1, <2>7, <3>1 DEF CallHasBody
    <3>. QED
      BY <3>2, <3>3 DEF HandsOn
  <2>. QED
    BY <2>1, <2>6, <2>7
<1>2. CASE EndOfData
  <2>1. UNCHANGED <<feed, given, mode>>
    BY <1>2 DEF EndOfData, chunkVars
  <2>2. \/ UNCHANGED bodies
        \/ /\ Complain(IF contentSize = NoLength THEN 1 ELSE 0)
           /\ CallHasBody(packet, packetSize)
    BY <1>2 DEF EndOfData, bodyVars
  <2>3. ASSUME Complain(IF contentSize = NoLength THEN 1 ELSE 0),
               CallHasBody(packet, packetSize)
        PROVE  \E body \in [size : Int, bytes : Seq(Bytes)] : HandsOn(body)
    <3>1. PICK body : body = [size |-> contentSize,
                              bytes |-> IF mode = "BUFFERED" THEN packet
                                        ELSE <<>>]
      OBVIOUS
    <3>2. body \in [size : Int, bytes : Seq(Bytes)]
      BY <3>1, EmptySeq DEF ParserInv, HeaderInv, BodyInv
    <3>3. bodies' = Append(bodies, body) /\ body.size = contentSize
      BY <2>3, <3>1 DEF CallHasBody
    <3>4. contentSize = NoLength => warnings' = warnings + 1
      BY <2>3 DEF Complain
    <3>. QED
      BY <3>2, <3>3, <3>4 DEF HandsOn
  <2>. QED
    BY <2>1, <2>2, <2>3
<1>3. CASE \/ PreHeader \/ PreHeaderSpace \/ PreHeaderOverread
           \/ HeaderField \/ HeaderValueSpace \/ HeaderValue
           \/ AfterCr \/ AfterCrLf \/ AfterCrLfCr \/ BodyWithoutLength
  BY <1>3 DEF PreHeader, PreHeaderSpace, PreHeaderOverread, HeaderField,
     HeaderValueSpace, HeaderValue, AfterCr, AfterCrLf, AfterCrLfCr,
     BodyWithoutLength, chunkVars, bodyVars
<1>. QED
  BY <1>1, <1>2, <1>3 DEF Step

\* Bodies that all have a length.
Copied(all, got, n) ==
  /\ got \in Seq(Seq(Bytes)) /\ Len(got) = n
  /\ \A i \in 1..n : got[i] = all[i].bytes

LEMMA SizedAre ==
  ASSUME NEW all \in Seq([size : Int, bytes : Seq(Bytes)]),
         \A i \in 1..Len(all) : all[i].size # NoLength
  PROVE  Copied(all, SizedBodies(all), Len(all))
<1>1. PICK k \in Nat : k = Len(all)
  OBVIOUS
<1>2. PICK g : UptoSized(g, all, k) /\ SizedBodies(all) = g[k]
  BY <1>1, SizedIs
<1>. DEFINE Bad == {n \in 0..k : ~Copied(all, g[n], n)}
<1>3. Bad = {}
  <2>. SUFFICES ASSUME Bad # {} PROVE FALSE
    OBVIOUS
  <2>1. Bad \in SUBSET Nat
    OBVIOUS
  <2>2. PICK n \in Bad : \A m \in Bad : n <= m
    <3>. HIDE DEF Bad
    <3>. QED
      BY <2>1, Least
  <2>3. n \in 0..k /\ g[n] = IF n = 0 THEN <<>>
                             ELSE SizedNext(all, g[n - 1], n)
    BY <1>2, <2>2 DEF UptoSized
  <2>4. n # 0
    <3>1. Copied(all, <<>>, 0)
      BY EmptySeq DEF Copied
    <3>. QED
      BY <2>2, <2>3, <3>1
  <2>5. n \in 1..k /\ n - 1 \in 0..k /\ n - 1 \notin Bad
    BY <2>2, <2>4
  <2>6. PICK got \in Seq(Seq(Bytes)) : got = g[n - 1]
    BY <2>5 DEF Copied
  <2>7. Len(got) = n - 1 /\ \A i \in 1..(n - 1) : got[i] = all[i].bytes
    BY <2>5, <2>6 DEF Copied
  <2>8. all[n] \in [size : Int, bytes : Seq(Bytes)] /\ all[n].size # NoLength
    BY <1>1, <2>5, ElementOfSeq
  <2>9. PICK bytes \in Seq(Bytes) : bytes = all[n].bytes
    BY <2>8
  <2>10. g[n] = Append(got, bytes)
    BY <2>3, <2>4, <2>6, <2>8, <2>9 DEF SizedNext
  <2>11. /\ Append(got, bytes) \in Seq(Seq(Bytes))
         /\ Len(Append(got, bytes)) = Len(got) + 1
         /\ \A i \in 1..Len(got) : Append(got, bytes)[i] = got[i]
         /\ Append(got, bytes)[Len(got) + 1] = bytes
    BY AppendProperties
  <2>12. PICK more : more = Append(got, bytes)
    OBVIOUS
  <2>13. /\ more \in Seq(Seq(Bytes)) /\ Len(more) = n
         /\ \A i \in 1..(n - 1) : more[i] = all[i].bytes
         /\ more[n] = all[n].bytes
    BY <2>7, <2>9, <2>11, <2>12
  <2>14. ASSUME NEW i \in 1..n
         PROVE  more[i] = all[i].bytes
    <3>1. i \in 1..(n - 1) \/ i = n
      BY <2>5
    <3>. QED
      BY <2>13, <3>1
  <2>15. Copied(all, more, n)
    BY <2>13, <2>14 DEF Copied
  <2>. QED
    BY <2>2, <2>10, <2>12, <2>15
<1>4. Copied(all, g[k], k)
  BY <1>3
<1>. QED
  BY <1>1, <1>2, <1>4

\* Of a stream of messages no byte is overread, and no body is handed on
\* because a length is missing.
SizedInv ==
  Talking => /\ ~overread
             /\ \A i \in 1..Len(bodies) : bodies[i].size # NoLength

LEMMA StaysSized ==
  ASSUME ParserInv, ReadInv, SizedInv, QuietInv, QuietInv', [Next]_vars
  PROVE  SizedInv'
<1>1. CASE Step
  <2>. SUFFICES ASSUME Talking'
                PROVE  /\ ~overread'
                       /\ \A i \in 1..Len(bodies') : bodies'[i].size # NoLength
    BY DEF SizedInv
  <2>1. /\ UNCHANGED <<feed, given, mode>>
        /\ \/ UNCHANGED bodies
           \/ \E body \in [size : Int, bytes : Seq(Bytes)] : HandsOn(body)
    BY <1>1, BodiesAdded
  <2>2. Talking
    BY <2>1 DEF Talking, Channelled
  <2>3. ~overread /\ \A i \in 1..Len(bodies) : bodies[i].size # NoLength
    BY <2>2 DEF SizedInv
  <2>4. ~overread'
    <3>1. ~PreHeaderOverread
      BY <2>2, <2>3, NoSpaceBefore
    <3>2. UNCHANGED overread
      BY <1>1, <3>1 DEF Step, PreHeader, PreHeaderSpace, HeaderField,
         HeaderValueSpace, HeaderValue, AfterCr, AfterCrLf, AfterCrLfCr,
         BodyWithoutLength, Body, EndOfData, faultVars
    <3>. QED
      BY <2>3, <3>2
  <2>5. CASE UNCHANGED bodies
    BY <2>3, <2>4, <2>5
  <2>6. CASE \E body \in [size : Int, bytes : Seq(Bytes)] : HandsOn(body)
    <3>1. PICK body \in [size : Int, bytes : Seq(Bytes)] : HandsOn(body)
      BY <2>6
    <3>2. warnings = 0 /\ warnings' = 0
      BY <2>2, <2>3, <2>4 DEF QuietInv
    <3>3. body.size # NoLength /\ bodies' = Append(bodies, body)
      BY <3>1, <3>2 DEF HandsOn
    <3>4. PICK all \in Seq([size : Int, bytes : Seq(Bytes)]) : all = bodies
      BY DEF ParserInv, BodyInv
    <3>5. /\ Len(Append(all, body)) = Len(all) + 1
          /\ \A i \in 1..Len(all) : Append(all, body)[i] = all[i]
          /\ Append(all, body)[Len(all) + 1] = body
      BY AppendProperties
    <3>6. PICK n \in Nat : n = Len(all)
      OBVIOUS
    <3>7. /\ Len(bodies') = n + 1
          /\ \A i \in 1..n : bodies'[i].size # NoLength
          /\ bodies'[n + 1].size # NoLength
      BY <2>3, <3>3, <3>4, <3>5, <3>6
    <3>8. \A i \in 1..(n + 1) : i \in 1..n \/ i = n + 1
      OBVIOUS
    <3>. QED
      BY <2>4, <3>7, <3>8
  <2>. QED
    BY <2>1, <2>5, <2>6
<1>2. CASE \E n \in 1..Len(feed.stream) : ReceiveData(n)
  <2>1. UNCHANGED <<feed, mode, bodies, overread>>
    BY <1>2 DEF ReceiveData, bodyVars, faultVars
  <2>. QED
    BY <2>1 DEF SizedInv, Talking, Channelled
<1>3. CASE UNCHANGED vars
  <2>1. UNCHANGED <<feed, mode, bodies, overread>>
    BY <1>3 DEF vars, chunkVars, bodyVars, faultVars
  <2>. QED
    BY <2>1 DEF SizedInv, Talking, Channelled
<1>. QED
  BY <1>1, <1>2, <1>3 DEF Next

\* What has been handed on are the first messages, each of them read to its
\* end.
InTurn ==
  Talking =>
    \A i \in 1..Len(bodies) :
      /\ i \in 1..Len(feed.messages) /\ bodies[i].bytes = feed.messages[i]
      /\ EndOf(feed, i) <= given

LEMMA HandedInTurn ==
  ASSUME ParserInv, ReadInv, SizedInv
  PROVE  InTurn
<1>. SUFFICES ASSUME Talking, NEW i \in 1..Len(bodies)
              PROVE  /\ i \in 1..Len(feed.messages)
                     /\ bodies[i].bytes = feed.messages[i]
                     /\ EndOf(feed, i) <= given
  BY DEF InTurn
<1>1. PICK all \in Seq([size : Int, bytes : Seq(Bytes)]) : all = bodies
  BY DEF ParserInv, BodyInv
<1>2. ~overread /\ \A j \in 1..Len(all) : all[j].size # NoLength
  BY <1>1 DEF SizedInv
<1>3. Copied(all, SizedBodies(all), Len(all))
  BY <1>2, SizedAre
<1>4. PICK s \in Reader : Reads(s)
  BY <1>2, ReaderOfMessages
<1>5. ReadFrom(Finish(s), RestOf(calls)) = ReadTo(feed, given)
  BY <1>2, <1>4, ReaderOfMessages DEF Reads
<1>6. \A j \in 1..Len(s.bodies) :
        /\ j \in 1..Len(feed.messages) /\ s.bodies[j] = feed.messages[j]
        /\ EndOf(feed, j) <= given
  BY <1>2, <1>5, FeedFacts, ReaderOfMessages, QuietReader DEF Talking
<1>7. s.bodies = SizedBodies(all)
  BY <1>1, <1>4 DEF Reads, BodyAgrees, Talking, Channelled
<1>8. Len(s.bodies) = Len(all) /\ s.bodies[i] = all[i].bytes
  BY <1>1, <1>3, <1>7 DEF Copied
<1>. QED
  BY <1>1, <1>6, <1>8

\* Of a stream of messages no byte is overread and none is complained of; the
\* bodies handed on are the first messages, each read to its end.
THEOREM MessagesInTurn == Spec => [](SizedInv /\ QuietInv /\ InTurn)
<1>1. Init => SizedInv
  BY DEF Init, SizedInv
<1>2. ParserInv /\ ReadInv => QuietInv
  BY StaysQuiet
<1>3. /\ ParserInv /\ ReadInv /\ SizedInv /\ QuietInv /\ QuietInv'
      /\ [Next]_vars
      => SizedInv'
  BY StaysSized
<1>4. ParserInv /\ ReadInv /\ SizedInv => InTurn
  BY HandedInTurn
<1>. QED
  BY <1>1, <1>2, <1>3, <1>4, ParserInvariance, ReadInvariance, PTL DEF Spec

\* The bytes of bodies.
BytesOf(all) == [i \in DOMAIN all |-> all[i].bytes]

LEMMA BytesOfTyped ==
  ASSUME NEW all \in Seq([size : Int, bytes : Seq(Bytes)])
  PROVE  Copied(all, BytesOf(all), Len(all))
<1>1. PICK n \in Nat : n = Len(all) /\ DOMAIN all = 1..n
  OBVIOUS
<1>2. \A i \in 1..n : all[i].bytes \in Seq(Bytes)
  <2>1. \A i \in 1..n : all[i] \in [size : Int, bytes : Seq(Bytes)]
    BY <1>1, ElementOfSeq
  <2>. QED
    BY <2>1
<1>3. PICK got : got = [i \in 1..n |-> all[i].bytes]
  OBVIOUS
<1>4. got \in Seq(Seq(Bytes)) /\ Len(got) = n
      /\ \A i \in 1..n : got[i] = all[i].bytes
  BY <1>2, <1>3
<1>. QED
  BY <1>1, <1>3, <1>4 DEF BytesOf, Copied

LEMMA BytesOfMore ==
  ASSUME NEW all \in Seq([size : Int, bytes : Seq(Bytes)]),
         NEW body \in [size : Int, bytes : Seq(Bytes)]
  PROVE  BytesOf(Append(all, body)) = Append(BytesOf(all), body.bytes)
<1>1. PICK n \in Nat : n = Len(all)
  OBVIOUS
<1>2. PICK more \in Seq([size : Int, bytes : Seq(Bytes)]) :
        more = Append(all, body)
  BY AppendProperties
<1>3. /\ Len(more) = n + 1 /\ more[n + 1] = body
      /\ \A i \in 1..n : more[i] = all[i]
  BY <1>1, <1>2, AppendProperties
<1>4. PICK got \in Seq(Seq(Bytes)) : got = BytesOf(all)
  BY BytesOfTyped DEF Copied
<1>5. Len(got) = n /\ \A i \in 1..n : got[i] = all[i].bytes
  BY <1>1, <1>4, BytesOfTyped DEF Copied
<1>6. PICK new \in Seq(Seq(Bytes)) : new = BytesOf(more)
  BY BytesOfTyped DEF Copied
<1>7. Len(new) = n + 1 /\ \A i \in 1..(n + 1) : new[i] = more[i].bytes
  BY <1>3, <1>6, BytesOfTyped DEF Copied
<1>8. PICK bytes \in Seq(Bytes) : bytes = body.bytes
  OBVIOUS
<1>9. PICK longer \in Seq(Seq(Bytes)) : longer = Append(got, bytes)
  BY AppendProperties
<1>10. /\ Len(longer) = n + 1 /\ longer[n + 1] = bytes
       /\ \A i \in 1..n : longer[i] = got[i]
  BY <1>5, <1>9, AppendProperties
<1>11. ASSUME NEW i \in 1..(n + 1)
       PROVE  new[i] = longer[i]
  <2>1. i \in 1..n \/ i = n + 1
    OBVIOUS
  <2>2. CASE i \in 1..n
    BY <1>3, <1>5, <1>7, <1>10, <2>2, ZenonT(60)
  <2>3. CASE i = n + 1
    BY <1>3, <1>7, <1>8, <1>10, <2>3
  <2>. QED
    BY <2>1, <2>2, <2>3
<1>12. new = longer
  BY <1>7, <1>10, <1>11, SeqEqual
<1>. QED
  BY <1>2, <1>4, <1>6, <1>8, <1>9, <1>12

\* What one transport sends the other one gets: once the stream has been read
\* each message has been handed on, once and in order, without a complaint
\* and with nothing left over.
THEOREM MessagesAreDelivered == Spec => []DeliversMessages
<1>1. ParserInv /\ ReadInv /\ SizedInv => DeliversMessages
  <2>. SUFFICES ASSUME ParserInv, ReadInv, SizedInv, AllRead, Channelled
                PROVE  warnings = 0 /\ ReceiveEof /\ Got = feed.messages
    BY DEF DeliversMessages
  <2>1. /\ Talking /\ calls = <<>> /\ given = Len(feed.stream)
        /\ feed.messages # <<>>
    BY DEF AllRead, Idle, Talking
  <2>2. ~overread /\ \A i \in 1..Len(bodies) : bodies[i].size # NoLength
    BY <2>1 DEF SizedInv
  <2>3. PICK s \in Reader : Reads(s)
    BY <2>1, <2>2, ReaderOfMessages
  <2>4. s = ReadTo(feed, Len(feed.stream))
    <3>1. s = ReadSoFar
      BY <2>1, <2>2, <2>3, ReaderOfMessages, BetweenCalls
    <3>. QED
      BY <2>1, <2>2, <3>1, ReaderOfMessages
  <2>5. feed \in Feed /\ Framed(feed) /\ feed.messages \in Seq(Seq(Bytes))
    BY FeedFacts
  <2>6. PICK messages \in Seq(Seq(Bytes)) : messages = feed.messages
    BY <2>5
  <2>7. PICK k \in Nat : k = Len(messages)
    OBVIOUS
  <2>8. Handed(s, feed, k)
    <3>1. EndOf(feed, k) = Len(feed.stream) /\ k \in 0..Len(feed.messages)
      BY <2>1, <2>5, <2>6, <2>7 DEF Framed
    <3>. QED
      BY <2>4, <2>5, <3>1, AllHanded
  <2>9. /\ s.state = "PreHeader" /\ s.warnings = 0 /\ Len(s.bodies) = k
        /\ \A i \in 1..k : s.bodies[i] = messages[i]
    BY <2>6, <2>8 DEF Handed, Between, At
  <2>10. warnings = 0 /\ ReceiveEof
    BY <2>3, <2>9 DEF Reads, HeaderAgrees, ReceiveEof
  <2>11. PICK all \in Seq([size : Int, bytes : Seq(Bytes)]) : all = bodies
    BY DEF ParserInv, BodyInv
  <2>12. Copied(all, s.bodies, Len(all))
    <3>1. s.bodies = SizedBodies(all)
      BY <2>3, <2>11 DEF Reads, BodyAgrees, Channelled
    <3>2. Copied(all, SizedBodies(all), Len(all))
      BY <2>2, <2>11, SizedAre
    <3>. QED
      BY <3>1, <3>2
  <2>13. PICK got \in Seq(Seq(Bytes)) : got = BytesOf(all)
    BY BytesOfTyped DEF Copied
  <2>14. Len(got) = Len(all) /\ \A i \in 1..Len(all) : got[i] = all[i].bytes
    BY <2>13, BytesOfTyped DEF Copied
  <2>15. Len(got) = k /\ \A i \in 1..k : got[i] = messages[i]
    BY <2>9, <2>12, <2>14 DEF Copied
  <2>16. got = messages
    BY <2>7, <2>15, SeqEqual
  <2>. QED
    BY <2>6, <2>10, <2>11, <2>13, <2>16 DEF Got, BytesOf
<1>. QED
  BY <1>1, ParserInvariance, ReadInvariance, MessagesInTurn, PTL

---------------------------------------------------------------------------
\* The channel.

\* The messages that have been written completely are the first ones.
WrittenTo(f, p) ==
  Cardinality({n \in DOMAIN f.messages : EndOf(f, n) <= p})

LEMMA WrittenIs ==
  ASSUME NEW f \in Feed, Framed(f), NEW p \in Nat
  PROVE  /\ WrittenTo(f, p) \in 0..Len(f.messages)
         /\ \A n \in 1..Len(f.messages) :
              EndOf(f, n) <= p <=> n <= WrittenTo(f, p)
<1>1. PICK k \in Nat : k = Len(f.messages) /\ DOMAIN f.messages = 1..k
  BY DEF Feed
<1>. DEFINE Late == {n \in 1..(k + 1) : n = k + 1 \/ ~(EndOf(f, n) <= p)}
<1>2. Late \in SUBSET Nat /\ k + 1 \in Late
  OBVIOUS
<1>3. PICK b \in Late : \A n \in Late : b <= n
  <2>1. Late # {}
    BY <1>2
  <2>. HIDE DEF Late
  <2>. QED
    BY <1>2, <2>1, Least
<1>4. PICK w \in 0..k : w = b - 1
  OBVIOUS
<1>5. ASSUME NEW n \in 1..k
      PROVE  EndOf(f, n) <= p <=> n <= w
  <2>1. CASE n <= w
    <3>1. n \in 1..(k + 1) /\ ~(b <= n)
      BY <1>4, <2>1
    <3>2. n \notin Late
      <4>. HIDE DEF Late
      <4>. QED
        BY <1>3, <3>1
    <3>. QED
      BY <2>1, <3>1, <3>2
  <2>2. CASE n = b
    BY <1>4, <2>2
  <2>3. CASE b < n
    <3>1. b \in 1..k /\ ~(EndOf(f, b) <= p)
      BY <2>3
    <3>2. b \in 0..Len(f.messages) /\ n \in (b + 1)..Len(f.messages)
          /\ n \in 0..Len(f.messages)
      BY <1>1, <2>3, <3>1
    <3>3. PICK x \in Nat : x = EndOf(f, b)
      BY <3>2, EndsTyped
    <3>4. PICK y \in Nat : y = EndOf(f, n)
      BY <3>2, EndsTyped
    <3>5. x < y
      BY <3>2, <3>3, <3>4, EndsGrow
    <3>6. ~(y <= p)
      BY <3>1, <3>3, <3>5
    <3>. QED
      BY <1>4, <2>3, <3>4, <3>6
  <2>. QED
    BY <1>4, <2>1, <2>2, <2>3
<1>6. {n \in DOMAIN f.messages : EndOf(f, n) <= p} = 1..w
  <2>. HIDE DEF Late
  <2>1. {n \in 1..k : EndOf(f, n) <= p} = {n \in 1..k : n <= w}
    BY <1>5
  <2>2. {n \in 1..k : n <= w} = 1..w
    OBVIOUS
  <2>. QED
    BY <1>1, <2>1, <2>2
<1>7. Cardinality(1..w) = w
  BY FS_Interval
<1>. QED
  BY <1>1, <1>5, <1>6, <1>7 DEF WrittenTo

LEMMA WrittenGrows ==
  ASSUME NEW f \in Feed, Framed(f), NEW p \in Nat, NEW q \in Nat, p <= q
  PROVE  WrittenTo(f, p) <= WrittenTo(f, q)
<1>1. PICK v \in 0..Len(f.messages) : v = WrittenTo(f, p)
  BY WrittenIs
<1>2. PICK w \in 0..Len(f.messages) : w = WrittenTo(f, q)
  BY WrittenIs
<1>3. CASE v = 0
  BY <1>1, <1>2, <1>3
<1>4. CASE v # 0
  <2>1. v \in 1..Len(f.messages)
    BY <1>4
  <2>2. EndOf(f, v) <= p
    BY <1>1, <2>1, WrittenIs
  <2>3. EndOf(f, v) <= q
    <3>1. PICK e \in Nat : e = EndOf(f, v)
      BY EndsTyped
    <3>. QED
      BY <2>2, <3>1
  <2>. QED
    BY <1>1, <1>2, <2>1, <2>3, WrittenIs
<1>. QED
  BY <1>3, <1>4

\* Where no transport sends to a buffered parser the channel is silent.
LEMMA SilentChannel ==
  ~Talking => Channel!vars = <<<<>>, 0, <<>>>>
<1>. SUFFICES ASSUME ~Talking PROVE Channel!vars = <<<<>>, 0, <<>>>>
  OBVIOUS
<1>1. ~Channelled \/ feed.messages = <<>>
  BY DEF Talking
<1>2. Cardinality({}) = 0
  BY FS_EmptySet
<1>3. ASSUME feed.messages = <<>>
      PROVE  {n \in DOMAIN feed.messages : EndOf(feed, n) <= given} = {}
  BY <1>3
<1>. QED
  BY <1>1, <1>2, <1>3 DEF Channel!vars

LEMMA TalkingChannel ==
  Talking => Channel!vars = <<feed.messages, WrittenTo(feed, given), Got>>
  BY DEF Talking, Channel!vars, WrittenTo

LEMMA NothingWritten ==
  ASSUME NEW f \in Feed, Framed(f)
  PROVE  WrittenTo(f, 0) = 0
<1>1. PICK w \in 0..Len(f.messages) : w = WrittenTo(f, 0)
  BY WrittenIs
<1>2. ASSUME w # 0 PROVE FALSE
  <2>1. /\ w \in 1..Len(f.messages) /\ w \in (0 + 1)..Len(f.messages)
        /\ 0 \in 0..Len(f.messages) /\ w \in 0..Len(f.messages)
    BY <1>2
  <2>2. EndOf(f, w) <= 0
    BY <1>1, <2>1, WrittenIs
  <2>3. EndOf(f, 0) < EndOf(f, w)
    BY <2>1, EndsGrow
  <2>4. EndOf(f, 0) = 0 /\ EndOf(f, w) \in Nat
    BY <2>1, EndsTyped DEF EndOf
  <2>. QED
    BY <2>2, <2>3, <2>4
<1>. QED
  BY <1>1, <1>2

LEMMA InitChannel == Init => Channel!Init
<1>. SUFFICES ASSUME Init PROVE Channel!Init
  OBVIOUS
<1>1. given = 0 /\ bodies = <<>>
  BY DEF Init
<1>2. ParserInv
  BY InitKeeps
<1>3. CASE Talking
  <2>1. WrittenTo(feed, given) = 0
    BY <1>1, <1>2, FeedFacts, NothingWritten
  <2>2. Got = <<>>
    BY <1>1 DEF Got
  <2>. QED
    BY <1>3, <2>1, <2>2 DEF Channel!Init, Talking, WrittenTo
<1>4. CASE ~Talking
  <2>1. Channel!vars = <<<<>>, 0, <<>>>>
    BY <1>4, SilentChannel
  <2>. QED
    BY <2>1 DEF Channel!Init, Channel!vars
<1>. QED
  BY <1>3, <1>4

\* A chunk completes messages or none.
LEMMA ChunkWrites ==
  ASSUME ParserInv, ParserInv', Talking, NEW n \in 1..Len(feed.stream),
         ReceiveData(n)
  PROVE  [Channel!Next]_(Channel!vars)
<1>1. /\ UNCHANGED <<feed, mode, bodies>> /\ given' = given + n
      /\ Talking'
  BY DEF ReceiveData, bodyVars, Talking, Channelled
<1>2. feed \in Feed /\ Framed(feed) /\ given \in Nat /\ given + n \in Nat
  BY FeedFacts
<1>3. PICK v \in 0..Len(feed.messages) : v = WrittenTo(feed, given)
  BY <1>2, WrittenIs
<1>4. PICK w \in 0..Len(feed.messages) : w = WrittenTo(feed, given + n)
  BY <1>2, WrittenIs
<1>5. v <= w
  <2>1. given <= given + n
    BY <1>2
  <2>. QED
    BY <1>2, <1>3, <1>4, <2>1, WrittenGrows
<1>6. /\ Channelled /\ Channelled' /\ feed.messages # <<>>
      /\ Got' = Got
  BY <1>1 DEF Talking, Got
<1>7. v = Cardinality({i \in DOMAIN feed.messages : EndOf(feed, i) <= given})
  BY <1>3 DEF WrittenTo
<1>8. w = Cardinality({i \in DOMAIN feed.messages :
                         EndOf(feed, i) <= given'})
  BY <1>1, <1>4 DEF WrittenTo
<1>9. CASE v = w
  <2>1. UNCHANGED Channel!vars
    BY <1>1, <1>6, <1>7, <1>8, <1>9 DEF Channel!vars
  <2>. QED
    BY <2>1
<1>10. CASE v # w
  <2>1. w \in (v + 1)..Len(feed.messages)
    BY <1>5, <1>10
  <2>2. Channel!Write
    BY <1>1, <1>6, <1>7, <1>8, <2>1 DEF Channel!Write
  <2>. QED
    BY <2>2 DEF Channel!Next
<1>. QED
  BY <1>9, <1>10

\* A step of the parser delivers the next message or none.
LEMMA StepDelivers ==
  ASSUME ParserInv, ParserInv', InTurn', Talking, Step
  PROVE  [Channel!Next]_(Channel!vars)
<1>1. /\ UNCHANGED <<feed, given, mode>>
      /\ \/ UNCHANGED bodies
         \/ \E body \in [size : Int, bytes : Seq(Bytes)] : HandsOn(body)
  BY BodiesAdded
<1>2. /\ Talking' /\ Channelled /\ Channelled' /\ feed.messages # <<>>
  BY <1>1 DEF Talking, Channelled
<1>3. CASE UNCHANGED bodies
  <2>1. UNCHANGED Got
    BY <1>3 DEF Got
  <2>2. UNCHANGED Channel!vars
    BY <1>1, <1>2, <2>1 DEF Channel!vars
  <2>. QED
    BY <2>2
<1>4. CASE \E body \in [size : Int, bytes : Seq(Bytes)] : HandsOn(body)
  <2>1. PICK body \in [size : Int, bytes : Seq(Bytes)] : HandsOn(body)
    BY <1>4
  <2>2. PICK all \in Seq([size : Int, bytes : Seq(Bytes)]) : all = bodies
    BY DEF ParserInv, BodyInv
  <2>3. PICK more \in Seq([size : Int, bytes : Seq(Bytes)]) :
          more = Append(all, body)
    BY AppendProperties
  <2>4. bodies' = more
    BY <2>1, <2>2, <2>3 DEF HandsOn
  <2>5. PICK k \in Nat : k = Len(all)
    OBVIOUS
  <2>6. Len(more) = k + 1 /\ more[k + 1] = body
    BY <2>3, <2>5, AppendProperties
  <2>7. /\ k + 1 \in 1..Len(feed.messages)
        /\ body.bytes = feed.messages[k + 1]
        /\ EndOf(feed, k + 1) <= given
    <3>1. k + 1 \in 1..Len(bodies')
      BY <2>4, <2>6
    <3>2. \A i \in 1..Len(bodies') :
            /\ i \in 1..Len(feed.messages)
            /\ bodies'[i].bytes = feed.messages[i]
            /\ EndOf(feed, i) <= given
      BY <1>1, <1>2 DEF InTurn
    <3>. QED
      BY <2>4, <2>6, <3>1, <3>2
  <2>. feed \in Feed /\ Framed(feed) /\ given \in Nat
    BY FeedFacts
  <2>8. PICK w \in 0..Len(feed.messages) : w = WrittenTo(feed, given)
    BY WrittenIs
  <2>9. k < w
    <3>1. k + 1 <= w
      BY <2>7, <2>8, WrittenIs
    <3>. QED
      BY <3>1
  <2>10. w = Cardinality({i \in DOMAIN feed.messages :
                            EndOf(feed, i) <= given})
    BY <2>8 DEF WrittenTo
  <2>11. Got = BytesOf(all) /\ Got' = BytesOf(more)
    BY <2>2, <2>4 DEF Got, BytesOf
  <2>12. Len(Got) = k
    BY <2>5, <2>11, BytesOfTyped DEF Copied
  <2>13. Got' = Append(Got, feed.messages[k + 1])
    BY <2>3, <2>7, <2>11, BytesOfMore
  <2>14. Channel!Deliver
    BY <1>1, <1>2, <2>9, <2>10, <2>12, <2>13 DEF Channel!Deliver
  <2>. QED
    BY <2>14 DEF Channel!Next
<1>. QED
  BY <1>1, <1>3, <1>4

LEMMA NextChannel ==
  ASSUME ParserInv, ParserInv', InTurn', [Next]_vars
  PROVE  [Channel!Next]_(Channel!vars)
<1>1. CASE ~Talking
  <2>1. UNCHANGED <<feed, mode>>
    BY BodiesAdded DEF Next, ReceiveData, vars, chunkVars
  <2>2. ~Talking'
    BY <1>1, <2>1 DEF Talking, Channelled
  <2>3. Channel!vars = <<<<>>, 0, <<>>>>
    BY <1>1, SilentChannel
  <2>4. Channel!vars' = <<<<>>, 0, <<>>>>
    <3>1. ~Channelled' \/ feed'.messages = <<>>
      BY <2>2 DEF Talking
    <3>2. Cardinality({}) = 0
      BY FS_EmptySet
    <3>3. ASSUME feed'.messages = <<>>
          PROVE  {n \in DOMAIN feed'.messages : EndOf(feed', n) <= given'} = {}
      BY <3>3
    <3>. QED
      BY <3>1, <3>2, <3>3 DEF Channel!vars
  <2>. QED
    BY <2>3, <2>4
<1>2. CASE Talking /\ Step
  BY <1>2, StepDelivers
<1>3. CASE Talking /\ \E n \in 1..Len(feed.stream) : ReceiveData(n)
  BY <1>3, ChunkWrites
<1>4. CASE UNCHANGED vars
  <2>1. UNCHANGED <<feed, mode, given, bodies>>
    BY <1>4 DEF vars, chunkVars, bodyVars
  <2>2. UNCHANGED <<Channelled, Got>>
    BY <2>1 DEF Channelled, Got
  <2>. QED
    BY <2>1, <2>2 DEF Channel!vars
<1>. QED
  BY <1>1, <1>2, <1>3, <1>4 DEF Next

\* However the bytes are cut, a message is handed on as it was written, in its
\* turn and once, and never before its last byte has come.
THEOREM ChannelImplemented == Spec => ImplementsChannel
<1>1. Init => Channel!Init
  BY InitChannel
<1>2. ParserInv /\ ParserInv' /\ InTurn' /\ [Next]_vars
        => [Channel!Next]_(Channel!vars)
  BY NextChannel
<1>. QED
  BY <1>1, <1>2, ParserInvariance, MessagesInTurn, PTL
  DEF Spec, ImplementsChannel, Channel!Spec
=============================================================================
