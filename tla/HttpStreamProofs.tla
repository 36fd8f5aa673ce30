-------------------------- MODULE HttpStreamProofs --------------------------
(***************************************************************************)
(* What the byte reader of HttpStream makes of a stream, for every stream: *)
(* reading may stop and go on anywhere, and what a run of bytes of one     *)
(* kind does is known without reading them one by one.  It takes back      *)
(* neither a complaint nor a body (ReadGrows); and of a message framed as  *)
(* sendMessage does it makes one body, with the last byte and not before   *)
(* (MessageRead).                                                          *)
(***************************************************************************)
EXTENDS HttpStream, FiniteSets, SequenceTheorems, FiniteSetTheorems,
        WellFoundedInduction, TLAPS

\* The first position with some property exists.
LEMMA Least ==
  ASSUME NEW S \in SUBSET Nat, S # {}
  PROVE  \E k \in S : \A i \in S : k <= i
<1>1. PICK k \in S : \A i \in S : <<i, k>> \notin OpToRel(<, Nat)
  BY NatLessThanWellFounded, WFMin
<1>2. \A i \in S : ~(i < k)
  BY <1>1 DEF OpToRel
<1>. QED
  BY <1>2

---------------------------------------------------------------------------
\* Reading byte by byte.

\* The states of the reader after 0, 1, ... bytes, from s on.
IsReading(g, s, bytes) ==
  g = [n \in 0..Len(bytes) |->
         IF n = 0 THEN s ELSE ReadByte(g[n - 1], bytes[n])]

\* There is one: otherwise the first length for which there is none is not 0,
\* and the reading that is shorter by one can be continued.
LEMMA ReadingExists ==
  ASSUME NEW s, NEW bytes \in Seq(Bytes)
  PROVE  \E g : IsReading(g, s, bytes)
<1>. DEFINE Upto(g, n) == g = [i \in 0..n |-> IF i = 0 THEN s ELSE
                                              ReadByte(g[i - 1], bytes[i])]
            Bad == {n \in 0..Len(bytes) : ~\E g : Upto(g, n)}
<1>1. Bad = {}
  <2>. SUFFICES ASSUME Bad # {} PROVE FALSE
    OBVIOUS
  <2>1. Bad \in SUBSET Nat
    OBVIOUS
  <2>2. PICK n \in Bad : \A i \in Bad : n <= i
    <3>. HIDE DEF Bad
    <3>. QED
      BY <2>1, Least
  <2>3. n # 0
    <3>1. Upto([i \in 0..0 |-> s], 0)
      OBVIOUS
    <3>. QED
      BY <3>1
  <2>4. n \in Nat \ {0} /\ n - 1 \in 0..Len(bytes) /\ n - 1 \notin Bad
    BY <2>2, <2>3, SMTT(30)
  <2>5. PICK g : Upto(g, n - 1)
    BY <2>4
  <2>. DEFINE h == [i \in 0..n |-> IF i < n THEN g[i]
                                   ELSE ReadByte(g[n - 1], bytes[n])]
  <2>6. \A i \in 0..(n - 1) :
          /\ h[i] = g[i]
          /\ g[i] = IF i = 0 THEN s ELSE ReadByte(g[i - 1], bytes[i])
    BY <2>4, <2>5
  <2>7. h[n] = ReadByte(g[n - 1], bytes[n]) /\ DOMAIN h = 0..n
    BY <2>4
  <2>8. \A i \in 0..n :
          h[i] = IF i = 0 THEN s ELSE ReadByte(h[i - 1], bytes[i])
    <3>. SUFFICES ASSUME NEW i \in 0..n
                  PROVE  h[i] = IF i = 0 THEN s
                                ELSE ReadByte(h[i - 1], bytes[i])
      OBVIOUS
    <3>. HIDE DEF h
    <3>1. CASE i = n
      <4>1. n - 1 \in 0..(n - 1)
        BY <2>4
      <4>2. h[n - 1] = g[n - 1]
        BY <2>6, <4>1
      <4>. QED
        BY <2>4, <2>7, <3>1, <4>2
    <3>2. CASE i # n
      <4>1. i \in 0..(n - 1) /\ (i # 0 => i - 1 \in 0..(n - 1))
        BY <2>4, <3>2
      <4>. QED
        BY <2>6, <4>1
    <3>. QED
      BY <3>1, <3>2
  <2>9. Upto(h, n)
    <3>1. h = [i \in 0..n |-> h[i]]
      OBVIOUS
    <3>. HIDE DEF h
    <3>. QED
      BY <2>8, <3>1
  <2>. QED
    BY <2>2, <2>9
<1>2. PICK g : Upto(g, Len(bytes))
  BY <1>1
<1>. QED
  BY <1>2 DEF IsReading

\* The n bytes are read step by step, after m others.
Steps(g, m, bytes, n) ==
  \A i \in 1..n : g[m + i] = ReadByte(g[m + (i - 1)], bytes[i])

LEMMA ReadingIs ==
  ASSUME NEW s, NEW bytes \in Seq(Bytes)
  PROVE  \E g : /\ ReadFrom(s, bytes) = g[Len(bytes)] /\ g[0] = s
                /\ Steps(g, 0, bytes, Len(bytes))
<1>. DEFINE g == CHOOSE f : IsReading(f, s, bytes)
<1>1. IsReading(g, s, bytes)
  BY ReadingExists
<1>2. ReadFrom(s, bytes) = g[Len(bytes)]
  BY DEF ReadFrom, IsReading
<1>3. /\ g[0] = s
      /\ Steps(g, 0, bytes, Len(bytes))
  <2>. HIDE DEF g
  <2>1. \A n \in 0..Len(bytes) :
          g[n] = IF n = 0 THEN s ELSE ReadByte(g[n - 1], bytes[n])
    BY <1>1 DEF IsReading
  <2>2. \A n \in 1..Len(bytes) : /\ n \in 0..Len(bytes) /\ n # 0
                                 /\ 0 + n = n /\ 0 + (n - 1) = n - 1
    OBVIOUS
  <2>. QED
    BY <2>1, <2>2 DEF Steps
<1>. QED
  BY <1>2, <1>3

\* Two readings of the same bytes, the first one after m others.
LEMMA SameReading ==
  ASSUME NEW g, NEW h, NEW m \in Nat, NEW n \in Nat, NEW bytes,
         g[m] = h[0], Steps(g, m, bytes, n), Steps(h, 0, bytes, n)
  PROVE  g[m + n] = h[n]
<1>. DEFINE Bad == {i \in 0..n : g[m + i] # h[i]}
<1>1. Bad = {}
  <2>. SUFFICES ASSUME Bad # {} PROVE FALSE
    OBVIOUS
  <2>1. Bad \in SUBSET Nat
    OBVIOUS
  <2>2. PICK i \in Bad : \A j \in Bad : i <= j
    <3>. HIDE DEF Bad
    <3>. QED
      BY <2>1, Least
  <2>3. i \in 1..n
    <3>1. m + 0 = m
      OBVIOUS
    <3>. QED
      BY <2>2, <3>1
  <2>4. i - 1 \in 0..n /\ i - 1 \notin Bad
    BY <2>2, <2>3
  <2>5. /\ g[m + (i - 1)] = h[i - 1]
        /\ 0 + (i - 1) = i - 1 /\ 0 + i = i
    BY <2>3, <2>4
  <2>6. g[m + i] = h[i]
    BY <2>3, <2>5 DEF Steps
  <2>. QED
    BY <2>2, <2>6
<1>2. n \in 0..n /\ n \notin Bad
  BY <1>1
<1>. QED
  BY <1>2

\* A reading is what it is step by step.
LEMMA ReadSteps ==
  ASSUME NEW h, NEW bytes \in Seq(Bytes), Steps(h, 0, bytes, Len(bytes))
  PROVE  ReadFrom(h[0], bytes) = h[Len(bytes)]
<1>1. PICK g : /\ ReadFrom(h[0], bytes) = g[Len(bytes)] /\ g[0] = h[0]
               /\ Steps(g, 0, bytes, Len(bytes))
  BY ReadingIs
<1>2. PICK n \in Nat : n = Len(bytes)
  OBVIOUS
<1>3. g[0] = h[0] /\ Steps(g, 0, bytes, n) /\ Steps(h, 0, bytes, n)
  BY <1>1, <1>2
<1>4. 0 \in Nat
  OBVIOUS
<1>5. g[0 + n] = h[n]
  BY ONLY <1>3, <1>4, SameReading
<1>. QED
  BY <1>1, <1>2, <1>5

LEMMA ReadNothing ==
  ASSUME NEW s
  PROVE  ReadFrom(s, <<>>) = s
<1>1. <<>> \in Seq(Bytes) /\ Len(<<>>) = 0
  OBVIOUS
<1>2. PICK g : ReadFrom(s, <<>>) = g[Len(<<>>)] /\ g[0] = s
  BY <1>1, ReadingIs
<1>. QED
  BY <1>1, <1>2

LEMMA ReadOne ==
  ASSUME NEW s, NEW c1 \in Bytes
  PROVE  ReadFrom(s, <<c1>>) = ReadByte(s, c1)
<1>1. <<c1>> \in Seq(Bytes) /\ Len(<<c1>>) = 1 /\ <<c1>>[1] = c1
  OBVIOUS
<1>2. PICK g : /\ ReadFrom(s, <<c1>>) = g[Len(<<c1>>)] /\ g[0] = s
               /\ Steps(g, 0, <<c1>>, Len(<<c1>>))
  BY <1>1, ReadingIs
<1>3. 1 \in 1..Len(<<c1>>) /\ 0 + (1 - 1) = 0 /\ 0 + 1 = 1
  BY <1>1
<1>. QED
  BY <1>1, <1>2, <1>3 DEF Steps

\* Reading goes on where it has stopped.
LEMMA ReadOn ==
  ASSUME NEW s, NEW bytes \in Seq(Bytes), NEW more \in Seq(Bytes)
  PROVE  ReadFrom(s, bytes \o more) = ReadFrom(ReadFrom(s, bytes), more)
<1>1. PICK whole : whole = bytes \o more
  OBVIOUS
<1>2. PICK m \in Nat, n \in Nat : m = Len(bytes) /\ n = Len(more)
  OBVIOUS
<1>3. /\ whole \in Seq(Bytes) /\ Len(whole) = m + n
      /\ \A i \in 1..(m + n) :
           whole[i] = IF i <= m THEN bytes[i] ELSE more[i - m]
  BY <1>1, <1>2, ConcatProperties
<1>4. PICK g : /\ ReadFrom(s, whole) = g[Len(whole)] /\ g[0] = s
               /\ Steps(g, 0, whole, Len(whole))
  BY <1>3, ReadingIs
<1>5. Steps(g, 0, bytes, Len(bytes))
  <2>1. \A i \in 1..m : whole[i] = bytes[i] /\ i \in 1..(m + n)
    BY <1>3
  <2>. QED
    BY <1>2, <1>3, <1>4, <2>1 DEF Steps
<1>6. Steps(g, m, more, n)
  <2>. SUFFICES ASSUME NEW i \in 1..n
                PROVE  g[m + i] = ReadByte(g[m + (i - 1)], more[i])
    BY DEF Steps
  <2>1. /\ m + i \in 1..(m + n) /\ ~(m + i <= m) /\ (m + i) - m = i
        /\ 0 + (m + i) = m + i /\ 0 + ((m + i) - 1) = m + (i - 1)
    OBVIOUS
  <2>2. whole[m + i] = more[i]
    BY <1>3, <2>1
  <2>. QED
    BY <1>3, <1>4, <2>1, <2>2 DEF Steps
<1>7. ReadFrom(s, bytes) = g[m]
  BY <1>2, <1>4, <1>5, ReadSteps
<1>8. PICK h : /\ ReadFrom(g[m], more) = h[Len(more)] /\ h[0] = g[m]
               /\ Steps(h, 0, more, Len(more))
  BY ReadingIs
<1>9. g[m] = h[0] /\ Steps(g, m, more, n) /\ Steps(h, 0, more, n)
  BY <1>2, <1>6, <1>8
<1>10. m \in Nat /\ n \in Nat
  OBVIOUS
<1>11. g[m + n] = h[n]
  BY ONLY <1>9, <1>10, SameReading, ZenonT(60)
<1>. QED
  BY <1>1, <1>2, <1>3, <1>4, <1>7, <1>8, <1>11

---------------------------------------------------------------------------
\* The type of the reader.

ReaderStates ==
  {"PreHeader", "PreSpace", "InHeaderField", "HeaderValueSpace",
   "InHeaderValue", "AfterCr", "AfterCrLf", "AfterCrLfCr", "InBody"}
Reader ==
  [state : ReaderStates, field : Seq(Bytes), value : Seq(Bytes), size : Int,
   body : Seq(Bytes), headers : Seq(Seq(Bytes) \X Seq(Bytes)),
   bodies : Seq(Seq(Bytes)), warnings : Nat, blocks : Nat, unsized : Nat]

LEMMA StartTyped == Start \in Reader
  BY EmptySeq DEF Start, Reader, ReaderStates, NoLength

LEMMA WarnTyped ==
  ASSUME NEW s \in Reader, NEW n \in Nat
  PROVE  Warn(s, n) \in Reader /\ Warn(s, n).unsized = s.unsized
<1>1. PICK w \in Nat : w = s.warnings + n
  BY DEF Reader
<1>2. Warn(s, n) = [s EXCEPT !.warnings = w]
  BY <1>1 DEF Warn
<1>. QED
  BY <1>2 DEF Reader

LEMMA GotoTyped ==
  ASSUME NEW s \in Reader, NEW st \in ReaderStates
  PROVE  Goto(s, st) \in Reader /\ Goto(s, st).unsized = s.unsized
  BY DEF Goto, Reader

LEMMA IntegerRead ==
  ASSUME NEW bytes
  PROVE  ToInt(bytes) \in Int
<1>1. MaxInt \in Nat
  BY NumbersAssumption
<1>. QED
  BY <1>1 DEF ToInt, NumberIn, AsInt, NotANumber

LEMMA Complaint ==
  ASSUME NEW name, NEW content
  PROVE  HasHeader(name, content) \in Nat
  BY DEF HasHeader

LEMMA EndHeaderTyped ==
  ASSUME NEW s \in Reader
  PROVE  EndHeader(s) \in Reader /\ EndHeader(s).unsized = s.unsized
<1>1. CASE s.field = <<>> /\ s.value = <<>>
  BY <1>1 DEF EndHeader
<1>2. CASE ~(s.field = <<>> /\ s.value = <<>>)
  <2>. DEFINE n == ToInt(s.value)
              valid == IsLengthField(s.field) /\ n # NotANumber
              invalid == IF IsLengthField(s.field) /\ ~valid THEN 1 ELSE 0
              hs == Append(s.headers, <<s.field, s.value>>)
              sz == IF valid THEN n ELSE s.size
              w == s.warnings + (invalid + HasHeader(s.field, s.value))
  <2>1. EndHeader(s) = [s EXCEPT !.headers = hs, !.size = sz, !.warnings = w,
                                 !.field = <<>>, !.value = <<>>]
    <3>1. s.warnings \in Nat /\ invalid \in Nat
          /\ HasHeader(s.field, s.value) \in Nat
      BY Complaint DEF Reader
    <3>2. s.warnings + invalid + HasHeader(s.field, s.value) = w
      <4>. HIDE DEF invalid
      <4>. QED
        BY <3>1
    <3>. QED
      BY <1>2, <3>2 DEF EndHeader
  <2>2. hs \in Seq(Seq(Bytes) \X Seq(Bytes))
    <3>1. s.headers \in Seq(Seq(Bytes) \X Seq(Bytes))
          /\ s.field \in Seq(Bytes) /\ s.value \in Seq(Bytes)
      BY DEF Reader
    <3>. QED
      BY <3>1, AppendProperties
  <2>3. sz \in Int
    BY IntegerRead DEF Reader
  <2>4. w \in Nat
    BY Complaint DEF Reader
  <2>. HIDE DEF hs, sz, w
  <2>5. [s EXCEPT !.headers = hs, !.size = sz, !.warnings = w,
                  !.field = <<>>, !.value = <<>>] \in Reader
    BY <2>2, <2>3, <2>4, EmptySeq DEF Reader
  <2>6. [s EXCEPT !.headers = hs, !.size = sz, !.warnings = w,
                  !.field = <<>>, !.value = <<>>].unsized = s.unsized
    BY DEF Reader
  <2>. QED
    BY <2>1, <2>5, <2>6
<1>. QED
  BY <1>1, <1>2

LEMMA EndBodyTyped ==
  ASSUME NEW s \in Reader
  PROVE  EndBody(s) \in Reader /\ EndBody(s).unsized = s.unsized
<1>1. /\ s.bodies \in Seq(Seq(Bytes)) /\ s.body \in Seq(Bytes)
  BY DEF Reader
<1>2. PICK all \in Seq(Seq(Bytes)) : all = Append(s.bodies, s.body)
  BY <1>1, AppendProperties
<1>3. PICK none \in Seq(Bytes) : none = <<>>
  BY EmptySeq
<1>4. PICK n \in Int : n = NoLength
  BY DEF NoLength
<1>5. PICK st \in ReaderStates : st = "PreHeader"
  BY DEF ReaderStates
<1>6. EndBody(s) = [s EXCEPT !.bodies = all, !.body = none, !.size = n,
                             !.state = st]
  BY <1>2, <1>3, <1>4, <1>5 DEF EndBody
<1>. QED
  BY <1>6 DEF Reader

\* The end of a header block, as the parser does it: the body begins, and is
\* complete, or skipped, if nothing of it is to come.
BeginsBody(s) == Goto([EndHeader(s) EXCEPT !.blocks = @ + 1], "InBody")
Finish(s) ==
  IF s.state # "InBody" THEN s
  ELSE IF s.size = NoLength
       THEN [Warn(Goto(s, "PreHeader"), 1) EXCEPT !.unsized = @ + 1]
       ELSE IF s.size = 0 THEN EndBody(s) ELSE s

LEMMA BeginsBodyTyped ==
  ASSUME NEW s \in Reader
  PROVE  BeginsBody(s) \in Reader /\ BeginsBody(s).unsized = s.unsized
<1>. DEFINE h == EndHeader(s)
<1>1. h \in Reader /\ h.unsized = s.unsized
  BY EndHeaderTyped
<1>. HIDE DEF h
<1>2. PICK n \in Nat : n = h.blocks + 1
  BY <1>1, SMTT(30) DEF Reader
<1>3. [h EXCEPT !.blocks = n] \in Reader
      /\ [h EXCEPT !.blocks = n].unsized = s.unsized
  BY <1>1 DEF Reader
<1>. QED
  BY <1>2, <1>3, GotoTyped DEF BeginsBody, h, ReaderStates

LEMMA FinishTyped ==
  ASSUME NEW s \in Reader
  PROVE  Finish(s) \in Reader /\ Finish(s).unsized >= s.unsized
<1>1. s.unsized \in Nat
  BY DEF Reader
<1>2. CASE s.state = "InBody" /\ s.size = NoLength
  <2>. DEFINE w == Warn(Goto(s, "PreHeader"), 1)
  <2>1. w \in Reader /\ w.unsized = s.unsized
    BY WarnTyped, GotoTyped DEF ReaderStates
  <2>. HIDE DEF w
  <2>2. PICK n \in Nat : n = w.unsized + 1
    BY <1>1, <2>1
  <2>3. [w EXCEPT !.unsized = n] \in Reader
        /\ [w EXCEPT !.unsized = n].unsized = s.unsized + 1
    BY <1>1, <2>1, <2>2 DEF Reader
  <2>. QED
    BY <1>1, <1>2, <2>2, <2>3 DEF Finish, w
<1>3. CASE ~(s.state = "InBody" /\ s.size = NoLength)
  BY <1>1, <1>3, EndBodyTyped DEF Finish
<1>. QED
  BY <1>2, <1>3

LEMMA EndBlockIs ==
  ASSUME NEW s \in Reader
  PROVE  EndBlock(s) = Finish(BeginsBody(s))
<1>. DEFINE h == [EndHeader(s) EXCEPT !.blocks = @ + 1]
<1>1. h \in Reader
  <2>1. PICK e \in Reader : e = EndHeader(s)
    BY EndHeaderTyped
  <2>2. e.blocks \in Nat
    BY DEF Reader
  <2>. PICK n \in Nat : n = e.blocks + 1
    BY <2>2
  <2>3. h = [e EXCEPT !.blocks = n]
    BY <2>1
  <2>. QED
    BY <2>1, <2>3 DEF Reader
<1>2. PICK g : g = h
  OBVIOUS
<1>. HIDE DEF h
<1>3. Goto(g, "InBody").state = "InBody" /\ Goto(g, "InBody").size = g.size
  BY <1>1, <1>2 DEF Reader, Goto
<1>4. Goto(Goto(g, "InBody"), "PreHeader") = Goto(g, "PreHeader")
  BY <1>1, <1>2 DEF Reader, Goto
<1>5. EndBody(Goto(g, "InBody")) = EndBody(g)
  BY <1>1, <1>2 DEF Reader, Goto, EndBody
<1>. QED
  BY <1>2, <1>3, <1>4, <1>5 DEF EndBlock, BeginsBody, Finish, h

LEMMA EndBlockTyped ==
  ASSUME NEW s \in Reader
  PROVE  EndBlock(s) \in Reader /\ EndBlock(s).unsized >= s.unsized
  BY BeginsBodyTyped, FinishTyped, EndBlockIs

LEMMA FieldByteTyped ==
  ASSUME NEW s \in Reader, NEW b \in Bytes
  PROVE  FieldByte(s, b) \in Reader /\ FieldByte(s, b).unsized = s.unsized
<1>1. CASE b \in {LF, CR, COLON}
  BY <1>1, WarnTyped, GotoTyped DEF FieldByte, ReaderStates
<1>2. CASE b \notin {LF, CR, COLON}
  <2>. DEFINE w == Warn(Goto(s, "InHeaderField"), IF b = SPACE THEN 1 ELSE 0)
  <2>1. w \in Reader /\ w.unsized = s.unsized
    <3>1. (IF b = SPACE THEN 1 ELSE 0) \in Nat
      OBVIOUS
    <3>. QED
      BY <3>1, WarnTyped, GotoTyped, SMTT(30) DEF ReaderStates
  <2>2. FieldByte(s, b) = [w EXCEPT !.field = Append(@, b)]
    BY <1>2 DEF FieldByte
  <2>. HIDE DEF w
  <2>3. w.field \in Seq(Bytes)
    BY <2>1 DEF Reader
  <2>4. Append(w.field, b) \in Seq(Bytes)
    BY <2>3, AppendProperties
  <2>. QED
    BY <2>1, <2>2, <2>4 DEF Reader
<1>. QED
  BY <1>1, <1>2

LEMMA ValueByteTyped ==
  ASSUME NEW s \in Reader, NEW b \in Bytes
  PROVE  ValueByte(s, b) \in Reader /\ ValueByte(s, b).unsized = s.unsized
<1>1. CASE b \in {LF, CR}
  BY <1>1, WarnTyped, GotoTyped DEF ValueByte, ReaderStates
<1>2. CASE b \notin {LF, CR}
  <2>. DEFINE w == Goto(s, "InHeaderValue")
  <2>1. w \in Reader /\ w.unsized = s.unsized
    BY GotoTyped DEF ReaderStates
  <2>2. ValueByte(s, b) = [w EXCEPT !.value = Append(@, b)]
    BY <1>2 DEF ValueByte
  <2>. HIDE DEF w
  <2>3. w.value \in Seq(Bytes)
    BY <2>1 DEF Reader
  <2>4. Append(w.value, b) \in Seq(Bytes)
    BY <2>3, AppendProperties
  <2>. QED
    BY <2>1, <2>2, <2>4 DEF Reader
<1>. QED
  BY <1>1, <1>2

LEMMA PreHeaderByteTyped ==
  ASSUME NEW s \in Reader, NEW b \in Bytes
  PROVE  /\ PreHeaderByte(s, b) \in Reader
         /\ PreHeaderByte(s, b).unsized = s.unsized
  BY FieldByteTyped, WarnTyped, GotoTyped DEF PreHeaderByte, ReaderStates

LEMMA BodyByteTyped ==
  ASSUME NEW s \in Reader, NEW b \in Bytes
  PROVE  BodyByte(s, b) \in Reader /\ BodyByte(s, b).unsized = s.unsized
<1>1. s.body \in Seq(Bytes)
  BY DEF Reader
<1>2. Append(s.body, b) \in Seq(Bytes)
  BY <1>1, AppendProperties
<1>. DEFINE t == [s EXCEPT !.body = Append(@, b)]
<1>3. t \in Reader /\ t.unsized = s.unsized
  BY <1>2 DEF Reader
<1>4. BodyByte(s, b) \in {t, EndBody(t)}
  BY DEF BodyByte
<1>. HIDE DEF t
<1>. QED
  BY <1>3, <1>4, EndBodyTyped

LEMMA ByteTyped ==
  ASSUME NEW s \in Reader, NEW b \in Bytes
  PROVE  ReadByte(s, b) \in Reader /\ ReadByte(s, b).unsized >= s.unsized
<1>. DEFINE Later(t) == t \in Reader /\ t.unsized >= s.unsized
            w == Warn(s, 1)
<1>1. s.unsized \in Nat
  BY DEF Reader
<1>2. w \in Reader /\ w.unsized = s.unsized
  BY WarnTyped
<1>. DEFINE Same(t) == t \in Reader /\ t.unsized = s.unsized
<1>3. Later(s) /\ Later(FieldByte(s, b)) /\ Later(ValueByte(s, b))
      /\ Later(PreHeaderByte(s, b)) /\ Later(BodyByte(s, b))
  <2>1. Same(s) /\ Same(FieldByte(s, b)) /\ Same(ValueByte(s, b))
        /\ Same(PreHeaderByte(s, b)) /\ Same(BodyByte(s, b))
    BY FieldByteTyped, ValueByteTyped, PreHeaderByteTyped, BodyByteTyped
  <2>2. \A t : Same(t) => Later(t)
    BY <1>1
  <2>. HIDE DEF Same, Later
  <2>. QED
    BY <2>1, <2>2
<1>4. CASE s.state = "PreHeader"
  BY <1>3, <1>4 DEF ReadByte
<1>5. CASE s.state \in {"PreSpace", "InHeaderField", "InHeaderValue"}
  BY <1>3, <1>5 DEF ReadByte
<1>6. CASE s.state = "HeaderValueSpace"
  <2>1. [s EXCEPT !.value = <<>>] \in Reader
        /\ [s EXCEPT !.value = <<>>].unsized = s.unsized
    BY EmptySeq DEF Reader
  <2>. QED
    BY <1>1, <1>3, <1>6, <2>1, ValueByteTyped DEF ReadByte
<1>7. CASE s.state = "AfterCr"
  <2>1. Later(Goto(s, "AfterCrLf"))
    BY <1>1, GotoTyped DEF ReaderStates
  <2>2. Later(EndBlock(w))
    BY <1>2, EndBlockTyped
  <2>3. Later(ValueByte(w, b))
    BY <1>1, <1>2, ValueByteTyped
  <2>4. Later(FieldByte(EndHeader(w), b))
    BY <1>1, <1>2, FieldByteTyped, EndHeaderTyped
  <2>. QED
    BY <1>7, <2>1, <2>2, <2>3, <2>4 DEF ReadByte, AfterCrByte
<1>8. CASE s.state = "AfterCrLf"
  <2>1. Later(Goto(s, "AfterCrLfCr"))
    BY <1>1, GotoTyped DEF ReaderStates
  <2>2. Later(EndBlock(w))
    BY <1>2, EndBlockTyped
  <2>3. Later(FieldByte(EndHeader(s), b))
    BY <1>1, FieldByteTyped, EndHeaderTyped
  <2>. QED
    BY <1>3, <1>8, <2>1, <2>2, <2>3 DEF ReadByte, AfterCrLfByte
<1>9. CASE s.state = "AfterCrLfCr"
  <2>1. Later(EndBlock(s))
    BY EndBlockTyped
  <2>2. Later(FieldByte(EndHeader(w), b))
    BY <1>1, <1>2, FieldByteTyped, EndHeaderTyped
  <2>. QED
    BY <1>9, <2>1, <2>2 DEF ReadByte, AfterCrLfCrByte
<1>10. CASE s.state = "InBody"
  <2>1. Later(PreHeaderByte(EndBody(s), b))
    BY <1>1, EndBodyTyped, PreHeaderByteTyped
  <2>. QED
    BY <1>3, <1>10, <2>1 DEF ReadByte
<1>11. s.state \in ReaderStates
  BY DEF Reader
<1>. QED
  BY <1>4, <1>5, <1>6, <1>7, <1>8, <1>9, <1>10, <1>11 DEF ReaderStates

\* Reading keeps the type, and a block without a length is never forgotten.
LEMMA ReadTyped ==
  ASSUME NEW s \in Reader, NEW bytes \in Seq(Bytes)
  PROVE  /\ ReadFrom(s, bytes) \in Reader
         /\ ReadFrom(s, bytes).unsized >= s.unsized
<1>1. PICK g : /\ ReadFrom(s, bytes) = g[Len(bytes)] /\ g[0] = s
               /\ Steps(g, 0, bytes, Len(bytes))
  BY ReadingIs
<1>. DEFINE Later(t) == t \in Reader /\ t.unsized >= s.unsized
            Bad == {i \in 0..Len(bytes) : ~Later(g[i])}
<1>2. s.unsized \in Nat /\ \A t \in Reader : t.unsized \in Nat
  BY DEF Reader
<1>3. Bad = {}
  <2>. SUFFICES ASSUME Bad # {} PROVE FALSE
    OBVIOUS
  <2>1. Bad \in SUBSET Nat
    OBVIOUS
  <2>2. PICK i \in Bad : \A j \in Bad : i <= j
    <3>. HIDE DEF Bad
    <3>. QED
      BY <2>1, Least
  <2>3. i \in 1..Len(bytes)
    BY <1>1, <1>2, <2>2
  <2>4. i - 1 \in 0..Len(bytes) /\ i - 1 \notin Bad
    BY <2>2, <2>3
  <2>5. 0 + (i - 1) = i - 1 /\ 0 + i = i /\ bytes[i] \in Bytes
    BY <2>3
  <2>6. g[i] = ReadByte(g[i - 1], bytes[i])
    BY <1>1, <2>3, <2>5 DEF Steps
  <2>7. Later(g[i - 1])
    BY <2>4
  <2>8. Later(g[i])
    BY <1>2, <2>5, <2>6, <2>7, ByteTyped, SMTT(30)
  <2>. QED
    BY <2>2, <2>8
<1>4. Len(bytes) \in 0..Len(bytes)
  OBVIOUS
<1>. QED
  BY <1>1, <1>3, <1>4

---------------------------------------------------------------------------
\* What is left of the bytes when the first k have been read.

Drop(bytes, k) == SubSeq(bytes, k + 1, Len(bytes))

LEMMA Dropped ==
  ASSUME NEW bytes \in Seq(Bytes), NEW k \in 0..Len(bytes)
  PROVE  /\ Drop(bytes, k) \in Seq(Bytes)
         /\ Len(Drop(bytes, k)) = Len(bytes) - k
         /\ \A i \in 1..(Len(bytes) - k) : Drop(bytes, k)[i] = bytes[k + i]
<1>1. \A i \in (k + 1)..Len(bytes) : bytes[i] \in Bytes
  OBVIOUS
<1>2. /\ SubSeq(bytes, k + 1, Len(bytes)) \in Seq(Bytes)
      /\ Len(SubSeq(bytes, k + 1, Len(bytes))) = Len(bytes) - k
  BY <1>1, SubSeqProperties
<1>3. \A i \in 1..(Len(bytes) - k) :
        SubSeq(bytes, k + 1, Len(bytes))[i] = bytes[k + i]
  <2>. SUFFICES ASSUME NEW i \in 1..(Len(bytes) - k)
                PROVE  SubSeq(bytes, k + 1, Len(bytes))[i] = bytes[k + i]
    OBVIOUS
  <2>1. (k + 1) + i - 1 = k + i
    OBVIOUS
  <2>2. SubSeq(bytes, k + 1, Len(bytes))[i] = bytes[(k + 1) + i - 1]
    BY <1>1, SubSeqProperties
  <2>. QED
    BY <2>1, <2>2
<1>. QED
  BY <1>2, <1>3 DEF Drop

LEMMA Taking ==
  ASSUME NEW bytes \in Seq(Bytes), NEW k \in 0..Len(bytes),
         NEW m \in k..Len(bytes)
  PROVE  /\ SubSeq(bytes, k + 1, m) \in Seq(Bytes)
         /\ Len(SubSeq(bytes, k + 1, m)) = m - k
         /\ \A i \in 1..(m - k) : SubSeq(bytes, k + 1, m)[i] = bytes[k + i]
<1>1. \A i \in (k + 1)..m : bytes[i] \in Bytes
  OBVIOUS
<1>2. /\ SubSeq(bytes, k + 1, m) \in Seq(Bytes)
      /\ Len(SubSeq(bytes, k + 1, m)) = m - k
  BY <1>1, SubSeqProperties
<1>3. ASSUME NEW i \in 1..(m - k)
      PROVE  SubSeq(bytes, k + 1, m)[i] = bytes[k + i]
  <2>1. (k + 1) + i - 1 = k + i
    OBVIOUS
  <2>2. SubSeq(bytes, k + 1, m)[i] = bytes[(k + 1) + i - 1]
    BY <1>1, SubSeqProperties
  <2>. QED
    BY <2>1, <2>2
<1>. QED
  BY <1>2, <1>3

LEMMA DropTwice ==
  ASSUME NEW bytes \in Seq(Bytes), NEW k \in 0..Len(bytes),
         NEW p \in 0..(Len(bytes) - k)
  PROVE  Drop(Drop(bytes, k), p) = Drop(bytes, k + p)
<1>1. PICK d : d = Drop(bytes, k)
  OBVIOUS
<1>2. /\ d \in Seq(Bytes) /\ Len(d) = Len(bytes) - k
      /\ \A i \in 1..(Len(bytes) - k) : d[i] = bytes[k + i]
  BY <1>1, Dropped
<1>3. p \in 0..Len(d) /\ k + p \in 0..Len(bytes)
  BY <1>2
<1>4. /\ Drop(d, p) \in Seq(Bytes) /\ Len(Drop(d, p)) = Len(d) - p
      /\ \A i \in 1..(Len(d) - p) : Drop(d, p)[i] = d[p + i]
  BY <1>2, <1>3, Dropped
<1>5. /\ Drop(bytes, k + p) \in Seq(Bytes)
      /\ Len(Drop(bytes, k + p)) = Len(bytes) - (k + p)
      /\ \A i \in 1..(Len(bytes) - (k + p)) :
           Drop(bytes, k + p)[i] = bytes[(k + p) + i]
  BY <1>3, Dropped
<1>6. Len(Drop(d, p)) = Len(Drop(bytes, k + p))
  BY <1>2, <1>4, <1>5
<1>7. ASSUME NEW i \in 1..(Len(bytes) - (k + p))
      PROVE  Drop(d, p)[i] = Drop(bytes, k + p)[i]
  <2>1. i \in 1..(Len(d) - p) /\ p + i \in 1..(Len(bytes) - k)
        /\ k + (p + i) = (k + p) + i
    BY <1>2
  <2>. QED
    BY <1>2, <1>4, <1>5, <2>1
<1>. QED
  BY <1>1, <1>4, <1>5, <1>6, <1>7, SeqEqual

LEMMA DropSplit ==
  ASSUME NEW bytes \in Seq(Bytes), NEW k \in 0..Len(bytes),
         NEW m \in k..Len(bytes)
  PROVE  Drop(bytes, k) = SubSeq(bytes, k + 1, m) \o Drop(bytes, m)
<1>1. PICK n \in 1..(Len(bytes) + 1) : n = k + 1
  OBVIOUS
<1>2. m \in (n - 1)..Len(bytes) /\ Len(bytes) \in m..Len(bytes)
  BY <1>1
<1>3. SubSeq(bytes, n, m) \o SubSeq(bytes, m + 1, Len(bytes))
        = SubSeq(bytes, n, Len(bytes))
  BY <1>2, ConcatAdjacentSubSeq
<1>. QED
  BY <1>1, <1>3 DEF Drop

LEMMA ReadTokenThen ==
  ASSUME NEW s, NEW bytes \in Seq(Bytes), NEW k \in 0..Len(bytes),
         NEW m \in k..Len(bytes)
  PROVE  ReadFrom(s, Drop(bytes, k)) =
           ReadFrom(ReadFrom(s, SubSeq(bytes, k + 1, m)), Drop(bytes, m))
<1>1. m \in 0..Len(bytes)
  OBVIOUS
<1>2. Drop(bytes, m) \in Seq(Bytes) /\ SubSeq(bytes, k + 1, m) \in Seq(Bytes)
  BY <1>1, Dropped, Taking
<1>3. PICK a \in Seq(Bytes), b \in Seq(Bytes) :
        a = SubSeq(bytes, k + 1, m) /\ b = Drop(bytes, m)
  BY <1>2
<1>4. Drop(bytes, k) = a \o b
  BY <1>3, DropSplit
<1>5. ReadFrom(s, a \o b) = ReadFrom(ReadFrom(s, a), b)
  BY ReadOn
<1>. QED
  BY <1>3, <1>4, <1>5

LEMMA ReadByteThen ==
  ASSUME NEW s, NEW bytes \in Seq(Bytes), NEW k \in 0..(Len(bytes) - 1)
  PROVE  ReadFrom(s, Drop(bytes, k)) =
           ReadFrom(ReadByte(s, bytes[k + 1]), Drop(bytes, k + 1))
<1>1. /\ k \in 0..Len(bytes) /\ k + 1 \in k..Len(bytes)
      /\ (k + 1) - k = 1 /\ bytes[k + 1] \in Bytes
  OBVIOUS
<1>2. PICK a : a = SubSeq(bytes, k + 1, k + 1)
  OBVIOUS
<1>3. /\ a \in Seq(Bytes) /\ Len(a) = 1
      /\ \A i \in 1..1 : a[i] = bytes[k + i]
  BY <1>1, <1>2, Taking
<1>4. a = <<bytes[k + 1]>>
  BY <1>3
<1>5. ReadFrom(s, a) = ReadByte(s, bytes[k + 1])
  BY <1>1, <1>4, ReadOne
<1>6. ReadFrom(s, Drop(bytes, k)) = ReadFrom(ReadFrom(s, a), Drop(bytes, k + 1))
  BY <1>1, <1>2, ReadTokenThen
<1>. QED
  BY <1>5, <1>6

LEMMA DropAll ==
  ASSUME NEW bytes \in Seq(Bytes)
  PROVE  Drop(bytes, Len(bytes)) = <<>> /\ Drop(bytes, 0) = bytes
<1>1. Len(bytes) \in 0..Len(bytes) /\ 0 \in 0..Len(bytes)
      /\ Len(bytes) - Len(bytes) = 0 /\ Len(bytes) - 0 = Len(bytes)
  OBVIOUS
<1>2. Drop(bytes, Len(bytes)) \in Seq(Bytes)
      /\ Len(Drop(bytes, Len(bytes))) = 0
  BY <1>1, Dropped
<1>3. /\ Drop(bytes, 0) \in Seq(Bytes) /\ Len(Drop(bytes, 0)) = Len(bytes)
      /\ \A i \in 1..Len(bytes) : Drop(bytes, 0)[i] = bytes[0 + i]
  BY <1>1, Dropped
<1>4. \A i \in 1..Len(bytes) : Drop(bytes, 0)[i] = bytes[i]
  BY <1>3
<1>. QED
  BY <1>2, <1>3, <1>4, EmptySeq, SeqEqual

\* Two readers that make the same of the next byte.
LEMMA SameNext ==
  ASSUME NEW s, NEW t, NEW bytes \in Seq(Bytes), NEW k \in 0..(Len(bytes) - 1),
         ReadByte(s, bytes[k + 1]) = ReadByte(t, bytes[k + 1])
  PROVE  ReadFrom(s, Drop(bytes, k)) = ReadFrom(t, Drop(bytes, k))
  BY ReadByteThen

---------------------------------------------------------------------------
\* Runs of bytes that are all of one kind: T[n] is the reader after n bytes.

First(bytes, n) == SubSeq(bytes, 1, n)

LEMMA FirstGrows ==
  ASSUME NEW bytes \in Seq(Bytes), NEW n \in 1..Len(bytes)
  PROVE  /\ First(bytes, n - 1) \in Seq(Bytes) /\ bytes[n] \in Bytes
         /\ First(bytes, n) = First(bytes, n - 1) \o <<bytes[n]>>
<1>1. \A i \in 1..(n - 1) : bytes[i] \in Bytes
  OBVIOUS
<1>2. First(bytes, n - 1) \in Seq(Bytes)
  BY <1>1, SubSeqProperties DEF First
<1>3. 1 \in 1..Len(bytes) /\ n \in 1..Len(bytes)
  OBVIOUS
<1>4. SubSeq(bytes, 1, n) = SubSeq(bytes, 1, n - 1) \o <<bytes[n]>>
  BY <1>3, SubSeqRecursiveSecond
<1>. QED
  BY <1>2, <1>4 DEF First

LEMMA FirstEnds ==
  ASSUME NEW bytes \in Seq(Bytes)
  PROVE  First(bytes, 0) = <<>> /\ First(bytes, Len(bytes)) = bytes
  BY SubSeqEmpty, SubSeqFull DEF First

LEMMA TokenGrows ==
  ASSUME NEW token \in Seq(Bytes), NEW bytes \in Seq(Bytes),
         NEW n \in 1..Len(bytes)
  PROVE  token \o First(bytes, n) =
           Append(token \o First(bytes, n - 1), bytes[n])
<1>. PICK a \in Seq(Bytes) : a = First(bytes, n - 1)
  BY FirstGrows
<1>. PICK b \in Bytes : b = bytes[n]
  BY FirstGrows
<1>1. a = First(bytes, n - 1) /\ b = bytes[n]
  OBVIOUS
<1>2. First(bytes, n) = a \o <<b>>
  BY <1>1, FirstGrows
<1>3. <<b>> \in Seq(Bytes)
  OBVIOUS
<1>4. token \o (a \o <<b>>) = (token \o a) \o <<b>>
  BY <1>3, ConcatAssociative
<1>5. token \o a \in Seq(Bytes)
  BY ConcatProperties
<1>. QED
  BY <1>1, <1>2, <1>4, <1>5, SMTT(30)

LEMMA SpaceRun ==
  ASSUME NEW s \in Reader, s.state \in {"PreSpace", "HeaderValueSpace"},
         NEW bytes \in Seq(Bytes), \A i \in 1..Len(bytes) : bytes[i] = SPACE
  PROVE  ReadFrom(s, bytes) = s
<1>1. ReadByte(s, SPACE) = s
  BY DEF ReadByte
<1>. DEFINE T == [n \in 0..Len(bytes) |-> s]
<1>2. Steps(T, 0, bytes, Len(bytes))
  BY <1>1 DEF Steps
<1>3. T[0] = s /\ T[Len(bytes)] = s
  OBVIOUS
<1>. HIDE DEF T
<1>. QED
  BY <1>2, <1>3, ReadSteps

\* The spaces among the first n bytes.
SpacesTo(bytes, n) == Cardinality({i \in 1..n : bytes[i] = SPACE})

LEMMA SpacesCount ==
  ASSUME NEW bytes
  PROVE  /\ SpacesTo(bytes, 0) = 0
         /\ \A n \in Nat : SpacesTo(bytes, n) \in Nat
         /\ \A n \in Nat \ {0} :
              SpacesTo(bytes, n) = SpacesTo(bytes, n - 1) +
                                   IF bytes[n] = SPACE THEN 1 ELSE 0
<1>. DEFINE S(n) == {i \in 1..n : bytes[i] = SPACE}
<1>1. S(0) = {}
  OBVIOUS
<1>2. ASSUME NEW n \in Nat
      PROVE  IsFiniteSet(S(n)) /\ Cardinality(S(n)) \in Nat
  <2>1. IsFiniteSet(1..n)
    BY FS_Interval
  <2>. QED
    BY <2>1, FS_Subset, FS_CardinalityType
<1>3. ASSUME NEW n \in Nat \ {0}
      PROVE  Cardinality(S(n)) = Cardinality(S(n - 1)) +
                                 IF bytes[n] = SPACE THEN 1 ELSE 0
  <2>1. IsFiniteSet(S(n - 1)) /\ Cardinality(S(n - 1)) \in Nat
    BY <1>2
  <2>2. n \notin S(n - 1)
    OBVIOUS
  <2>3. CASE bytes[n] = SPACE
    <3>1. S(n) = S(n - 1) \cup {n}
      BY <2>3
    <3>. HIDE DEF S
    <3>. QED
      BY <2>1, <2>2, <2>3, <3>1, FS_AddElement
  <2>4. CASE bytes[n] # SPACE
    <3>1. S(n) = S(n - 1)
      BY <2>4
    <3>. HIDE DEF S
    <3>. QED
      BY <2>1, <2>4, <3>1
  <2>. QED
    BY <2>3, <2>4
<1>. QED
  BY <1>1, <1>2, <1>3, FS_EmptySet DEF SpacesTo

WithField(s, token, spaces) ==
  [s EXCEPT !.field = token, !.warnings = s.warnings + spaces]

LEMMA FieldGrows ==
  ASSUME NEW s \in Reader, s.state = "InHeaderField",
         NEW token \in Seq(Bytes), NEW n \in Nat,
         NEW b \in Bytes, b \notin {CR, LF, COLON}
  PROVE  ReadByte(WithField(s, token, n), b) =
           WithField(s, Append(token, b), n + IF b = SPACE THEN 1 ELSE 0)
<1>1. PICK m \in Nat : m = IF b = SPACE THEN 1 ELSE 0
  OBVIOUS
<1>2. s.warnings \in Nat
  BY DEF Reader
<1>3. PICK w \in Nat : w = s.warnings + n
  BY <1>2
<1>. DEFINE t == [s EXCEPT !.field = token, !.warnings = w]
<1>4. t = WithField(s, token, n)
  BY <1>3 DEF WithField
<1>5. t \in Reader /\ t.state = "InHeaderField" /\ t.field = token
      /\ t.warnings = w
  BY DEF Reader
<1>6. ReadByte(t, b) = [[[t EXCEPT !.state = "InHeaderField"]
                           EXCEPT !.warnings = w + m]
                          EXCEPT !.field = Append(token, b)]
  <2>. HIDE DEF t
  <2>1. ReadByte(t, b) = FieldByte(t, b)
    BY <1>5 DEF ReadByte
  <2>2. Goto(t, "InHeaderField").warnings = w
        /\ Goto(t, "InHeaderField").field = token
    BY <1>5 DEF Goto, Reader
  <2>3. Warn(Goto(t, "InHeaderField"), m)
          = [Goto(t, "InHeaderField") EXCEPT !.warnings = w + m]
    BY <2>2 DEF Warn
  <2>4. Warn(Goto(t, "InHeaderField"), m).field = token
    BY <1>5, <2>2, <2>3 DEF Goto, Reader
  <2>5. FieldByte(t, b) = [Warn(Goto(t, "InHeaderField"), m)
                             EXCEPT !.field = Append(token, b)]
    BY <1>1, <2>4 DEF FieldByte
  <2>. QED
    BY <2>1, <2>3, <2>5 DEF Goto
<1>7. s.warnings + (n + m) = w + m
  BY <1>2, <1>3
<1>8. WithField(s, Append(token, b), n + m)
        = [s EXCEPT !.field = Append(token, b), !.warnings = w + m]
  BY <1>7 DEF WithField
<1>9. [[[t EXCEPT !.state = "InHeaderField"] EXCEPT !.warnings = w + m]
         EXCEPT !.field = Append(token, b)]
        = [s EXCEPT !.field = Append(token, b), !.warnings = w + m]
  BY DEF Reader
<1>. QED
  BY <1>1, <1>4, <1>6, <1>8, <1>9

LEMMA FieldRun ==
  ASSUME NEW s \in Reader, s.state = "InHeaderField",
         NEW bytes \in Seq(Bytes),
         \A i \in 1..Len(bytes) : bytes[i] \notin {CR, LF, COLON}
  PROVE  ReadFrom(s, bytes) = WithField(s, s.field \o bytes,
                                        SpacesTo(bytes, Len(bytes)))
<1>. DEFINE T == [n \in 0..Len(bytes) |->
                    WithField(s, s.field \o First(bytes, n),
                              SpacesTo(bytes, n))]
<1>1. s.field \in Seq(Bytes) /\ s.warnings \in Nat
  BY DEF Reader
<1>2. ASSUME NEW n \in 1..Len(bytes)
      PROVE  T[0 + n] = ReadByte(T[0 + (n - 1)], bytes[n])
  <2>. PICK b \in Bytes : b = bytes[n]
    BY FirstGrows
  <2>. PICK token \in Seq(Bytes) : token = s.field \o First(bytes, n - 1)
    BY <1>1, FirstGrows, ConcatProperties
  <2>. PICK m \in Nat : m = SpacesTo(bytes, n - 1)
    BY SpacesCount
  <2>1. /\ token = s.field \o First(bytes, n - 1)
        /\ m = SpacesTo(bytes, n - 1)
        /\ b = bytes[n]
    OBVIOUS
  <2>2. ReadByte(WithField(s, token, m), b) =
          WithField(s, Append(token, b), m + IF b = SPACE THEN 1 ELSE 0)
    BY <2>1, FieldGrows
  <2>3. s.field \o First(bytes, n) = Append(token, b)
    BY <1>1, <2>1, TokenGrows, ZenonT(60)
  <2>4. SpacesTo(bytes, n) = m + IF b = SPACE THEN 1 ELSE 0
    BY <2>1, SpacesCount
  <2>5. 0 + n = n /\ 0 + (n - 1) = n - 1 /\ n \in 0..Len(bytes)
        /\ n - 1 \in 0..Len(bytes)
    OBVIOUS
  <2>. QED
    BY <2>1, <2>2, <2>3, <2>4, <2>5
<1>3. Steps(T, 0, bytes, Len(bytes))
  BY <1>2 DEF Steps
<1>4. T[0] = s
  <2>1. s.field \o First(bytes, 0) = s.field /\ SpacesTo(bytes, 0) = 0
    BY <1>1, FirstEnds, SpacesCount, ConcatEmptySeq
  <2>2. s.warnings + 0 = s.warnings
    BY <1>1
  <2>3. WithField(s, s.field, 0) = s
    BY <2>2 DEF WithField, Reader
  <2>. QED
    BY <2>1, <2>3
<1>5. T[Len(bytes)] = WithField(s, s.field \o bytes,
                                SpacesTo(bytes, Len(bytes)))
  BY FirstEnds
<1>. HIDE DEF T
<1>. QED
  BY <1>3, <1>4, <1>5, ReadSteps

LEMMA ValueRun ==
  ASSUME NEW s \in Reader, s.state = "InHeaderValue",
         NEW bytes \in Seq(Bytes),
         \A i \in 1..Len(bytes) : bytes[i] \notin {CR, LF}
  PROVE  ReadFrom(s, bytes) = [s EXCEPT !.value = s.value \o bytes]
<1>. DEFINE T == [n \in 0..Len(bytes) |->
                    [s EXCEPT !.value = s.value \o First(bytes, n)]]
<1>1. s.value \in Seq(Bytes)
  BY DEF Reader
<1>2. ASSUME NEW n \in 1..Len(bytes)
      PROVE  T[0 + n] = ReadByte(T[0 + (n - 1)], bytes[n])
  <2>. PICK b \in Bytes : b = bytes[n]
    BY FirstGrows
  <2>. PICK token \in Seq(Bytes) : token = s.value \o First(bytes, n - 1)
    BY <1>1, FirstGrows, ConcatProperties
  <2>1. token = s.value \o First(bytes, n - 1) /\ b = bytes[n]
    OBVIOUS
  <2>2. ReadByte([s EXCEPT !.value = token], b) =
          [s EXCEPT !.value = Append(token, b)]
    <3>. DEFINE t == [s EXCEPT !.value = token]
    <3>1. t.state = "InHeaderValue" /\ t.value = token
      BY DEF Reader
    <3>2. [[t EXCEPT !.state = "InHeaderValue"]
             EXCEPT !.value = Append(token, b)]
            = [s EXCEPT !.value = Append(token, b)]
      BY DEF Reader
    <3>3. [t EXCEPT !.state = "InHeaderValue"].value = token
      BY DEF Reader
    <3>. HIDE DEF t
    <3>4. ReadByte(t, b) = [[t EXCEPT !.state = "InHeaderValue"]
                              EXCEPT !.value = Append(token, b)]
      BY <2>1, <3>1, <3>3 DEF ReadByte, ValueByte, Goto
    <3>. QED
      BY <3>2, <3>4 DEF t
  <2>3. s.value \o First(bytes, n) = Append(token, b)
    BY <1>1, <2>1, TokenGrows, ZenonT(60)
  <2>4. 0 + n = n /\ 0 + (n - 1) = n - 1 /\ n \in 0..Len(bytes)
        /\ n - 1 \in 0..Len(bytes)
    OBVIOUS
  <2>. QED
    BY <2>1, <2>2, <2>3, <2>4
<1>3. Steps(T, 0, bytes, Len(bytes))
  BY <1>2 DEF Steps
<1>4. T[0] = s
  <2>1. s.value \o First(bytes, 0) = s.value
    BY <1>1, FirstEnds, ConcatEmptySeq
  <2>. QED
    BY <2>1 DEF Reader
<1>5. T[Len(bytes)] = [s EXCEPT !.value = s.value \o bytes]
  BY FirstEnds
<1>. HIDE DEF T
<1>. QED
  BY <1>3, <1>4, <1>5, ReadSteps

LEMMA BodyRun ==
  ASSUME NEW s \in Reader, s.state = "InBody",
         NEW bytes \in Seq(Bytes), Len(s.body) + Len(bytes) < s.size
  PROVE  ReadFrom(s, bytes) = [s EXCEPT !.body = s.body \o bytes]
<1>. DEFINE T == [n \in 0..Len(bytes) |->
                    [s EXCEPT !.body = s.body \o First(bytes, n)]]
<1>1. s.body \in Seq(Bytes) /\ s.size \in Int
  BY DEF Reader
<1>2. ASSUME NEW n \in 1..Len(bytes)
      PROVE  T[0 + n] = ReadByte(T[0 + (n - 1)], bytes[n])
  <2>. PICK b \in Bytes : b = bytes[n]
    BY FirstGrows
  <2>. PICK token \in Seq(Bytes) : token = s.body \o First(bytes, n - 1)
    BY <1>1, FirstGrows, ConcatProperties
  <2>1. token = s.body \o First(bytes, n - 1) /\ b = bytes[n]
    OBVIOUS
  <2>2. s.body \o First(bytes, n) = Append(token, b)
    BY <1>1, <2>1, TokenGrows, ZenonT(60)
  <2>3. Len(Append(token, b)) < s.size /\ ~(s.size < 0)
    <3>1. First(bytes, n) \in Seq(Bytes) /\ Len(First(bytes, n)) = n
      <4>1. \A i \in 1..n : bytes[i] \in Bytes
        OBVIOUS
      <4>. QED
        BY <4>1, SubSeqProperties DEF First
    <3>2. Len(s.body \o First(bytes, n)) = Len(s.body) + n
      <4>1. Len(s.body \o First(bytes, n)) = Len(s.body) + Len(First(bytes, n))
        BY <1>1, <3>1, ConcatProperties
      <4>. QED
        BY <3>1, <4>1
    <3>3. PICK k \in Nat, m \in Nat, z \in Int :
            k = Len(s.body) /\ m = Len(bytes) /\ z = s.size
      BY <1>1
    <3>4. k + m < z /\ n \in 1..m
      BY <3>3
    <3>5. k + n < z /\ ~(z < 0)
      BY <3>4
    <3>. QED
      BY <2>2, <3>2, <3>3, <3>5
  <2>4. ReadByte([s EXCEPT !.body = token], b) =
          [s EXCEPT !.body = Append(token, b)]
    <3>. DEFINE t == [s EXCEPT !.body = token]
    <3>1. t.state = "InBody" /\ t.body = token /\ t.size = s.size
      BY DEF Reader
    <3>2. PICK u : u = [t EXCEPT !.body = Append(token, b)]
      OBVIOUS
    <3>3. u = [s EXCEPT !.body = Append(token, b)]
          /\ u.body = Append(token, b) /\ u.size = s.size
      BY <3>2 DEF Reader
    <3>. HIDE DEF t
    <3>4. ReadByte(t, b) = BodyByte(t, b)
      BY <2>3, <3>1 DEF ReadByte
    <3>5. Len(u.body) # u.size
      <4>1. Append(token, b) \in Seq(Bytes)
        BY AppendProperties
      <4>2. PICK k \in Nat : k = Len(Append(token, b))
        BY <4>1, LenProperties
      <4>3. PICK z \in Int : z = s.size
        BY <1>1
      <4>4. k < z
        BY <2>3, <4>2, <4>3
      <4>5. k # z
        BY <4>4
      <4>. QED
        BY <3>3, <4>2, <4>3, <4>5
    <3>6. BodyByte(t, b) = u
      BY <3>1, <3>2, <3>5 DEF BodyByte
    <3>. QED
      BY <3>3, <3>4, <3>6 DEF t
  <2>5. 0 + n = n /\ 0 + (n - 1) = n - 1 /\ n \in 0..Len(bytes)
        /\ n - 1 \in 0..Len(bytes)
    OBVIOUS
  <2>. QED
    BY <2>1, <2>2, <2>4, <2>5
<1>3. Steps(T, 0, bytes, Len(bytes))
  BY <1>2 DEF Steps
<1>4. T[0] = s
  <2>1. s.body \o First(bytes, 0) = s.body
    BY <1>1, FirstEnds, ConcatEmptySeq
  <2>. QED
    BY <2>1 DEF Reader
<1>5. T[Len(bytes)] = [s EXCEPT !.body = s.body \o bytes]
  BY FirstEnds
<1>. HIDE DEF T
<1>. QED
  BY <1>3, <1>4, <1>5, ReadSteps

\* The last byte of a body ends it.
LEMMA BodyRunEnds ==
  ASSUME NEW s \in Reader, s.state = "InBody",
         NEW bytes \in Seq(Bytes), Len(bytes) > 0,
         Len(s.body) + Len(bytes) = s.size
  PROVE  ReadFrom(s, bytes) = EndBody([s EXCEPT !.body = s.body \o bytes])
<1>1. s.body \in Seq(Bytes) /\ s.size \in Int /\ Len(s.body) \in Nat
  BY DEF Reader
<1>2. PICK n \in 1..Len(bytes) : n = Len(bytes)
  OBVIOUS
<1>. PICK a \in Seq(Bytes) : a = First(bytes, n - 1)
  BY FirstGrows
<1>. PICK b \in Bytes : b = bytes[n]
  BY FirstGrows
<1>3. a = First(bytes, n - 1) /\ b = bytes[n]
  OBVIOUS
<1>4. Len(a) = n - 1
  <2>1. \A i \in 1..(n - 1) : bytes[i] \in Bytes
    OBVIOUS
  <2>. QED
    BY <1>3, <2>1, SubSeqProperties DEF First
<1>5. bytes = a \o <<b>> /\ <<b>> \in Seq(Bytes)
  <2>1. First(bytes, n) = a \o <<b>>
    BY <1>3, FirstGrows
  <2>2. First(bytes, n) = bytes
    BY <1>2, FirstEnds
  <2>. QED
    BY <2>1, <2>2
<1>6. ReadFrom(s, bytes) = ReadByte(ReadFrom(s, a), b)
  <2>1. ReadFrom(s, a \o <<b>>) = ReadFrom(ReadFrom(s, a), <<b>>)
    BY <1>5, ReadOn, ZenonT(60)
  <2>. QED
    BY <1>5, <2>1, ReadOne
<1>7. PICK token \in Seq(Bytes) : token = s.body \o a
  BY <1>1, ConcatProperties
<1>8. ReadFrom(s, a) = [s EXCEPT !.body = token]
  <2>1. Len(s.body) + Len(a) < s.size
    <3>1. PICK k \in Nat : k = Len(s.body)
      BY <1>1
    <3>2. PICK z \in Int : z = s.size
      BY <1>1
    <3>3. n \in Nat /\ k + n = z
      BY <1>2, <3>1, <3>2
    <3>4. k + (n - 1) < z
      BY <3>3
    <3>. QED
      BY <1>4, <3>1, <3>2, <3>4
  <2>. QED
    BY <1>7, <2>1, BodyRun
<1>9. Append(token, b) = s.body \o bytes
  <2>1. s.body \o First(bytes, n) =
          Append(s.body \o First(bytes, n - 1), bytes[n])
    BY <1>1, TokenGrows
  <2>. QED
    BY <1>2, <1>3, <1>7, <2>1, FirstEnds
<1>10. Len(Append(token, b)) = s.size
  BY <1>1, <1>9, ConcatProperties
<1>. DEFINE t == [s EXCEPT !.body = token]
<1>11. t.state = "InBody" /\ t.body = token /\ t.size = s.size
  BY DEF Reader
<1>12. PICK u : u = [t EXCEPT !.body = Append(token, b)]
  OBVIOUS
<1>13. u = [s EXCEPT !.body = Append(token, b)]
       /\ u.body = Append(token, b) /\ u.size = s.size
  BY <1>12 DEF Reader
<1>. HIDE DEF t
<1>14. ReadByte(t, b) = BodyByte(t, b)
  <2>1. ~(s.size < 0)
    BY <1>1
  <2>. QED
    BY <1>11, <2>1 DEF ReadByte
<1>15. BodyByte(t, b) = EndBody(u)
  BY <1>10, <1>11, <1>12, <1>13 DEF BodyByte
<1>. QED
  BY <1>6, <1>8, <1>9, <1>13, <1>14, <1>15 DEF t

---------------------------------------------------------------------------
\* Complaints and bodies are never taken back.

Grown(a, b) ==
  Len(a) <= Len(b) /\ \A i \in 1..Len(a) : b[i] = a[i]
More(s, t) == s.warnings <= t.warnings /\ Grown(s.bodies, t.bodies)

LEMMA GrownTwice ==
  ASSUME NEW S, NEW a \in Seq(S), NEW b \in Seq(S), NEW d \in Seq(S),
         Grown(a, b), Grown(b, d)
  PROVE  Grown(a, d)
<1>1. PICK m \in Nat : m = Len(a)
  OBVIOUS
<1>2. PICK n \in Nat : n = Len(b)
  OBVIOUS
<1>3. PICK k \in Nat : k = Len(d)
  OBVIOUS
<1>4. /\ m <= n /\ \A i \in 1..m : b[i] = a[i]
      /\ n <= k /\ \A i \in 1..n : d[i] = b[i]
  BY <1>1, <1>2, <1>3 DEF Grown
<1>5. m <= k /\ \A i \in 1..m : d[i] = a[i]
  BY <1>4
<1>. QED
  BY <1>1, <1>3, <1>5 DEF Grown

LEMMA GrownByOne ==
  ASSUME NEW S, NEW a \in Seq(S), NEW x \in S
  PROVE  Grown(a, Append(a, x))
<1>1. /\ Len(Append(a, x)) = Len(a) + 1
      /\ \A i \in 1..Len(a) : Append(a, x)[i] = a[i]
  BY AppendProperties
<1>2. PICK m \in Nat : m = Len(a)
  OBVIOUS
<1>3. m <= m + 1
  OBVIOUS
<1>. QED
  BY <1>1, <1>2, <1>3 DEF Grown

LEMMA BodiesCounted ==
  ASSUME NEW s \in Reader
  PROVE  Len(s.bodies) \in Nat
<1>1. s.bodies \in Seq(Seq(Bytes))
  BY DEF Reader
<1>. QED
  BY <1>1, LenProperties

LEMMA MoreItself ==
  ASSUME NEW s \in Reader, NEW t \in Reader, t.bodies = s.bodies,
         s.warnings <= t.warnings
  PROVE  More(s, t)
<1>1. PICK n \in Nat : n = Len(s.bodies)
  BY BodiesCounted
<1>2. Grown(s.bodies, s.bodies)
  BY <1>1 DEF Grown
<1>. QED
  BY <1>2 DEF More

LEMMA MoreTwice ==
  ASSUME NEW r \in Reader, NEW s \in Reader, NEW t \in Reader,
         More(r, s), More(s, t)
  PROVE  More(r, t)
<1>1. PICK a \in Seq(Seq(Bytes)) : a = r.bodies
  BY DEF Reader
<1>2. PICK b \in Seq(Seq(Bytes)) : b = s.bodies
  BY DEF Reader
<1>3. PICK d \in Seq(Seq(Bytes)) : d = t.bodies
  BY DEF Reader
<1>4. Grown(a, d)
  BY <1>1, <1>2, <1>3, GrownTwice DEF More
<1>5. r.warnings \in Nat /\ s.warnings \in Nat /\ t.warnings \in Nat
  BY DEF Reader
<1>6. r.warnings <= t.warnings
  BY <1>5 DEF More
<1>. QED
  BY <1>1, <1>3, <1>4, <1>6 DEF More

\* A complaint, and a step to another state.
LEMMA WarnGrows ==
  ASSUME NEW s \in Reader, NEW n \in Nat
  PROVE  More(s, Warn(s, n)) /\ Warn(s, n).warnings = s.warnings + n
<1>1. PICK w \in Nat : w = s.warnings + n
  BY DEF Reader
<1>2. Warn(s, n) = [s EXCEPT !.warnings = w]
  BY <1>1 DEF Warn
<1>3. Warn(s, n).warnings = w /\ Warn(s, n).bodies = s.bodies
  BY <1>2 DEF Reader
<1>4. s.warnings <= w
  BY <1>1 DEF Reader
<1>. QED
  BY <1>1, <1>3, <1>4, WarnTyped, MoreItself

LEMMA GotoGrows ==
  ASSUME NEW s \in Reader, NEW st \in ReaderStates
  PROVE  More(s, Goto(s, st))
<1>1. Goto(s, st).warnings = s.warnings /\ Goto(s, st).bodies = s.bodies
  BY DEF Goto, Reader
<1>2. s.warnings <= s.warnings
  BY DEF Reader
<1>. QED
  BY <1>1, <1>2, GotoTyped, MoreItself

LEMMA EndHeaderGrows ==
  ASSUME NEW s \in Reader
  PROVE  More(s, EndHeader(s))
<1>1. CASE s.field = <<>> /\ s.value = <<>>
  <2>1. s.warnings <= s.warnings
    BY DEF Reader
  <2>. QED
    BY <1>1, <2>1, MoreItself DEF EndHeader
<1>2. CASE ~(s.field = <<>> /\ s.value = <<>>)
  <2>1. PICK m \in Nat : m = HasHeader(s.field, s.value)
    BY Complaint
  <2>2. PICK invalid \in Nat :
          invalid = IF /\ IsLengthField(s.field)
                       /\ ~(/\ IsLengthField(s.field)
                            /\ ToInt(s.value) # NotANumber) THEN 1 ELSE 0
    OBVIOUS
  <2>3. PICK w \in Nat : w = s.warnings + invalid + m
    BY DEF Reader
  <2>4. EndHeader(s).warnings = w /\ EndHeader(s).bodies = s.bodies
    BY <1>2, <2>1, <2>2, <2>3 DEF EndHeader, Reader
  <2>5. s.warnings <= w
    BY <2>3 DEF Reader
  <2>. QED
    BY <2>4, <2>5, EndHeaderTyped, MoreItself
<1>. QED
  BY <1>1, <1>2

LEMMA EndBodyGrows ==
  ASSUME NEW s \in Reader
  PROVE  More(s, EndBody(s))
<1>1. s.bodies \in Seq(Seq(Bytes)) /\ s.body \in Seq(Bytes)
  BY DEF Reader
<1>2. EndBody(s).bodies = Append(s.bodies, s.body)
      /\ EndBody(s).warnings = s.warnings
  BY DEF EndBody, Reader
<1>3. s.warnings <= s.warnings
  BY DEF Reader
<1>. QED
  BY <1>1, <1>2, <1>3, GrownByOne DEF More

LEMMA FinishGrows ==
  ASSUME NEW s \in Reader
  PROVE  More(s, Finish(s))
<1>1. CASE s.state = "InBody" /\ s.size = NoLength
  <2>1. PICK g \in Reader : g = Goto(s, "PreHeader")
    BY GotoTyped DEF ReaderStates
  <2>2. PICK w \in Reader : w = Warn(g, 1)
    BY WarnTyped
  <2>3. More(s, w)
    BY <2>1, <2>2, GotoGrows, WarnGrows, MoreTwice DEF ReaderStates
  <2>4. Finish(s) = [w EXCEPT !.unsized = @ + 1]
    BY <1>1, <2>1, <2>2 DEF Finish
  <2>5. Finish(s).warnings = w.warnings /\ Finish(s).bodies = w.bodies
    BY <2>4 DEF Reader
  <2>. QED
    BY <2>3, <2>5 DEF More
<1>2. CASE s.state = "InBody" /\ s.size = 0
  BY <1>1, <1>2, EndBodyGrows DEF Finish
<1>3. CASE s.state # "InBody" \/ s.size \notin {NoLength, 0}
  <2>1. Finish(s) = s
    BY <1>3 DEF Finish
  <2>2. s.warnings <= s.warnings
    BY DEF Reader
  <2>. QED
    BY <2>1, <2>2, MoreItself
<1>. QED
  BY <1>1, <1>2, <1>3

LEMMA EndBlockGrows ==
  ASSUME NEW s \in Reader
  PROVE  More(s, EndBlock(s))
<1>1. PICK h \in Reader : h = EndHeader(s)
  BY EndHeaderTyped
<1>2. PICK g \in Reader : g = BeginsBody(s)
  BY BeginsBodyTyped
<1>3. g.warnings = h.warnings /\ g.bodies = h.bodies
  BY <1>1, <1>2 DEF BeginsBody, Goto, Reader
<1>4. More(s, g)
  BY <1>1, <1>3, EndHeaderGrows DEF More
<1>5. Finish(g) \in Reader /\ More(g, Finish(g))
  BY FinishTyped, FinishGrows
<1>. QED
  BY <1>2, <1>4, <1>5, MoreTwice, EndBlockIs

LEMMA FieldByteGrows ==
  ASSUME NEW s \in Reader, NEW b \in Bytes
  PROVE  More(s, FieldByte(s, b))
<1>1. PICK n \in Nat : n = IF b = SPACE THEN 1 ELSE 0
  OBVIOUS
<1>2. ASSUME NEW st \in ReaderStates, NEW k \in Nat
      PROVE  Warn(Goto(s, st), k) \in Reader /\ More(s, Warn(Goto(s, st), k))
  BY GotoTyped, WarnTyped, GotoGrows, WarnGrows, MoreTwice
<1>3. CASE b \in {LF, CR, COLON}
  BY <1>2, <1>3, GotoGrows DEF FieldByte, ReaderStates
<1>4. CASE b \notin {LF, CR, COLON}
  <2>1. PICK w \in Reader : w = Warn(Goto(s, "InHeaderField"), n)
    BY <1>2 DEF ReaderStates
  <2>2. FieldByte(s, b) = [w EXCEPT !.field = Append(@, b)]
    BY <1>1, <1>4, <2>1 DEF FieldByte
  <2>3. /\ FieldByte(s, b).warnings = w.warnings
        /\ FieldByte(s, b).bodies = w.bodies
    BY <2>2 DEF Reader
  <2>4. More(s, w)
    BY <1>2, <2>1 DEF ReaderStates
  <2>. QED
    BY <2>3, <2>4 DEF More
<1>. QED
  BY <1>3, <1>4

LEMMA ValueByteGrows ==
  ASSUME NEW s \in Reader, NEW b \in Bytes
  PROVE  More(s, ValueByte(s, b))
<1>1. CASE b = LF
  BY <1>1, GotoTyped, WarnTyped, GotoGrows, WarnGrows, MoreTwice
     DEF ValueByte, ReaderStates
<1>2. CASE b = CR /\ b # LF
  BY <1>2, GotoGrows DEF ValueByte, ReaderStates
<1>3. CASE b \notin {LF, CR}
  <2>1. PICK w \in Reader : w = Goto(s, "InHeaderValue")
    BY GotoTyped DEF ReaderStates
  <2>2. ValueByte(s, b) = [w EXCEPT !.value = Append(@, b)]
    BY <1>3, <2>1 DEF ValueByte
  <2>3. /\ ValueByte(s, b).warnings = w.warnings
        /\ ValueByte(s, b).bodies = w.bodies
    BY <2>2 DEF Reader
  <2>4. More(s, w)
    BY <2>1, GotoGrows DEF ReaderStates
  <2>. QED
    BY <2>3, <2>4 DEF More
<1>. QED
  BY <1>1, <1>2, <1>3

LEMMA PreHeaderByteGrows ==
  ASSUME NEW s \in Reader, NEW b \in Bytes
  PROVE  More(s, PreHeaderByte(s, b))
  BY FieldByteGrows, GotoTyped, WarnTyped, GotoGrows, WarnGrows, MoreTwice
     DEF PreHeaderByte, ReaderStates

LEMMA BodyByteGrows ==
  ASSUME NEW s \in Reader, NEW b \in Bytes
  PROVE  More(s, BodyByte(s, b))
<1>1. s.body \in Seq(Bytes)
  BY DEF Reader
<1>2. Append(s.body, b) \in Seq(Bytes)
  BY <1>1, AppendProperties
<1>3. PICK t \in Reader : t = [s EXCEPT !.body = Append(@, b)]
  BY <1>2 DEF Reader
<1>4. t.warnings = s.warnings /\ t.bodies = s.bodies
  BY <1>3 DEF Reader
<1>5. More(s, t)
  <2>1. s.warnings <= s.warnings
    BY DEF Reader
  <2>. QED
    BY <1>4, <2>1, MoreItself
<1>6. BodyByte(s, b) \in {t, EndBody(t)}
  BY <1>3 DEF BodyByte
<1>. QED
  BY <1>5, <1>6, EndBodyTyped, EndBodyGrows, MoreTwice

LEMMA ByteGrows ==
  ASSUME NEW s \in Reader, NEW b \in Bytes
  PROVE  More(s, ReadByte(s, b))
<1>. DEFINE Grows(t) == More(s, t)
<1>1. PICK w \in Reader : w = Warn(s, 1) /\ Grows(w)
  BY WarnTyped, WarnGrows
<1>2. /\ Grows(s) /\ Grows(FieldByte(s, b)) /\ Grows(ValueByte(s, b))
      /\ Grows(PreHeaderByte(s, b)) /\ Grows(BodyByte(s, b))
  <2>1. s.warnings <= s.warnings
    BY DEF Reader
  <2>. QED
    BY <2>1, MoreItself, FieldByteGrows, ValueByteGrows, PreHeaderByteGrows,
       BodyByteGrows
<1>3. ASSUME NEW r \in Reader, Grows(r)
      PROVE  /\ Grows(FieldByte(r, b)) /\ Grows(ValueByte(r, b))
             /\ Grows(FieldByte(EndHeader(r), b)) /\ Grows(EndBlock(r))
  <2>1. PICK h \in Reader : h = EndHeader(r)
    BY EndHeaderTyped
  <2>2. Grows(h)
    BY <1>3, <2>1, EndHeaderGrows, MoreTwice
  <2>3. Grows(FieldByte(h, b))
    BY <2>2, FieldByteTyped, FieldByteGrows, MoreTwice
  <2>4. Grows(FieldByte(r, b)) /\ Grows(ValueByte(r, b))
    BY <1>3, FieldByteTyped, FieldByteGrows, ValueByteTyped, ValueByteGrows,
       MoreTwice
  <2>5. Grows(EndBlock(r))
    BY <1>3, EndBlockTyped, EndBlockGrows, MoreTwice
  <2>. QED
    BY <2>1, <2>3, <2>4, <2>5
<1>4. \A st \in ReaderStates : Grows(Goto(s, st))
  BY GotoGrows
<1>5. Grows(PreHeaderByte(EndBody(s), b))
  BY EndBodyTyped, EndBodyGrows, PreHeaderByteTyped, PreHeaderByteGrows,
     MoreTwice
<1>6. Grows(ValueByte([s EXCEPT !.value = <<>>], b))
  <2>1. PICK r \in Reader : r = [s EXCEPT !.value = <<>>]
    BY EmptySeq DEF Reader
  <2>2. r.warnings = s.warnings /\ r.bodies = s.bodies
    BY <2>1 DEF Reader
  <2>3. s.warnings <= s.warnings
    BY DEF Reader
  <2>4. Grows(r)
    BY <2>2, <2>3, MoreItself
  <2>. QED
    BY <1>3, <2>1, <2>4
<1>. SUFFICES Grows(ReadByte(s, b))
  OBVIOUS
<1>. HIDE DEF Grows
<1>7. CASE s.state = "AfterCr"
  BY <1>1, <1>2, <1>3, <1>4, <1>7 DEF ReadByte, AfterCrByte, ReaderStates
<1>8. CASE s.state = "AfterCrLf"
  BY <1>1, <1>2, <1>3, <1>4, <1>8 DEF ReadByte, AfterCrLfByte, ReaderStates
<1>9. CASE s.state = "AfterCrLfCr"
  BY <1>1, <1>2, <1>3, <1>4, <1>9 DEF ReadByte, AfterCrLfCrByte, ReaderStates
<1>10. CASE s.state \notin {"AfterCr", "AfterCrLf", "AfterCrLfCr"}
  BY <1>2, <1>5, <1>6, <1>10 DEF ReadByte
<1>. QED
  BY <1>7, <1>8, <1>9, <1>10

LEMMA ReadGrows ==
  ASSUME NEW s \in Reader, NEW bytes \in Seq(Bytes)
  PROVE  More(s, ReadFrom(s, bytes))
<1>1. PICK g : /\ ReadFrom(s, bytes) = g[Len(bytes)] /\ g[0] = s
               /\ Steps(g, 0, bytes, Len(bytes))
  BY ReadingIs
<1>. DEFINE Grows(t) == t \in Reader /\ More(s, t)
            Bad == {i \in 0..Len(bytes) : ~Grows(g[i])}
<1>2. Grows(s)
  <2>1. s.warnings <= s.warnings
    BY DEF Reader
  <2>. QED
    BY <2>1, MoreItself
<1>3. Bad = {}
  <2>. SUFFICES ASSUME Bad # {} PROVE FALSE
    OBVIOUS
  <2>1. Bad \in SUBSET Nat
    OBVIOUS
  <2>2. PICK i \in Bad : \A j \in Bad : i <= j
    <3>. HIDE DEF Bad
    <3>. QED
      BY <2>1, Least
  <2>3. i \in 1..Len(bytes)
    BY <1>1, <1>2, <2>2
  <2>4. i - 1 \in 0..Len(bytes) /\ i - 1 \notin Bad
    BY <2>2, <2>3
  <2>5. 0 + (i - 1) = i - 1 /\ 0 + i = i /\ bytes[i] \in Bytes
    BY <2>3
  <2>6. g[i] = ReadByte(g[i - 1], bytes[i])
    BY <1>1, <2>3, <2>5 DEF Steps
  <2>7. PICK r \in Reader : r = g[i - 1] /\ More(s, r)
    BY <2>4
  <2>8. Grows(g[i])
    BY <2>5, <2>6, <2>7, ByteTyped, ByteGrows, MoreTwice
  <2>. QED
    BY <2>2, <2>8
<1>4. Len(bytes) \in 0..Len(bytes)
  OBVIOUS
<1>. QED
  BY <1>1, <1>3, <1>4

---------------------------------------------------------------------------
\* A message that sendMessage has framed.

\* Between messages, and in the header of one.
At(r, s, st, f, v) ==
  /\ r \in Reader /\ r.state = st /\ r.field = f /\ r.value = v
  /\ r.size = NoLength /\ r.body = <<>>
  /\ r.bodies = s.bodies /\ r.warnings = s.warnings
Between(s) == At(s, s, "PreHeader", <<>>, <<>>)
FrameOf(d) == <<LENGTH, COLON, SPACE, d, CR, LF, CR, LF>>

LEMMA NumberRead ==
  ASSUME NEW d \in Numbers, NumberValue[d] <= MaxInt
  PROVE  ToInt(<<d>>) = NumberValue[d] /\ NumberValue[d] \in Nat
<1>1. d # SPACE /\ NumberValue[d] \in Nat /\ MaxInt \in Nat
  BY NumbersAssumption DEF Others
<1>2. PICK v : v = <<d>>
  OBVIOUS
<1>3. DOMAIN v = {1} /\ v[1] = d /\ Len(v) = 1 /\ v \in Seq({d})
  BY <1>2
<1>4. {i \in DOMAIN v : v[i] # SPACE} = {1}
  BY <1>1, <1>3
<1>5. (CHOOSE i \in {1} : \A j \in {1} : i <= j) = 1
      /\ (CHOOSE i \in {1} : \A j \in {1} : j <= i) = 1
  OBVIOUS
<1>6. SubSeq(v, 1, 1) = v
  BY <1>3
<1>7. Trimmed(v) = v
  BY <1>4, <1>5, <1>6 DEF Trimmed
<1>. QED
  BY <1>1, <1>2, <1>3, <1>7 DEF ToInt, NumberIn, AsInt

\* The bytes of the header, one by one.
LEMMA NameRead ==
  ASSUME NEW s, Between(s)
  PROVE  At(ReadByte(s, LENGTH), s, "InHeaderField", <<LENGTH>>, <<>>)
<1>1. s \in Reader /\ s.state = "PreHeader" /\ s.field = <<>> /\ s.value = <<>>
      /\ s.size = NoLength /\ s.body = <<>> /\ s.warnings \in Nat
  BY DEF Between, At, Reader
<1>2. LENGTH \notin {LF, CR, COLON, SPACE} /\ LENGTH \in Bytes
  BY DEF LENGTH, LF, CR, COLON, SPACE, Bytes, Others
<1>3. ReadByte(s, LENGTH) = FieldByte(s, LENGTH)
  BY <1>1, <1>2 DEF ReadByte, PreHeaderByte
<1>4. FieldByte(s, LENGTH) =
        [Warn(Goto(s, "InHeaderField"), 0) EXCEPT !.field = Append(@, LENGTH)]
  BY <1>2 DEF FieldByte
<1>5. PICK t : t = Warn(Goto(s, "InHeaderField"), 0)
  OBVIOUS
<1>6. s.warnings + 0 = s.warnings
  BY <1>1
<1>7. /\ t.state = "InHeaderField" /\ t.field = <<>> /\ t.value = <<>>
      /\ t.size = NoLength /\ t.body = <<>>
      /\ t.bodies = s.bodies /\ t.warnings = s.warnings
  BY <1>1, <1>5, <1>6 DEF Warn, Goto, Reader
<1>8. t \in Reader
  BY <1>1, <1>5, GotoTyped, WarnTyped DEF ReaderStates
<1>9. PICK r : r = [t EXCEPT !.field = Append(@, LENGTH)]
  OBVIOUS
<1>10. Append(<<>>, LENGTH) = <<LENGTH>>
  OBVIOUS
<1>11. r = [t EXCEPT !.field = <<LENGTH>>]
  BY <1>7, <1>9, <1>10
<1>12. r \in Reader
  BY <1>1, <1>2, <1>3, <1>4, <1>5, <1>9, FieldByteTyped
<1>13. r = ReadByte(s, LENGTH)
  BY <1>3, <1>4, <1>5, <1>9
<1>14. /\ r.state = "InHeaderField" /\ r.field = <<LENGTH>> /\ r.value = <<>>
       /\ r.size = NoLength /\ r.body = <<>>
       /\ r.bodies = s.bodies /\ r.warnings = s.warnings
  BY <1>7, <1>8, <1>11 DEF Reader
<1>. QED
  BY <1>12, <1>13, <1>14 DEF At

LEMMA GoesOnAt ==
  ASSUME NEW s, NEW r, NEW st, NEW f, NEW v, At(r, s, st, f, v),
         NEW next \in ReaderStates
  PROVE  At(Goto(r, next), s, next, f, v)
<1>1. r \in Reader
  BY DEF At
<1>2. PICK t \in Reader : t = Goto(r, next)
  BY <1>1, GotoTyped
<1>3. /\ t.state = next /\ t.field = r.field /\ t.value = r.value
      /\ t.size = r.size /\ t.body = r.body
      /\ t.bodies = r.bodies /\ t.warnings = r.warnings
  BY <1>1, <1>2 DEF Goto, Reader
<1>. QED
  BY <1>2, <1>3 DEF At

LEMMA ColonRead ==
  ASSUME NEW s, NEW r, At(r, s, "InHeaderField", <<LENGTH>>, <<>>)
  PROVE  At(ReadByte(r, COLON), s, "HeaderValueSpace", <<LENGTH>>, <<>>)
<1>1. r \in Reader /\ r.state = "InHeaderField"
  BY DEF At
<1>2. ReadByte(r, COLON) = Goto(r, "HeaderValueSpace")
  BY <1>1 DEF ReadByte, FieldByte, COLON, LF, CR
<1>. QED
  BY <1>2, GoesOnAt DEF ReaderStates

LEMMA DigitsRead ==
  ASSUME NEW s, NEW r, At(r, s, "HeaderValueSpace", <<LENGTH>>, <<>>),
         NEW d \in Numbers
  PROVE  /\ ReadByte(r, SPACE) = r
         /\ At(ReadByte(r, d), s, "InHeaderValue", <<LENGTH>>, <<d>>)
<1>1. /\ r \in Reader /\ r.state = "HeaderValueSpace"
      /\ r.field = <<LENGTH>> /\ r.value = <<>>
      /\ r.size = NoLength /\ r.body = <<>>
      /\ r.bodies = s.bodies /\ r.warnings = s.warnings
  BY DEF At
<1>2. ReadByte(r, SPACE) = r
  BY <1>1 DEF ReadByte
<1>3. d \notin {SPACE, LF, CR} /\ d \in Bytes
  BY NumbersAssumption DEF Others, Bytes
<1>4. [r EXCEPT !.value = <<>>] = r
  BY <1>1 DEF Reader
<1>5. ReadByte(r, d) = [Goto(r, "InHeaderValue") EXCEPT !.value = Append(@, d)]
  BY <1>1, <1>3, <1>4 DEF ReadByte, ValueByte
<1>6. ReadByte(r, d) \in Reader
  BY <1>1, <1>3, ByteTyped
<1>7. PICK t : t = Goto(r, "InHeaderValue")
  OBVIOUS
<1>8. /\ t \in Reader /\ t.state = "InHeaderValue"
      /\ t.field = <<LENGTH>> /\ t.value = <<>>
      /\ t.size = NoLength /\ t.body = <<>>
      /\ t.bodies = s.bodies /\ t.warnings = s.warnings
  <2>1. At(t, s, "InHeaderValue", <<LENGTH>>, <<>>)
    BY <1>7, GoesOnAt DEF ReaderStates
  <2>. QED
    BY <2>1 DEF At
<1>9. Append(<<>>, d) = <<d>>
  OBVIOUS
<1>10. ReadByte(r, d) = [t EXCEPT !.value = <<d>>]
  BY <1>5, <1>7, <1>8, <1>9
<1>11. PICK u : u = [t EXCEPT !.value = <<d>>]
  OBVIOUS
<1>12. /\ u.state = "InHeaderValue" /\ u.field = <<LENGTH>> /\ u.value = <<d>>
       /\ u.size = NoLength /\ u.body = <<>>
       /\ u.bodies = s.bodies /\ u.warnings = s.warnings
  BY <1>8, <1>11 DEF Reader
<1>. QED
  BY <1>2, <1>6, <1>10, <1>11, <1>12 DEF At

LEMMA LineEndsRead ==
  ASSUME NEW s, NEW d, NEW r,
         At(r, s, "InHeaderValue", <<LENGTH>>, <<d>>)
  PROVE  At(ReadByte(ReadByte(ReadByte(r, CR), LF), CR), s,
            "AfterCrLfCr", <<LENGTH>>, <<d>>)
<1>1. r \in Reader /\ r.state = "InHeaderValue"
  BY DEF At
<1>2. PICK t : t = ReadByte(r, CR)
  OBVIOUS
<1>3. t = Goto(r, "AfterCr")
  BY <1>1, <1>2 DEF ReadByte, ValueByte, CR, LF
<1>4. At(t, s, "AfterCr", <<LENGTH>>, <<d>>)
  BY <1>3, GoesOnAt DEF ReaderStates
<1>5. PICK u : u = ReadByte(t, LF)
  OBVIOUS
<1>6. u = Goto(t, "AfterCrLf")
  BY <1>4, <1>5 DEF At, ReadByte, AfterCrByte
<1>7. At(u, s, "AfterCrLf", <<LENGTH>>, <<d>>)
  BY <1>4, <1>6, GoesOnAt DEF ReaderStates
<1>8. ReadByte(u, CR) = Goto(u, "AfterCrLfCr")
  BY <1>7 DEF At, ReadByte, AfterCrLfByte, CR, LF
<1>. QED
  BY <1>2, <1>5, <1>7, <1>8, GoesOnAt DEF ReaderStates

\* The header is complete: its body begins.
LEMMA FrameEnds ==
  ASSUME NEW s, NEW d \in Numbers, NumberValue[d] <= MaxInt, NEW r,
         At(r, s, "AfterCrLfCr", <<LENGTH>>, <<d>>)
  PROVE  LET t == BeginsBody(r)
         IN  /\ ReadByte(r, LF) = Finish(t) /\ t \in Reader
             /\ t.state = "InBody" /\ t.size = NumberValue[d]
             /\ t.field = <<>> /\ t.value = <<>> /\ t.body = <<>>
             /\ t.bodies = s.bodies /\ t.warnings = s.warnings
<1>1. /\ r \in Reader /\ r.state = "AfterCrLfCr"
      /\ r.field = <<LENGTH>> /\ r.value = <<d>> /\ r.body = <<>>
      /\ r.bodies = s.bodies /\ r.warnings = s.warnings /\ r.warnings \in Nat
  BY DEF At, Reader
<1>2. ReadByte(r, LF) = Finish(BeginsBody(r)) /\ BeginsBody(r) \in Reader
  BY <1>1, EndBlockIs, BeginsBodyTyped DEF ReadByte, AfterCrLfCrByte
<1>3. PICK n \in Nat : n = NumberValue[d] /\ n = ToInt(<<d>>)
  BY NumberRead
<1>4. IsLengthField(<<LENGTH>>) /\ n # NotANumber
      /\ HasHeader(<<LENGTH>>, <<d>>) = 0 /\ <<LENGTH>> # <<>>
  BY NumbersAssumption DEF IsLengthField, NotANumber, HasHeader
<1>5. r.warnings + 0 + 0 = r.warnings
  BY <1>1
<1>6. PICK h : h = EndHeader(r)
  OBVIOUS
<1>7. h = [r EXCEPT !.headers = Append(@, <<<<LENGTH>>, <<d>>>>), !.size = n,
                    !.warnings = r.warnings, !.field = <<>>, !.value = <<>>]
  BY <1>1, <1>3, <1>4, <1>5, <1>6 DEF EndHeader
<1>8. /\ h.size = n /\ h.field = <<>> /\ h.value = <<>> /\ h.body = <<>>
      /\ h.bodies = s.bodies /\ h.warnings = s.warnings /\ h \in Reader
  BY <1>1, <1>6, <1>7, EndHeaderTyped DEF Reader
<1>9. PICK k \in Nat : k = h.blocks + 1
  BY <1>8 DEF Reader
<1>10. BeginsBody(r) = [[h EXCEPT !.blocks = k] EXCEPT !.state = "InBody"]
  BY <1>6, <1>9 DEF BeginsBody, Goto
<1>. QED
  BY <1>2, <1>3, <1>8, <1>10 DEF Reader

\* The header from its first to its last byte, and all but the last.
LEMMA FrameRead ==
  ASSUME NEW s, Between(s), NEW d \in Numbers, NumberValue[d] <= MaxInt
  PROVE  \E t \in Reader :
           /\ ReadFrom(s, FrameOf(d)) = Finish(t)
           /\ ReadFrom(s, SubSeq(FrameOf(d), 1, 7)).bodies = s.bodies
           /\ t.state = "InBody" /\ t.size = NumberValue[d]
           /\ t.field = <<>> /\ t.value = <<>> /\ t.body = <<>>
           /\ t.bodies = s.bodies /\ t.warnings = s.warnings
<1>1. PICK w : w = FrameOf(d)
  OBVIOUS
<1>2. PICK v : v = <<LENGTH, COLON, SPACE, d, CR, LF, CR>>
  OBVIOUS
<1>3. /\ LENGTH \in Bytes /\ COLON \in Bytes /\ SPACE \in Bytes
      /\ d \in Bytes /\ CR \in Bytes /\ LF \in Bytes
  BY DEF Bytes, Others
<1>4. /\ w \in Seq(Bytes) /\ Len(w) = 8
      /\ w[1] = LENGTH /\ w[2] = COLON /\ w[3] = SPACE /\ w[4] = d
      /\ w[5] = CR /\ w[6] = LF /\ w[7] = CR /\ w[8] = LF
  BY <1>1, <1>3 DEF FrameOf
<1>5. /\ v \in Seq(Bytes) /\ Len(v) = 7
      /\ v[1] = LENGTH /\ v[2] = COLON /\ v[3] = SPACE /\ v[4] = d
      /\ v[5] = CR /\ v[6] = LF /\ v[7] = CR
  BY <1>2, <1>3
<1>6. v = SubSeq(w, 1, 7)
  <2>1. /\ SubSeq(w, 1, 7) \in Seq(Bytes) /\ Len(SubSeq(w, 1, 7)) = 7
        /\ \A i \in 1..7 : SubSeq(w, 1, 7)[i] = w[i]
    <3>1. \A i \in 1..7 : w[i] \in Bytes
      <4>1. \A i \in 1..Len(w) : w[i] \in Bytes
        BY <1>4, ElementOfSeq
      <4>. QED
        BY <1>4, <4>1
    <3>. QED
      BY <3>1, SubSeqProperties
  <2>2. \A i \in 1..7 : v[i] = w[i]
    BY <1>4, <1>5
  <2>. QED
    BY <1>5, <2>1, <2>2, SeqEqual
<1>7. PICK a : a = ReadByte(s, LENGTH)
  OBVIOUS
<1>8. PICK b : b = ReadByte(a, COLON)
  OBVIOUS
<1>9. PICK e : e = ReadByte(b, d)
  OBVIOUS
<1>10. PICK f : f = ReadByte(e, CR)
  OBVIOUS
<1>11. PICK g : g = ReadByte(f, LF)
  OBVIOUS
<1>12. PICK h : h = ReadByte(g, CR)
  OBVIOUS
<1>13. At(a, s, "InHeaderField", <<LENGTH>>, <<>>)
  BY <1>7, NameRead
<1>14. At(b, s, "HeaderValueSpace", <<LENGTH>>, <<>>)
  BY <1>8, <1>13, ColonRead
<1>15. At(e, s, "InHeaderValue", <<LENGTH>>, <<d>>) /\ ReadByte(b, SPACE) = b
  BY <1>9, <1>14, DigitsRead
<1>16. At(h, s, "AfterCrLfCr", <<LENGTH>>, <<d>>)
  BY <1>10, <1>11, <1>12, <1>15, LineEndsRead
<1>17. ASSUME NEW x \in Seq(Bytes), Len(x) >= 7,
              x[1] = LENGTH, x[2] = COLON, x[3] = SPACE, x[4] = d,
              x[5] = CR, x[6] = LF, x[7] = CR
       PROVE  ReadFrom(s, x) = ReadFrom(h, Drop(x, 7))
  <2>1. PICK n \in Nat : n = Len(x) /\ n >= 7
    BY <1>17
  <2>2. /\ 0 \in 0..(n - 1) /\ 1 \in 0..(n - 1) /\ 2 \in 0..(n - 1)
        /\ 3 \in 0..(n - 1) /\ 4 \in 0..(n - 1) /\ 5 \in 0..(n - 1)
        /\ 6 \in 0..(n - 1)
    BY <2>1
  <2>3. /\ 0 + 1 = 1 /\ 1 + 1 = 2 /\ 2 + 1 = 3 /\ 3 + 1 = 4
        /\ 4 + 1 = 5 /\ 5 + 1 = 6 /\ 6 + 1 = 7
    OBVIOUS
  <2>4. ReadFrom(s, Drop(x, 0)) = ReadFrom(a, Drop(x, 1))
    BY <1>7, <1>17, <2>1, <2>2, <2>3, ReadByteThen
  <2>5. ReadFrom(a, Drop(x, 1)) = ReadFrom(b, Drop(x, 2))
    BY <1>8, <1>17, <2>1, <2>2, <2>3, ReadByteThen
  <2>6. ReadFrom(b, Drop(x, 2)) = ReadFrom(b, Drop(x, 3))
    BY <1>15, <1>17, <2>1, <2>2, <2>3, ReadByteThen
  <2>7. ReadFrom(b, Drop(x, 3)) = ReadFrom(e, Drop(x, 4))
    BY <1>9, <1>17, <2>1, <2>2, <2>3, ReadByteThen
  <2>8. ReadFrom(e, Drop(x, 4)) = ReadFrom(f, Drop(x, 5))
    BY <1>10, <1>17, <2>1, <2>2, <2>3, ReadByteThen
  <2>9. ReadFrom(f, Drop(x, 5)) = ReadFrom(g, Drop(x, 6))
    BY <1>11, <1>17, <2>1, <2>2, <2>3, ReadByteThen
  <2>10. ReadFrom(g, Drop(x, 6)) = ReadFrom(h, Drop(x, 7))
    BY <1>12, <1>17, <2>1, <2>2, <2>3, ReadByteThen
  <2>11. Drop(x, 0) = x
    BY DropAll
  <2>. QED
    BY <2>4, <2>5, <2>6, <2>7, <2>8, <2>9, <2>10, <2>11
<1>18. ReadFrom(s, v) = h
  <2>1. ReadFrom(s, v) = ReadFrom(h, Drop(v, 7))
    <3>1. 7 >= 7
      OBVIOUS
    <3>. QED
      BY <1>5, <1>17, <3>1
  <2>2. Drop(v, 7) = <<>>
    BY <1>5, DropAll
  <2>. QED
    BY <2>1, <2>2, ReadNothing
<1>19. ReadFrom(s, w) = ReadByte(h, LF)
  <2>1. ReadFrom(s, w) = ReadFrom(h, Drop(w, 7))
    <3>1. 8 >= 7
      OBVIOUS
    <3>. QED
      BY <1>4, <1>17, <3>1
  <2>2. ReadFrom(h, Drop(w, 7)) = ReadFrom(ReadByte(h, LF), Drop(w, 8))
    <3>1. 7 \in 0..(Len(w) - 1) /\ 7 + 1 = 8
      BY <1>4
    <3>. QED
      BY <1>4, <3>1, ReadByteThen
  <2>3. Drop(w, 8) = <<>>
    BY <1>4, DropAll
  <2>. QED
    BY <2>1, <2>2, <2>3, ReadNothing
<1>20. PICK t : t = BeginsBody(h)
  OBVIOUS
<1>21. /\ ReadByte(h, LF) = Finish(t) /\ t \in Reader
       /\ t.state = "InBody" /\ t.size = NumberValue[d]
       /\ t.field = <<>> /\ t.value = <<>> /\ t.body = <<>>
       /\ t.bodies = s.bodies /\ t.warnings = s.warnings
  BY <1>16, <1>20, FrameEnds
<1>22. h.bodies = s.bodies
  BY <1>16 DEF At
<1>. QED
  BY <1>1, <1>6, <1>18, <1>19, <1>21, <1>22

\* The whole message; and that nothing is handed on before its last byte.
LEMMA MessageRead ==
  ASSUME NEW s, Between(s), NEW content \in Seq(Bytes), NEW d \in Numbers,
         NumberValue[d] = Len(content), Len(content) <= MaxInt
  PROVE  LET w == FrameOf(d) \o content
             r == ReadFrom(s, w)
         IN  /\ w \in Seq(Bytes) /\ Len(w) = 8 + Len(content)
             /\ Between(r) /\ r.bodies = Append(s.bodies, content)
             /\ r.warnings = s.warnings
             /\ ReadFrom(s, SubSeq(w, 1, Len(w) - 1)).bodies = s.bodies
<1>1. PICK w : w = FrameOf(d) \o content
  OBVIOUS
<1>2. PICK frame \in Seq(Bytes) : frame = FrameOf(d)
  <2>1. /\ LENGTH \in Bytes /\ COLON \in Bytes /\ SPACE \in Bytes
        /\ d \in Bytes /\ CR \in Bytes /\ LF \in Bytes
    BY DEF Bytes, Others
  <2>2. FrameOf(d) \in Seq(Bytes)
    BY <2>1 DEF FrameOf
  <2>. QED
    BY <2>2
<1>3. Len(frame) = 8
  BY <1>2 DEF FrameOf
<1>4. PICK n \in Nat : /\ n = Len(content) /\ n = NumberValue[d]
                     /\ NumberValue[d] <= MaxInt
  OBVIOUS
<1>5. w \in Seq(Bytes) /\ Len(w) = 8 + n /\ w = frame \o content
  <2>1. /\ frame \o content \in Seq(Bytes)
        /\ Len(frame \o content) = Len(frame) + Len(content)
    BY ConcatProperties
  <2>. QED
    BY <1>1, <1>2, <1>3, <1>4, <2>1
<1>6. PICK t \in Reader :
        /\ ReadFrom(s, frame) = Finish(t)
        /\ ReadFrom(s, SubSeq(frame, 1, 7)).bodies = s.bodies
        /\ t.state = "InBody" /\ t.size = n
        /\ t.field = <<>> /\ t.value = <<>> /\ t.body = <<>>
        /\ t.bodies = s.bodies /\ t.warnings = s.warnings
  BY <1>2, <1>4, FrameRead
<1>7. ReadFrom(s, w) = ReadFrom(Finish(t), content)
  BY <1>5, <1>6, ReadOn
<1>8. n # NoLength
  BY DEF NoLength
<1>9. ASSUME NEW u \in Reader, u.body = content, u.field = <<>>,
             u.value = <<>>, u.bodies = s.bodies, u.warnings = s.warnings
      PROVE  /\ Between(EndBody(u)) /\ EndBody(u).warnings = s.warnings
             /\ EndBody(u).bodies = Append(s.bodies, content)
  <2>1. PICK e \in Reader : e = EndBody(u)
    BY EndBodyTyped
  <2>2. /\ e.state = "PreHeader" /\ e.field = <<>> /\ e.value = <<>>
        /\ e.size = NoLength /\ e.body = <<>> /\ e.warnings = s.warnings
        /\ e.bodies = Append(s.bodies, content)
    BY <1>9, <2>1 DEF EndBody, Reader
  <2>. QED
    BY <2>1, <2>2 DEF Between, At
<1>10. CASE n = 0
  <2>1. content = <<>>
    BY <1>4, <1>10, EmptySeq
  <2>2. Finish(t) = EndBody(t)
    BY <1>6, <1>8, <1>10 DEF Finish
  <2>3. w = frame /\ Len(w) - 1 = 7
    BY <1>3, <1>5, <1>10, <2>1, ConcatEmptySeq
  <2>4. ReadFrom(s, w) = EndBody(t)
    BY <1>6, <2>2, <2>3
  <2>. QED
    BY <1>1, <1>4, <1>5, <1>6, <1>9, <2>1, <2>3, <2>4
<1>11. CASE n > 0
  <2>1. Finish(t) = t
    BY <1>6, <1>8, <1>11 DEF Finish
  <2>2. Len(t.body) = 0
    BY <1>6
  <2>3. ReadFrom(t, content) = EndBody([t EXCEPT !.body = t.body \o content])
    <3>1. Len(content) > 0 /\ Len(t.body) + Len(content) = t.size
      BY <1>4, <1>6, <1>11, <2>2
    <3>. QED
      BY <1>6, <3>1, BodyRunEnds
  <2>4. PICK u : u = [t EXCEPT !.body = t.body \o content]
    OBVIOUS
  <2>5. t.body \o content = content
    BY <1>6, ConcatEmptySeq
  <2>6. /\ u \in Reader /\ u.body = content /\ u.field = <<>>
        /\ u.value = <<>> /\ u.bodies = s.bodies /\ u.warnings = s.warnings
    BY <1>6, <2>4, <2>5 DEF Reader
  <2>7. ReadFrom(s, w) = EndBody(u)
    BY <1>7, <2>1, <2>3, <2>4
  <2>8. PICK part \in Seq(Bytes) : part = SubSeq(content, 1, n - 1)
                                    /\ Len(part) = n - 1
    <3>1. n - 1 \in 0..Len(content)
      BY <1>4, <1>11
    <3>2. /\ (n - 1) - 0 = n - 1 /\ 0 + 1 = 1 /\ 0 \in 0..Len(content)
          /\ n - 1 \in 0..Len(content)
      BY <1>4, <3>1
    <3>3. /\ SubSeq(content, 0 + 1, n - 1) \in Seq(Bytes)
          /\ Len(SubSeq(content, 0 + 1, n - 1)) = (n - 1) - 0
      BY <3>2, Taking
    <3>. QED
      BY <3>2, <3>3
  <2>9. SubSeq(w, 1, Len(w) - 1) = frame \o part
    <3>1. PICK m \in 0..Len(w) : m = Len(w) - 1 /\ m = 8 + (n - 1)
      BY <1>4, <1>5, <1>11
    <3>2. /\ SubSeq(w, 1, m) \in Seq(Bytes) /\ Len(SubSeq(w, 1, m)) = m
          /\ \A i \in 1..m : SubSeq(w, 1, m)[i] = w[i]
      <4>1. \A i \in 1..m : SubSeq(w, 0 + 1, m)[i] = w[0 + i]
        <5>1. 0 \in 0..Len(w) /\ m \in 0..Len(w) /\ m - 0 = m
          BY <3>1
        <5>. QED
          BY <1>5, <5>1, Taking
      <4>2. SubSeq(w, 0 + 1, m) \in Seq(Bytes) /\ Len(SubSeq(w, 0 + 1, m)) = m
        <5>1. 0 \in 0..Len(w) /\ m \in 0..Len(w) /\ m - 0 = m
          BY <3>1
        <5>. QED
          BY <1>5, <5>1, Taking
      <4>. QED
        BY <4>1, <4>2
    <3>3. /\ frame \o part \in Seq(Bytes) /\ Len(frame \o part) = m
          /\ \A i \in 1..m : (frame \o part)[i] =
                               IF i <= 8 THEN frame[i] ELSE part[i - 8]
      <4>1. /\ frame \o part \in Seq(Bytes)
            /\ Len(frame \o part) = Len(frame) + Len(part)
            /\ \A i \in 1..(Len(frame) + Len(part)) : (frame \o part)[i] =
                 IF i <= Len(frame) THEN frame[i] ELSE part[i - Len(frame)]
        BY ConcatProperties
      <4>. QED
        BY <1>3, <2>8, <3>1, <4>1
    <3>4. \A i \in 1..(8 + n) : w[i] = IF i <= 8 THEN frame[i]
                                       ELSE content[i - 8]
      BY <1>3, <1>4, <1>5, ConcatProperties
    <3>5. \A i \in 1..(n - 1) : part[i] = content[i]
      <4>1. \A i \in 1..((n - 1) - 0) :
              SubSeq(content, 0 + 1, n - 1)[i] = content[0 + i]
        <5>1. 0 \in 0..Len(content) /\ n - 1 \in 0..Len(content)
          BY <1>4, <1>11
        <5>. QED
          BY <5>1, Taking
      <4>. QED
        BY <2>8, <4>1
    <3>6. ASSUME NEW i \in 1..m
          PROVE  SubSeq(w, 1, m)[i] = (frame \o part)[i]
      <4>1. i \in 1..(8 + n) /\ (~(i <= 8) => i - 8 \in 1..(n - 1))
        BY <3>1
      <4>. QED
        BY <3>2, <3>3, <3>4, <3>5, <4>1
    <3>7. SubSeq(w, 1, m) = frame \o part
      BY <3>2, <3>3, <3>6, SeqEqual
    <3>. QED
      BY <3>1, <3>7
  <2>10. ReadFrom(s, frame \o part) = ReadFrom(t, part)
    BY <1>6, <2>1, ReadOn
  <2>11. ReadFrom(t, part) = [t EXCEPT !.body = t.body \o part]
    <3>1. Len(t.body) + Len(part) < t.size
      BY <1>6, <1>11, <2>2, <2>8
    <3>. QED
      BY <1>6, <3>1, BodyRun
  <2>12. ReadFrom(t, part).bodies = s.bodies
    BY <1>6, <2>11 DEF Reader
  <2>. QED
    BY <1>1, <1>4, <1>5, <1>9, <2>6, <2>7, <2>9, <2>10, <2>12
<1>. QED
  BY <1>4, <1>10, <1>11
=============================================================================
