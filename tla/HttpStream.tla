----------------------------- MODULE HttpStream -----------------------------
(***************************************************************************)
(* Byte streams of headers and bodies, and what they mean: the reference   *)
(* QHttpMessageStreamParser is compared with.  Read(bytes) consumes one    *)
(* byte after the other and knows nothing of chunks, buffers or positions. *)
(* A body begins after an empty line and is as long as the last valid      *)
(* Content-Length header says; without one there is no body.               *)
(***************************************************************************)
EXTENDS Integers, Sequences

CONSTANTS
  Numbers,     \* numbers, each of them in the place of its digits
  NumberValue, \* what they are
  MaxInt       \* INT_MAX

\* The bytes the parser and the transport tell apart.  A tab is a space to
\* them; LENGTH and TYPE stand for the field names Content-Length and
\* Content-Type, in any case, UTF8 for either spelling of that encoding.
CR == "cr"
LF == "lf"
COLON == ":"
SPACE == " "
MINUS == "-"
LENGTH == "L"
TYPE == "T"
UTF8 == "u"
Letters == {"x", "y"}
Others == {CR, LF, COLON, SPACE, MINUS, LENGTH, TYPE, UTF8} \cup Letters
Bytes == Others \cup Numbers

ASSUME NumbersAssumption ==
  /\ Numbers \cap Others = {}
  /\ NumberValue \in [Numbers -> Nat]
  /\ MaxInt \in Nat

\* QByteArray::toInt: spaces around the number do not count, and one that is
\* no int is none.
NotANumber == -MaxInt - 2
Trimmed(value) ==
  LET used == {i \in DOMAIN value : value[i] # SPACE}
      first == CHOOSE i \in used : \A j \in used : i <= j
      last == CHOOSE i \in used : \A j \in used : j <= i
  IN  IF used = {} THEN <<>> ELSE SubSeq(value, first, last)
NumberIn(t) ==
  IF Len(t) = 1 /\ t[1] \in Numbers THEN NumberValue[t[1]]
  ELSE IF Len(t) = 2 /\ t[1] = MINUS /\ t[2] \in Numbers
       THEN -NumberValue[t[2]] ELSE NotANumber
AsInt(n) == IF n \in -MaxInt - 1..MaxInt THEN n ELSE NotANumber
ToInt(value) == AsInt(NumberIn(Trimmed(value)))

IsLengthField(field) == field = <<LENGTH>>
NoLength == -1

\* How often the transport complains of a header: of every one but
\* Content-Length and a Content-Type with the value utf-8.
HasHeader(name, content) ==
  IF IsLengthField(name) \/ <<name, content>> = <<<<TYPE>>, <<UTF8>>>>
  THEN 0 ELSE 1

---------------------------------------------------------------------------
\* The reader.  Besides the parser's states it has "PreSpace": spaces before
\* a header are being skipped.

Start == [state |-> "PreHeader", field |-> <<>>, value |-> <<>>,
          size |-> NoLength, body |-> <<>>, headers |-> <<>>, bodies |-> <<>>,
          warnings |-> 0, blocks |-> 0, unsized |-> 0]

Warn(s, n) == [s EXCEPT !.warnings = @ + n]
Goto(s, state) == [s EXCEPT !.state = state]

\* The header read so far is complete.
EndHeader(s) ==
  IF s.field = <<>> /\ s.value = <<>> THEN s
  ELSE LET n == ToInt(s.value)
           valid == IsLengthField(s.field) /\ n # NotANumber
           invalid == IF IsLengthField(s.field) /\ ~valid THEN 1 ELSE 0
       IN  [s EXCEPT !.headers = Append(@, <<s.field, s.value>>),
                     !.size = IF valid THEN n ELSE @,
                     !.warnings = @ + invalid + HasHeader(s.field, s.value),
                     !.field = <<>>, !.value = <<>>]

\* The body read so far is complete.
EndBody(s) ==
  [s EXCEPT !.bodies = Append(@, s.body), !.body = <<>>, !.size = NoLength,
            !.state = "PreHeader"]

\* The header block is complete.  A negative length is an empty body that is
\* noticed with the next byte.
EndBlock(s) ==
  LET h == [EndHeader(s) EXCEPT !.blocks = @ + 1]
  IN  IF h.size = NoLength
      THEN [Warn(Goto(h, "PreHeader"), 1) EXCEPT !.unsized = @ + 1]
      ELSE IF h.size = 0 THEN EndBody(h) ELSE Goto(h, "InBody")

FieldByte(s, c) ==
  IF c = LF THEN Warn(Goto(s, "AfterCrLf"), 1)
  ELSE IF c = CR THEN Warn(Goto(s, "AfterCr"), 1)
  ELSE IF c = COLON THEN Goto(s, "HeaderValueSpace")
  ELSE [Warn(Goto(s, "InHeaderField"), IF c = SPACE THEN 1 ELSE 0)
          EXCEPT !.field = Append(@, c)]

ValueByte(s, c) ==
  IF c = LF THEN Warn(Goto(s, "AfterCrLf"), 1)
  ELSE IF c = CR THEN Goto(s, "AfterCr")
  ELSE [Goto(s, "InHeaderValue") EXCEPT !.value = Append(@, c)]

BodyByte(s, c) ==
  LET b == [s EXCEPT !.body = Append(@, c)]
  IN  IF Len(b.body) = b.size THEN EndBody(b) ELSE b

PreHeaderByte(s, c) ==
  IF c = LF THEN Warn(Goto(s, "AfterCrLf"), 1)
  ELSE IF c = CR THEN Goto(s, "AfterCr")
  ELSE IF c = SPACE THEN Warn(Goto(s, "PreSpace"), 1)
  ELSE FieldByte(s, c)

AfterCrByte(s, c) ==
  IF c = LF THEN Goto(s, "AfterCrLf")
  ELSE IF c = CR THEN EndBlock(Warn(s, 1))
  ELSE IF c = SPACE THEN ValueByte(Warn(s, 1), c)
  ELSE FieldByte(EndHeader(Warn(s, 1)), c)

AfterCrLfByte(s, c) ==
  IF c = LF THEN EndBlock(Warn(s, 1))
  ELSE IF c = CR THEN Goto(s, "AfterCrLfCr")
  ELSE IF c = SPACE THEN ValueByte(s, c)
  ELSE FieldByte(EndHeader(s), c)

AfterCrLfCrByte(s, c) ==
  IF c = LF THEN EndBlock(s) ELSE FieldByte(EndHeader(Warn(s, 1)), c)

ReadByte(s, c) ==
  IF s.state = "PreHeader" THEN PreHeaderByte(s, c)
  ELSE IF s.state = "PreSpace" THEN IF c = SPACE THEN s ELSE FieldByte(s, c)
  ELSE IF s.state = "InHeaderField" THEN FieldByte(s, c)
  ELSE IF s.state = "HeaderValueSpace"
       THEN IF c = SPACE THEN s ELSE ValueByte([s EXCEPT !.value = <<>>], c)
  ELSE IF s.state = "InHeaderValue" THEN ValueByte(s, c)
  ELSE IF s.state = "AfterCr" THEN AfterCrByte(s, c)
  ELSE IF s.state = "AfterCrLf" THEN AfterCrLfByte(s, c)
  ELSE IF s.state = "AfterCrLfCr" THEN AfterCrLfCrByte(s, c)
  ELSE IF s.size < 0 THEN PreHeaderByte(EndBody(s), c) ELSE BodyByte(s, c)

\* What a reader in state s makes of the bytes, and one that begins.
ReadFrom(s, bytes) ==
  LET after[n \in 0..Len(bytes)] ==
        IF n = 0 THEN s ELSE ReadByte(after[n - 1], bytes[n])
  IN  after[Len(bytes)]
Read(bytes) == ReadFrom(Start, bytes)
=============================================================================
