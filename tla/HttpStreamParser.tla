-------------------------- MODULE HttpStreamParser --------------------------
(***************************************************************************)
(* QHttpMessageStreamParser (src/jsonrpc/qhttpmessagestreamparser.cpp) as  *)
(* QLanguageServerJsonRpcTransport uses it: chunks of a byte stream go in  *)
(* through receiveData, headers, bodies and complaints come out through    *)
(* callbacks.  One action is one iteration of the loop of receiveData.     *)
(*                                                                         *)
(* A chunk lives in a local variable of receiveData while the body handler *)
(* runs, and the handler may run an event loop that calls receiveData with *)
(* the next chunk: the calls in progress are on an explicit stack.         *)
(***************************************************************************)
EXTENDS HttpStream, FiniteSets

CONSTANTS
  Feeds, \* what a peer may send, see Feed
  Modes  \* the modes the parser is created in

\* QLanguageServerJsonRpcTransport::sendMessage: header and body in one go, or
\* nothing while the transport has no data handler.
Message(content) ==
  <<LENGTH, COLON, SPACE, CHOOSE d \in Numbers : NumberValue[d] = Len(content),
    CR, LF, CR, LF>> \o content
SendMessage(dataHandler, content) ==
  IF dataHandler THEN Message(content) ELSE <<>>

\* The bytes of a stream and, if it is what a transport sends, the bodies that
\* found a data handler and where each of their messages ends; the positions
\* at which a chunk may end; whether the body handler runs an event loop.
Feed == [stream : Seq(Bytes), messages : Seq(Seq(Bytes)), ends : Seq(Nat),
         cuts : SUBSET Nat, nested : BOOLEAN]
EndOf(f, n) == IF n = 0 THEN 0 ELSE f.ends[n]

\* The stream is that of the messages, one after the other.  Each of them is
\* as long as an int can say: the sender announces any length, the parser
\* takes a longer one for no number.
Framed(f) ==
  /\ Len(f.ends) = Len(f.messages)
  /\ f.messages # <<>> => EndOf(f, Len(f.messages)) = Len(f.stream)
  /\ \A n \in DOMAIN f.messages :
       LET begin == EndOf(f, n - 1)
           message == Message(f.messages[n])
       IN  /\ Len(f.messages[n]) <= MaxInt
           /\ \E d \in Numbers : NumberValue[d] = Len(f.messages[n])
           /\ EndOf(f, n) = begin + Len(message)
           /\ SubSeq(f.stream, begin + 1, EndOf(f, n)) = message

ASSUME FeedsAssumption ==
  /\ Feeds \subseteq Feed
  /\ \A f \in Feeds : /\ f.cuts \subseteq 0..Len(f.stream)
                      /\ Len(f.stream) \in f.cuts
                      /\ Framed(f)
  /\ Modes \subseteq {"BUFFERED", "UNBUFFERED"}

VARIABLES
  feed,        \* the peer
  given,       \* bytes of feed.stream handed to receiveData
  mode,        \* m_mode
  calls,       \* the calls of receiveData in progress, the innermost first
  state,       \* m_state
  field,       \* m_currentHeaderField
  value,       \* m_currentHeaderValue
  packet,      \* m_currentPacket
  packetSize,  \* m_currentPacketSize
  contentSize, \* m_contentSize
  overread,    \* undefined behaviour: a byte past the chunk has been read
  aborted,     \* ... and the assertion of QByteArray::at has stopped it
  headers,     \* history: calls of m_headerHandler
  bodies,      \* history: calls of m_bodyHandler and the size announced
  warnings     \* history: number of calls of the diagnostic handler, by
               \* m_errorHandler and by the transport's hasHeader

chunkVars == <<feed, given, mode>>
headerVars == <<field, value, headers>>
bodyVars == <<packet, packetSize, contentSize, bodies>>
faultVars == <<overread, aborted>>
vars == <<chunkVars, calls, state, headerVars, bodyVars, faultVars, warnings>>

---------------------------------------------------------------------------
\* The call in progress: data and dataPos of receiveData; user while the body
\* handler it called is running, done when the loop is left.

Call(data) == [data |-> data, pos |-> 0, user |-> FALSE, done |-> FALSE]
Top == Head(calls)
data == Top.data
dataPos == Top.pos

InLoop(s) ==
  /\ calls # <<>> /\ ~aborted
  /\ ~Top.done /\ dataPos < Len(data)
  /\ state = s
c == data[dataPos + 1]

\* The first position from dataPos on with a byte in stops, or the end.
Scan(stops) ==
  CHOOSE k \in dataPos..Len(data) :
    /\ k < Len(data) => data[k + 1] \in stops
    /\ \A i \in dataPos..(k - 1) : data[i + 1] \notin stops

SetTop(call) == calls' = <<call>> \o Tail(calls)
\* Go on at position p; Advance also drops the p bytes before it.
MoveTo(p) == SetTop([Top EXCEPT !.pos = p, !.user = FALSE])
After(k) == SubSeq(data, k + 1, Len(data))
Advance(k, p) == SetTop([Top EXCEPT !.data = After(k), !.pos = p,
                                    !.user = FALSE])
Return == calls' = Tail(calls)

Complain(n) == warnings' = warnings + n

\* callHasHeader; n complaints precede it.
CallHasHeader(n) ==
  IF field = <<>> /\ value = <<>>
  THEN Complain(n) /\ UNCHANGED <<headerVars, contentSize>>
  ELSE LET size == ToInt(value)
           ok == size # NotANumber
           invalid == IF IsLengthField(field) /\ ~ok THEN 1 ELSE 0
       IN  /\ headers' = Append(headers, <<field, value>>)
           /\ field' = <<>> /\ value' = <<>>
           /\ contentSize' = IF IsLengthField(field) /\ ok THEN size
                             ELSE contentSize
           /\ Complain(n + invalid + HasHeader(field, value))

\* callHasBody, when the packet holds bytes and size bytes have been counted:
\* an unbuffered parser hands on an empty body and keeps what it has counted.
CallHasBody(bytes, size) ==
  /\ bodies' = Append(bodies, [size |-> contentSize,
                               bytes |-> IF mode = "BUFFERED" THEN bytes
                                         ELSE <<>>])
  /\ IF mode = "BUFFERED"
     THEN packet' = <<>> /\ packetSize' = 0 /\ contentSize' = NoLength
     ELSE packet' = bytes /\ packetSize' = size /\ UNCHANGED contentSize

---------------------------------------------------------------------------
\* receiveData is called: by the event loop, or by the one a body handler
\* runs.

ReceiveData(n) ==
  /\ ~aborted
  /\ calls # <<>> => Top.user
  /\ given + n \in feed.cuts
  /\ given' = given + n
  /\ calls' = <<Call(SubSeq(feed.stream, given + 1, given + n))>> \o calls
  /\ UNCHANGED <<feed, mode, state, headerVars, bodyVars, faultVars, warnings>>

PreHeader ==
  /\ InLoop("PreHeader") /\ c # SPACE
  /\ IF c = LF THEN state' = "AfterCrLf" /\ MoveTo(dataPos + 1) /\ Complain(1)
     ELSE IF c = CR
          THEN state' = "AfterCr" /\ MoveTo(dataPos + 1) /\ Complain(0)
          ELSE state' = "InHeaderField" /\ MoveTo(dataPos) /\ Complain(0)
  /\ UNCHANGED <<chunkVars, headerVars, bodyVars, faultVars>>

FirstNonSpace == Scan(Bytes \ {SPACE})

PreHeaderSpace ==
  /\ InLoop("PreHeader") /\ c = SPACE /\ FirstNonSpace < Len(data)
  /\ Advance(FirstNonSpace, 0)
  /\ state' = "InHeaderField"
  /\ Complain(1)
  /\ UNCHANGED <<chunkVars, headerVars, bodyVars, faultVars>>

\* Mutant: the position goes past the end with the byte that was read.
MutantPreHeaderOverread ==
  /\ InLoop("PreHeader") /\ c = SPACE /\ FirstNonSpace = Len(data)
  /\ overread' = TRUE
  /\ MoveTo(Len(data) + 1)
  /\ Complain(1)
  /\ UNCHANGED <<chunkVars, headerVars, bodyVars, aborted, state>>

\* The chunk ends in the spaces: data.at(++dataPos) reads the byte after it.
\* A build with assertions stops; another takes it for the end of the spaces,
\* unless that byte happens to be a space.
PreHeaderOverread ==
  /\ InLoop("PreHeader") /\ c = SPACE /\ FirstNonSpace = Len(data)
  /\ overread' = TRUE
  /\ \/ aborted' = TRUE /\ UNCHANGED <<calls, state>>
     \/ state' = "InHeaderField" /\ Advance(Len(data), 0) /\ UNCHANGED aborted
     \/ MoveTo(Len(data)) /\ UNCHANGED <<aborted, state>>
  /\ Complain(1)
  /\ UNCHANGED <<chunkVars, headerVars, bodyVars>>

\* A header field ends at a colon, or at a line end that should not be there.
SpacesIn(bytes) == Cardinality({i \in 1..Len(bytes) : bytes[i] = SPACE})

HeaderField ==
  /\ InLoop("InHeaderField")
  /\ LET k == Scan({CR, LF, COLON})
         name == SubSeq(data, 1, k)
         spaces == SpacesIn(SubSeq(data, dataPos + 1, k))
     IN  /\ field' = field \o name
         /\ IF k = Len(data)
            THEN Return /\ UNCHANGED state /\ Complain(spaces)
            ELSE IF data[k + 1] = COLON
            THEN /\ state' = "HeaderValueSpace"
                 /\ Advance(k + 1, 0)
                 /\ Complain(spaces)
            ELSE /\ state' = IF data[k + 1] = LF THEN "AfterCrLf" ELSE "AfterCr"
                 /\ Advance(k, 1)
                 /\ Complain(spaces + 1)
  /\ UNCHANGED <<chunkVars, value, headers, bodyVars, faultVars>>

\* Mutant: the position is not moved past the spaces.
MutantHeaderValueSpace ==
  /\ InLoop("HeaderValueSpace")
  /\ IF FirstNonSpace < Len(data)
     THEN Advance(FirstNonSpace, 0) /\ state' = "InHeaderValue" /\ value' = <<>>
     ELSE UNCHANGED <<calls, state, value>>
  /\ UNCHANGED <<chunkVars, field, headers, bodyVars, faultVars, warnings>>

HeaderValueSpace ==
  /\ InLoop("HeaderValueSpace")
  /\ IF FirstNonSpace < Len(data)
     THEN Advance(FirstNonSpace, 0) /\ state' = "InHeaderValue" /\ value' = <<>>
     ELSE MoveTo(Len(data)) /\ UNCHANGED <<state, value>>
  /\ UNCHANGED <<chunkVars, field, headers, bodyVars, faultVars, warnings>>

\* Mutant: the part of the value at the end of a chunk is forgotten.
MutantHeaderValue ==
  /\ InLoop("InHeaderValue")
  /\ LET k == Scan({CR, LF})
     IN  IF k = Len(data)
         THEN Return /\ Complain(0) /\ UNCHANGED <<state, value>>
         ELSE /\ value' = value \o SubSeq(data, 1, k)
              /\ Advance(k, 1)
              /\ IF data[k + 1] = LF
                 THEN state' = "AfterCrLf" /\ Complain(1)
                 ELSE state' = "AfterCr" /\ Complain(0)
  /\ UNCHANGED <<chunkVars, field, headers, bodyVars, faultVars>>

HeaderValue ==
  /\ InLoop("InHeaderValue")
  /\ LET k == Scan({CR, LF})
     IN  /\ value' = value \o SubSeq(data, 1, k)
         /\ IF k = Len(data)
            THEN Return /\ UNCHANGED state /\ Complain(0)
            ELSE /\ Advance(k, 1)
                 /\ IF data[k + 1] = LF
                    THEN state' = "AfterCrLf" /\ Complain(1)
                    ELSE state' = "AfterCr" /\ Complain(0)
  /\ UNCHANGED <<chunkVars, field, headers, bodyVars, faultVars>>

\* The end of the header block: an empty packet, and the last header.
BeginBody(p, n) ==
  /\ packet' = <<>> /\ packetSize' = 0
  /\ state' = "InBody"
  /\ Advance(p, 0)
  /\ CallHasHeader(n)

\* Mutant: the data before the new header is not dropped.
MutantBeginHeader(n) ==
  /\ state' = "InHeaderField"
  /\ MoveTo(dataPos)
  /\ CallHasHeader(n)
  /\ UNCHANGED <<packet, packetSize>>

\* The next line is a header of its own: the one before it is complete.
BeginHeader(n) ==
  /\ state' = "InHeaderField"
  /\ Advance(dataPos, 0)
  /\ CallHasHeader(n)
  /\ UNCHANGED <<packet, packetSize>>

\* The line goes on: its value is kept.
Continue(n) ==
  /\ state' = "InHeaderValue"
  /\ Advance(dataPos, 0)
  /\ Complain(n)
  /\ UNCHANGED <<headerVars, packet, packetSize, contentSize>>

AfterCr ==
  /\ InLoop("AfterCr")
  /\ \/ /\ c = LF
        /\ state' = "AfterCrLf" /\ MoveTo(dataPos + 1) /\ Complain(0)
        /\ UNCHANGED <<headerVars, packet, packetSize, contentSize>>
     \/ c = CR /\ BeginBody(dataPos + 1, 1)
     \/ c = SPACE /\ Continue(1)
     \/ c \notin {LF, CR, SPACE} /\ BeginHeader(1)
  /\ UNCHANGED <<chunkVars, bodies, faultVars>>

\* A line feed is looked at again in state AfterCrLfCr.
AfterCrLf ==
  /\ InLoop("AfterCrLf")
  /\ \/ /\ c \in {LF, CR}
        /\ state' = "AfterCrLfCr"
        /\ MoveTo(IF c = CR THEN dataPos + 1 ELSE dataPos)
        /\ Complain(IF c = CR THEN 0 ELSE 1)
        /\ UNCHANGED <<headerVars, packet, packetSize, contentSize>>
     \/ c = SPACE /\ Continue(0)
     \/ c \notin {LF, CR, SPACE} /\ BeginHeader(0)
  /\ UNCHANGED <<chunkVars, bodies, faultVars>>

AfterCrLfCr ==
  /\ InLoop("AfterCrLfCr")
  /\ IF c = LF THEN BeginBody(dataPos + 1, 0) ELSE BeginHeader(1)
  /\ UNCHANGED <<chunkVars, bodies, faultVars>>

---------------------------------------------------------------------------
\* The body.

BodyWithoutLength ==
  /\ InLoop("InBody") /\ contentSize = NoLength
  /\ state' = "PreHeader" /\ MoveTo(dataPos) /\ Complain(1)
  /\ UNCHANGED <<chunkVars, headerVars, bodyVars, faultVars>>

\* Mutant: the body may take what is left of the chunk.
MutantTaken == IF contentSize - packetSize > 0 THEN Len(data) ELSE 0

\* How many bytes of the chunk belong to the body.
Taken ==
  LET missing == contentSize - packetSize
  IN  IF missing <= 0 THEN 0
      ELSE IF missing < Len(data) THEN missing ELSE Len(data)

\* Mutant: the bytes of the body are passed and stay before the next header.
MutantBodyCall(k) == [Top EXCEPT !.pos = dataPos + k, !.user = FALSE]

\* The call goes on after k bytes; the body handler may run an event loop.
BodyCall(k) ==
  [Top EXCEPT !.data = IF k = 0 THEN data ELSE After(k),
              !.pos = IF k = 0 THEN dataPos ELSE 0, !.user = FALSE]
InHandler(call) == [call EXCEPT !.user = feed.nested]

Body ==
  /\ InLoop("InBody") /\ contentSize # NoLength
  /\ LET bytes == packet \o IF mode = "BUFFERED" THEN SubSeq(data, 1, Taken)
                            ELSE <<>>
         complete == packetSize + Taken >= contentSize
     IN  IF complete
         THEN /\ state' = "PreHeader"
              /\ SetTop(InHandler(BodyCall(Taken)))
              /\ CallHasBody(bytes, packetSize + Taken)
         ELSE /\ packet' = bytes
              /\ packetSize' = packetSize + Taken
              /\ SetTop(BodyCall(Taken))
              /\ UNCHANGED <<state, contentSize, bodies>>
  /\ UNCHANGED <<chunkVars, headerVars, faultVars, warnings>>

\* Mutant: an empty body that ends its chunk is not complete.
MutantEndOfData ==
  /\ calls # <<>> /\ ~aborted
  /\ Top.done \/ dataPos >= Len(data)
  /\ IF ~Top.done /\ state = "InBody" /\ contentSize = NoLength
     THEN /\ state' = "PreHeader"
          /\ SetTop(InHandler([Top EXCEPT !.done = TRUE]))
          /\ Complain(1)
          /\ CallHasBody(packet, packetSize)
     ELSE Return /\ UNCHANGED <<state, bodyVars, warnings>>
  /\ UNCHANGED <<chunkVars, headerVars, faultVars>>

\* The end of receiveData.  A body that needs no bytes is complete, and so is
\* one of unknown length: "nothing to read, but emit empty body".
EndOfData ==
  /\ calls # <<>> /\ ~aborted
  /\ Top.done \/ dataPos >= Len(data)
  /\ IF ~Top.done /\ state = "InBody" /\ contentSize \in {NoLength, 0}
     THEN /\ state' = "PreHeader"
          /\ SetTop(InHandler([Top EXCEPT !.done = TRUE]))
          /\ Complain(IF contentSize = NoLength THEN 1 ELSE 0)
          /\ CallHasBody(packet, packetSize)
     ELSE Return /\ UNCHANGED <<state, bodyVars, warnings>>
  /\ UNCHANGED <<chunkVars, headerVars, faultVars>>

---------------------------------------------------------------------------
\* receiveEof: nothing may be left unread.
ReceiveEof == state = "PreHeader"

Init ==
  /\ feed \in Feeds /\ mode \in Modes
  /\ given = 0 /\ calls = <<>>
  /\ state = "PreHeader"
  /\ field = <<>> /\ value = <<>> /\ packet = <<>>
  /\ packetSize = 0 /\ contentSize = NoLength
  /\ overread = FALSE /\ aborted = FALSE
  /\ headers = <<>> /\ bodies = <<>> /\ warnings = 0

Step ==
  \/ PreHeader \/ PreHeaderSpace \/ PreHeaderOverread
  \/ HeaderField \/ HeaderValueSpace \/ HeaderValue
  \/ AfterCr \/ AfterCrLf \/ AfterCrLfCr
  \/ BodyWithoutLength \/ Body \/ EndOfData

Next == Step \/ \E n \in 1..Len(feed.stream) : ReceiveData(n)

Spec == Init /\ [][Next]_vars

\* A call of receiveData that has begun runs on; nothing is assumed of the
\* peer.
FairSpec == Spec /\ WF_vars(Step)

---------------------------------------------------------------------------
\* Properties.

States == {"PreHeader", "InHeaderField", "HeaderValueSpace", "InHeaderValue",
           "AfterCr", "AfterCrLf", "AfterCrLfCr", "InBody"}

\* Every variable has its type, no position is outside its chunk, and a
\* finished or interrupted call is of the kind that can be.
TypeOK ==
  /\ feed \in Feed /\ mode \in {"BUFFERED", "UNBUFFERED"}
  /\ given \in 0..Len(feed.stream)
  /\ calls \in Seq([data : Seq(Bytes), pos : Nat, user : BOOLEAN,
                    done : BOOLEAN])
  /\ state \in States
  /\ field \in Seq(Bytes) /\ value \in Seq(Bytes) /\ packet \in Seq(Bytes)
  /\ packetSize \in Nat /\ contentSize \in Int
  /\ overread \in BOOLEAN /\ aborted \in BOOLEAN
  /\ headers \in Seq(Seq(Bytes) \X Seq(Bytes))
  /\ bodies \in Seq([size : Int, bytes : Seq(Bytes)])
  /\ warnings \in Nat
  /\ \A i \in 1..Len(calls) :
       /\ calls[i].pos <= Len(calls[i].data)
       /\ calls[i].user => feed.nested

\* The loops over a header field, a header value and a body append
\* data.mid(0, dataPos): whenever one is entered, the token must start where
\* the data does, however the chunks are cut and also when a body handler has
\* parsed other chunks in between.  And no header is pending before a message,
\* as the assertion at the end of the PreHeader case says.
TokensStartAtData ==
  /\ state \in {"InHeaderField", "InHeaderValue", "InBody"} =>
       \A i \in 1..Len(calls) : calls[i].pos < Len(calls[i].data) =>
                                calls[i].pos = 0
  /\ state = "PreHeader" => field = <<>> /\ value = <<>>

\* A buffered body has exactly the bytes its Content-Length announced, and one
\* whose length is missing or negative is empty: no byte of a message goes to
\* its neighbour, in whatever chunks it comes.
BodyAsLongAsAnnounced ==
  mode = "BUFFERED" =>
    \A i \in 1..Len(bodies) :
      Len(bodies[i].bytes) = IF bodies[i].size < 0 THEN 0 ELSE bodies[i].size

Idle == calls = <<>> /\ ~aborted

\* The bodies with a Content-Length, in their order.
SizedBodies(all) ==
  LET upTo[n \in 0..Len(all)] ==
        IF n = 0 THEN <<>>
        ELSE IF all[n].size = NoLength THEN upTo[n - 1]
             ELSE Append(upTo[n - 1], all[n].bytes)
  IN  upTo[Len(all)]

\* How a stream is cut into chunks makes no difference: whenever receiveData
\* has returned, the state, the headers, the complaints and the bodies with a
\* Content-Length are what reading the bytes one by one gives.  The exceptions
\* are a chunk that was read past its end, and for an unbuffered parser, which
\* keeps the last Content-Length, a message without one.
ChunkingIrrelevant ==
  Idle /\ ~feed.nested /\ ~overread =>
    LET r == Read(SubSeq(feed.stream, 1, given))
    IN  IF mode = "BUFFERED"
        THEN /\ <<state, field, value, packet, contentSize>>
                  = <<r.state, r.field, r.value, r.body, r.size>>
             /\ <<headers, warnings>> = <<r.headers, r.warnings>>
             /\ SizedBodies(bodies) = r.bodies
        ELSE r.unsized = 0 =>
             /\ <<state, field, value>> = <<r.state, r.field, r.value>>
             /\ <<headers, warnings>> = <<r.headers, r.warnings>>
             /\ Len(bodies) = Len(r.bodies)

\* The bodies that have been handed on, when all that was sent has been read.
Got == [i \in DOMAIN bodies |-> bodies[i].bytes]
AllRead == Idle /\ feed.messages # <<>> /\ given = Len(feed.stream)

\* What one transport sends the other one gets: once the stream has been read
\* each body has been handed on, once and in order, without a complaint and
\* with nothing left over.
Channelled == mode = "BUFFERED" /\ ~feed.nested
DeliversMessages ==
  AllRead /\ Channelled =>
    warnings = 0 /\ ReceiveEof /\ Got = feed.messages

\* If body handlers run event loops, and every chunk is made of whole
\* messages, only the order may be different.
WholeMessages ==
  feed.cuts \subseteq {EndOf(feed, n) : n \in 0..Len(feed.messages)}
Times(all, m) == Cardinality({i \in DOMAIN all : all[i] = m})
DeliversWhenNested ==
  AllRead /\ mode = "BUFFERED" /\ WholeMessages =>
    /\ warnings = 0 /\ ReceiveEof
    /\ Len(Got) = Len(feed.messages)
    /\ \A i \in DOMAIN Got : Times(Got, Got[i]) = Times(feed.messages, Got[i])

\* The transports at both ends are a channel: MessageChannel's messages are
\* those of the feed, written once their last byte is handed to receiveData.
Channel == INSTANCE MessageChannel WITH
  messages <- IF Channelled THEN feed.messages ELSE <<>>,
  written <- IF ~Channelled THEN 0
             ELSE Cardinality({n \in DOMAIN feed.messages :
                                 EndOf(feed, n) <= given}),
  delivered <- IF Channelled /\ feed.messages # <<>> THEN Got ELSE <<>>

\* However the bytes are cut, a message is handed on as it was written, in its
\* turn and once, and never before its last byte has come.
ImplementsChannel == Channel!Spec

\* What has been written completely is handed on without waiting for more.
NothingHeldBack == Channel!Fairness

\* receiveData returns: no state of the parser makes its loop spin.
EveryChunkEnds == calls # <<>> ~> (calls = <<>> \/ aborted)

\* The comment at the end of receiveData says "nothing to read, but emit empty
\* body", and the test protocolError expects a message for a header block with
\* no Content-Length: each header block gets a body.
BodyForEveryBlock ==
  Idle /\ mode = "BUFFERED" /\ ~feed.nested /\ ~overread =>
    LET r == Read(SubSeq(feed.stream, 1, given))
    IN  r.state # "InBody" => Len(bodies) = r.blocks

\* The class is documented as "quite permissive in accepting" invalid
\* sequences, and the complaint about a space at the start of headers says
\* "skipping": no chunk makes the parser read what is not there.
SpacesAreSkipped == ~overread
=============================================================================
