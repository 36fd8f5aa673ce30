------------------------- MODULE JsonRpcBatchProofs -------------------------
(***************************************************************************)
(* Proofs about the answers to received documents in JsonRpcProtocol: that *)
(* each is given once, whole and by an object that is still there.         *)
(*                                                                         *)
(* The invariant is a statement about one document and what concerns it:   *)
(* its batch object, the requests user code holds of it, where the loop    *)
(* over it is, and the messages that answer it.  A step changes these for  *)
(* one document at most, so the proof of a step is that of a lemma about   *)
(* that document and the fact that nothing changes for the others.         *)
(***************************************************************************)
EXTENDS JsonRpcProtocolProofs, FiniteSetTheorems

---------------------------------------------------------------------------
\* What a document that arrived as a calls for an answer to, and with what id.
IsBatch(a) == IsRequestBatch(a.doc) /\ ~a.stopped
Owes(a, i) ==
  IF IsBatch(a)
  THEN i \in DOMAIN a.doc.items /\ ~IsNotification(a.doc.items[i])
  ELSE i = 1 /\ OwesOne(a)
RightId(a, i) ==
  IF (~a.stopped /\ IsInvalid(a.doc)) \/ ~IsRequest(a.doc.items[i])
  THEN NullId ELSE a.doc.items[i].id

\* A response about document n that is owed and has the right id.
RightBody(n, a, b) ==
  /\ b.kind = "response" /\ b.ref[1] = n /\ Owes(a, b.ref[2])
  /\ b.id = RightId(a, b.ref[2])
RightBodies(n, a, bodies) ==
  /\ \A j \in DOMAIN bodies : RightBody(n, a, bodies[j])
  /\ \A i, j \in DOMAIN bodies : i # j => bodies[i].ref # bodies[j].ref
In(bodies, r) == \E j \in DOMAIN bodies : bodies[j].ref = r
NoAnswer(bodies) == \A j \in DOMAIN bodies : bodies[j].kind # "response"

\* What concerns document n: what is held of it, the places the loops over it
\* are at, the messages that answer it with their places on the wire.
HeldOf(held, n) == {r \in held : r[1] = n}
ReadsBatch(f, n) == f.loop = "requests" /\ f.n = n
ReadAt(s, n) == {s[k].next : k \in {k \in DOMAIN s : ReadsBatch(s[k], n)}}
IsAbout(m, n) == m.bodies[1].kind = "response" /\ m.bodies[1].ref[1] = n
AnswersTo(w, n) == {<<k, w[k]>> : k \in {k \in DOMAIN w : IsAbout(w[k], n)}}

---------------------------------------------------------------------------
\* The invariant of document n that arrived as a: b is its batch object, held,
\* at and answers are what the operators above give for it.

\* User code holds a single request, or requests the loop is past.
IsAlone(a) == a.doc.type = "object" /\ (a.stopped \/ ~IsInvalid(a.doc))
HeldOK(a, held, at) ==
  \A r \in held : /\ Owes(a, r[2]) /\ (IsBatch(a) \/ IsAlone(a))
                  /\ \A i \in at : r[2] < i

\* A batch counts what is held of it.  While there is something to do for it
\* the object is there, unless it was drained before its loop was over.
Unused(b) == b.state = "none" /\ b.pending = 0
BatchOK(n, a, b, held, at) ==
  IF IsBatch(a)
  THEN /\ b.state \in {"alive", "deleted"} /\ b.to = a.from
       /\ b.pending = Cardinality(held)
       /\ held # {} => b.state = "alive"
       /\ b.state = "alive" => held # {} \/ at # {}
       /\ at # {} => b.state = "alive" \/ MayDrainEarly
       /\ RightBodies(n, a, b.finished)
  ELSE Unused(b) /\ at = {}

\* One message answers the document, and is all there is about it.
AnswersDocument(m, n, a) ==
  /\ m.bodies # <<>> /\ RightBodies(n, a, m.bodies)
  /\ IF IsBatch(a)
     THEN /\ m.array /\ m.to = a.from
          /\ MayDrainEarly \/ \A i : Owes(a, i) => In(m.bodies, <<n, i>>)
     ELSE ~m.array /\ Len(m.bodies) = 1
AnswersOK(n, a, b, answers) ==
  /\ \A e \in answers : AnswersDocument(e[2], n, a) /\ b.state # "alive"
  /\ \A d, e \in answers : d = e

\* Everything that is owed is in one place.
ToRead(at, i) == \E p \in at : p <= i
Collected(b, r) == b.state = "alive" /\ In(b.finished, r)
Answered(answers, r) == \E e \in answers : In(e[2].bodies, r)
InOnePlace(n, b, held, at, answers, i) ==
  LET r == <<n, i>> IN
  /\ ToRead(at, i) \/ r \in held \/ Collected(b, r) \/ Answered(answers, r)
  /\ ToRead(at, i) => ~(r \in held \/ Collected(b, r) \/ Answered(answers, r))
  /\ r \in held => ~(Collected(b, r) \/ Answered(answers, r))
  /\ Collected(b, r) => ~Answered(answers, r)

PlacesOK(n, a, b, held, at, answers) ==
  \A i : Owes(a, i) => InOnePlace(n, b, held, at, answers, i)

DocumentOK(n, a, b, held, at, answers) ==
  /\ HeldOK(a, held, at)
  /\ BatchOK(n, a, b, held, at)
  /\ AnswersOK(n, a, b, answers)

---------------------------------------------------------------------------
\* The invariant.

\* An answer may be lost when the process runs into undefined behaviour.
DocOK(n) ==
  LET a == received[n]
      held == HeldOf(open, n)
      at == ReadAt(stack, n)
      answers == AnswersTo(wire, n)
  IN IF n \in DOMAIN received
     THEN /\ DocumentOK(n, a, batch[n], held, at, answers)
          /\ fault = "none" => PlacesOK(n, a, batch[n], held, at, answers)
     ELSE Unused(batch[n]) /\ answers = {}

\* One loop goes over a batch, and sendBatch puts no answers in its array.
LoopsOK ==
  /\ \A j, k \in DOMAIN stack :
       stack[j].loop = "requests" /\ stack[k].loop = "requests"
         /\ stack[j].n = stack[k].n => j = k
  /\ \A k \in DOMAIN stack : NoAnswer(stack[k].array)

\* A message asks, or it is about a document that has arrived.
MessageOK(m, arrived) ==
  /\ m.bodies # <<>>
  /\ NoAnswer(m.bodies) \/ \E n \in arrived : IsAbout(m, n)
WireOK == \A k \in DOMAIN wire : MessageOK(wire[k], DOMAIN received)

\* Only the transport that is set calls the protocol; a protocol that may be
\* destroyed in good order only is not called after it.
DetachedOK ==
  /\ hooked \subseteq {transport} \ {NoTransport}
  /\ ~alive /\ MayDestroy # "ever" =>
       transport = NoTransport /\ \A r \in open : ~IsHeldAlone(r)
  /\ fault = "useAfterFree" => MayDrainEarly \/ MayDestroy = "ever"

DocsOK == IsFiniteSet(open) /\ \A n \in 1..MaxArrivals : DocOK(n)

BatchInv == Inv /\ LoopsOK /\ WireOK /\ DocsOK /\ DetachedOK

---------------------------------------------------------------------------
\* Facts about documents.

\* A request batch is not empty, so it is not answered as invalid.
LEMMA BatchIsValid ==
  ASSUME NEW a, IsBatch(a)
  PROVE  a.doc.type = "array" /\ ~IsInvalid(a.doc) /\ ~IsAlone(a)
<1>1. a.doc.type = "array" /\ a.doc.items # <<>>
  BY DEF IsBatch, IsRequestBatch
<1> QED BY <1>1 DEF IsInvalid, IsAlone

\* What is owed has a number.
LEMMA OwesNumber ==
  ASSUME NEW a \in ArrivalType, NEW i, Owes(a, i)
  PROVE  i \in Nat
<1>1. a.doc \in Documents
  BY DEF ArrivalType
<1> QED BY <1>1, DocumentItems DEF Owes

\* The bodies of an array, with one more.
OneMore(more, bodies, body) == more = Append(bodies, body)
LEMMA OneMoreBody ==
  ASSUME NEW bodies \in Seq(Body), NEW body, NEW more,
         OneMore(more, bodies, body)
  PROVE  /\ \A r : In(more, r) <=> In(bodies, r) \/ body.ref = r
         /\ \A n, a : RightBodies(n, a, bodies) /\ RightBody(n, a, body)
                        /\ ~In(bodies, body.ref)
                      => RightBodies(n, a, more)
<1>1. /\ DOMAIN more = DOMAIN bodies \cup {Len(bodies) + 1}
      /\ Len(bodies) + 1 \notin DOMAIN bodies
      /\ \A j \in DOMAIN bodies : more[j] = bodies[j]
      /\ more[Len(bodies) + 1] = body
  BY DEF OneMore
<1>2. \A r : In(more, r) <=> In(bodies, r) \/ body.ref = r
  BY <1>1 DEF In
<1>3. ASSUME NEW n, NEW a, RightBodies(n, a, bodies), RightBody(n, a, body),
             ~In(bodies, body.ref)
      PROVE  RightBodies(n, a, more)
  BY <1>1, <1>3 DEF RightBodies, In
<1> QED BY <1>2, <1>3

LEMMA OneBody ==
  ASSUME NEW body
  PROVE  /\ \A r : In(<<body>>, r) <=> body.ref = r
         /\ \A n, a : RightBody(n, a, body) => RightBodies(n, a, <<body>>)
  BY DEF In, RightBodies

\* A batch with one more body, or with another count or state.
LEMMA BatchFields ==
  ASSUME NEW b \in BatchType
  PROVE  /\ \A body \in Body :
              LET c == [b EXCEPT !.finished = Append(@, body)]
              IN  /\ c.state = b.state /\ c.to = b.to /\ c.pending = b.pending
                  /\ c.finished = Append(b.finished, body)
         /\ \A p \in Int :
              LET c == [b EXCEPT !.pending = p]
              IN  /\ c.state = b.state /\ c.to = b.to /\ c.pending = p
                  /\ c.finished = b.finished
         /\ LET c == [b EXCEPT !.state = "deleted"]
            IN  /\ c.state = "deleted" /\ c.to = b.to
                /\ c.pending = b.pending /\ c.finished = b.finished
         /\ b.finished \in Seq(Body) /\ b.pending \in Int
  BY DEF BatchType


---------------------------------------------------------------------------
\* What can happen to a document.  Documents are in good order when they and
\* the places of what they are owed are.
InOrder(n, a, b, held, at, answers) ==
  /\ DocumentOK(n, a, b, held, at, answers)
  /\ PlacesOK(n, a, b, held, at, answers)

\* The loop over a batch comes to an element that is answered at once.
LEMMA ItemCollected ==
  ASSUME NEW n \in Nat, NEW a \in ArrivalType, NEW b \in BatchType,
         NEW held \in SUBSET ({n} \X Nat), NEW i \in Nat, NEW answers,
         NEW body \in Body, body.ref = <<n, i>>, RightBody(n, a, body),
         IsBatch(a), b.state = "alive", InOrder(n, a, b, held, {i}, answers)
  PROVE  InOrder(n, a, [b EXCEPT !.finished = Append(@, body)], held, {i + 1},
                 answers)
<1> DEFINE c == [b EXCEPT !.finished = Append(@, body)]
<1>1. /\ c.state = b.state /\ c.to = b.to /\ c.pending = b.pending
      /\ c.finished = Append(b.finished, body) /\ b.finished \in Seq(Body)
  BY BatchFields
<1>0. OneMore(c.finished, b.finished, body)
  BY <1>1 DEF OneMore
<1> HIDE DEF c
<1>2. Owes(a, i) /\ InOnePlace(n, b, held, {i}, answers, i)
  BY DEF InOrder, PlacesOK, RightBody
<1>3. /\ <<n, i>> \notin held /\ ~In(b.finished, <<n, i>>)
      /\ ~Answered(answers, <<n, i>>)
  BY <1>2 DEF InOnePlace, ToRead, Collected
<1>4. HeldOK(a, held, {i + 1})
  BY DEF InOrder, DocumentOK, HeldOK
<1>5. RightBodies(n, a, c.finished)
  <2>1. RightBodies(n, a, b.finished)
    BY DEF InOrder, DocumentOK, BatchOK
  <2> QED BY <1>0, <1>1, <1>3, <2>1, OneMoreBody
<1>6. BatchOK(n, a, c, held, {i + 1})
  BY <1>1, <1>5 DEF InOrder, DocumentOK, BatchOK
<1>7. AnswersOK(n, a, c, answers)
  BY <1>1 DEF InOrder, DocumentOK, AnswersOK
<1>8. ASSUME NEW j, Owes(a, j)
      PROVE  InOnePlace(n, c, held, {i + 1}, answers, j)
  <2>1. j \in Nat BY <1>8, OwesNumber
  <2>2. In(c.finished, <<n, j>>) <=> In(b.finished, <<n, j>>) \/ j = i
    BY <1>0, <1>1, OneMoreBody
  <2>3. ToRead({i + 1}, j) <=> ToRead({i}, j) /\ j # i
    BY <2>1 DEF ToRead
  <2>4. InOnePlace(n, b, held, {i}, answers, j)
    BY <1>8 DEF InOrder, PlacesOK
  <2>5. CASE j = i
    BY <1>1, <1>3, <2>2, <2>3, <2>5 DEF InOnePlace, Collected
  <2>6. CASE j # i
    BY <1>1, <2>2, <2>3, <2>4, <2>6 DEF InOnePlace, Collected
  <2> QED BY <2>5, <2>6
<1> QED BY <1>4, <1>6, <1>7, <1>8 DEF InOrder, DocumentOK, PlacesOK, c

\* It goes past an element that is owed nothing, or past the last one.
LEMMA ItemSkipped ==
  ASSUME NEW n \in Nat, NEW a \in ArrivalType, NEW b \in BatchType,
         NEW held \in SUBSET ({n} \X Nat), NEW i \in Nat, NEW answers,
         ~Owes(a, i), IsBatch(a), InOrder(n, a, b, held, {i}, answers)
  PROVE  InOrder(n, a, b, held, {i + 1}, answers)
<1>1. HeldOK(a, held, {i + 1})
  BY DEF InOrder, DocumentOK, HeldOK
<1>2. BatchOK(n, a, b, held, {i + 1})
  BY DEF InOrder, DocumentOK, BatchOK
<1>3. ASSUME NEW j, Owes(a, j)
      PROVE  InOnePlace(n, b, held, {i + 1}, answers, j)
  <2>1. j \in Nat /\ j # i BY <1>3, OwesNumber
  <2>2. ToRead({i + 1}, j) <=> ToRead({i}, j)
    BY <2>1 DEF ToRead
  <2> QED BY <1>3, <2>2 DEF InOrder, PlacesOK, InOnePlace
<1> QED BY <1>1, <1>2, <1>3 DEF InOrder, DocumentOK, PlacesOK

\* User code takes a request of a batch.
LEMMA ItemTaken ==
  ASSUME NEW n \in Nat, NEW a \in ArrivalType, NEW b \in BatchType,
         NEW held \in SUBSET ({n} \X Nat), NEW i \in Nat, NEW answers,
         IsFiniteSet(held), Owes(a, i), IsBatch(a), b.state = "alive",
         InOrder(n, a, b, held, {i}, answers)
  PROVE  InOrder(n, a, [b EXCEPT !.pending = @ + 1], held \cup {<<n, i>>},
                 {i + 1}, answers)
<1> DEFINE c == [b EXCEPT !.pending = @ + 1]
           more == held \cup {<<n, i>>}
<1>1. /\ c.state = b.state /\ c.to = b.to /\ c.pending = b.pending + 1
      /\ c.finished = b.finished
  BY BatchFields
<1> HIDE DEF c
<1>2. InOnePlace(n, b, held, {i}, answers, i)
  BY DEF InOrder, PlacesOK
<1>3. /\ <<n, i>> \notin held /\ ~In(b.finished, <<n, i>>)
      /\ ~Answered(answers, <<n, i>>)
  BY <1>2 DEF InOnePlace, ToRead, Collected
<1>4. HeldOK(a, more, {i + 1})
  BY DEF InOrder, DocumentOK, HeldOK
<1>5. Cardinality(more) = Cardinality(held) + 1 /\ more # {}
  BY <1>3, FS_AddElement
<1>6. BatchOK(n, a, c, more, {i + 1})
  BY <1>1, <1>5 DEF InOrder, DocumentOK, BatchOK
<1>7. AnswersOK(n, a, c, answers)
  BY <1>1 DEF InOrder, DocumentOK, AnswersOK
<1>8. ASSUME NEW j, Owes(a, j)
      PROVE  InOnePlace(n, c, more, {i + 1}, answers, j)
  <2>1. j \in Nat BY <1>8, OwesNumber
  <2>2. <<n, j>> \in more <=> <<n, j>> \in held \/ j = i
    OBVIOUS
  <2>3. ToRead({i + 1}, j) <=> ToRead({i}, j) /\ j # i
    BY <2>1 DEF ToRead
  <2>4. InOnePlace(n, b, held, {i}, answers, j)
    BY <1>8 DEF InOrder, PlacesOK
  <2> HIDE DEF more
  <2>5. CASE j = i
    BY <1>1, <1>3, <2>2, <2>3, <2>5 DEF InOnePlace, Collected
  <2>6. CASE j # i
    BY <1>1, <2>2, <2>3, <2>4, <2>6 DEF InOnePlace, Collected
  <2> QED BY <2>5, <2>6
<1> QED BY <1>4, <1>6, <1>7, <1>8 DEF InOrder, DocumentOK, PlacesOK, c

\* The loop over a batch ends while user code holds requests of it.
LEMMA LoopOver ==
  ASSUME NEW n \in Nat, NEW a \in ArrivalType, NEW b \in BatchType,
         NEW held, NEW i \in Nat, NEW answers,
         Len(a.doc.items) < i, held # {}, IsBatch(a),
         InOrder(n, a, b, held, {i}, answers)
  PROVE  InOrder(n, a, b, held, {}, answers)
<1>1. HeldOK(a, held, {})
  BY DEF InOrder, DocumentOK, HeldOK
<1>2. BatchOK(n, a, b, held, {})
  BY DEF InOrder, DocumentOK, BatchOK
<1>3. ASSUME NEW j, Owes(a, j)
      PROVE  InOnePlace(n, b, held, {}, answers, j)
  <2>1. j \in 1 .. Len(a.doc.items)
    <3>1. a.doc \in Documents BY DEF ArrivalType
    <3> QED BY <1>3, <3>1, DocumentItems DEF Owes
  <2>2. ~ToRead({}, j) /\ ~ToRead({i}, j)
    <3>1. Len(a.doc.items) \in Nat
      <4>1. a.doc \in Documents BY DEF ArrivalType
      <4> QED BY <4>1, DocumentItems
    <3> QED BY <2>1, <3>1 DEF ToRead
  <2>3. InOnePlace(n, b, held, {i}, answers, j)
    BY <1>3 DEF InOrder, PlacesOK
  <2> QED BY <2>2, <2>3 DEF InOnePlace
<1> QED BY <1>1, <1>2, <1>3 DEF InOrder, DocumentOK, PlacesOK

\* A batch c that is b with the answer body, and one less to wait for; and a
\* batch d that is c after its end, with what it has sent.
Replied(b, c, body) ==
  /\ c.state = b.state /\ c.to = b.to /\ c.pending = b.pending - 1
  /\ OneMore(c.finished, b.finished, body)
Deleted(c, d) == d.state = "deleted" /\ d.to = c.to /\ d.pending = c.pending
                   /\ d.finished = c.finished
Flushed(b, k) == IF b.finished = <<>> THEN {}
                 ELSE {<<k, Message(b.to, TRUE, b.finished)>>}

\* User code answers a request of a batch, and more are open.
LEMMA RequestReplied ==
  ASSUME NEW n \in Nat, NEW a \in ArrivalType, NEW b \in BatchType,
         NEW c \in BatchType, NEW held \in SUBSET ({n} \X Nat),
         NEW at \in SUBSET Nat, NEW answers, NEW i \in Nat, NEW body \in Body,
         IsFiniteSet(held), <<n, i>> \in held, body.ref = <<n, i>>,
         RightBody(n, a, body), Replied(b, c, body), c.pending # 0,
         IsBatch(a), InOrder(n, a, b, held, at, answers)
  PROVE  InOrder(n, a, c, held \ {<<n, i>>}, at, answers)
<1> DEFINE rest == held \ {<<n, i>>}
<1>1. /\ c.state = b.state /\ c.to = b.to /\ c.pending = b.pending - 1
      /\ OneMore(c.finished, b.finished, body) /\ b.finished \in Seq(Body)
  BY BatchFields DEF Replied
<1>2. Owes(a, i) /\ InOnePlace(n, b, held, at, answers, i)
  BY DEF InOrder, PlacesOK, RightBody
<1>3. /\ ~ToRead(at, i) /\ ~In(b.finished, <<n, i>>) /\ b.state = "alive"
      /\ ~Answered(answers, <<n, i>>)
  BY <1>2 DEF InOnePlace, Collected, InOrder, DocumentOK, BatchOK
<1>4. HeldOK(a, rest, at)
  BY DEF InOrder, DocumentOK, HeldOK
<1>5. Cardinality(rest) = c.pending /\ rest # {}
  <2>1. Cardinality(held) = b.pending
    BY DEF InOrder, DocumentOK, BatchOK
  <2>2. Cardinality(rest) = c.pending
    <3>1. Cardinality(rest) = Cardinality(held) - 1
      BY FS_RemoveElement
    <3> QED BY <1>1, <2>1, <3>1
  <2> QED BY <2>2, FS_EmptySet
<1>6. RightBodies(n, a, c.finished)
  <2>1. RightBodies(n, a, b.finished)
    BY DEF InOrder, DocumentOK, BatchOK
  <2> QED BY <1>1, <1>3, <2>1, OneMoreBody
<1>7. BatchOK(n, a, c, rest, at)
  BY <1>1, <1>3, <1>5, <1>6 DEF InOrder, DocumentOK, BatchOK
<1>8. AnswersOK(n, a, c, answers)
  BY <1>1 DEF InOrder, DocumentOK, AnswersOK
<1>9. ASSUME NEW j, Owes(a, j)
      PROVE  InOnePlace(n, c, rest, at, answers, j)
  <2>1. In(c.finished, <<n, j>>) <=> In(b.finished, <<n, j>>) \/ j = i
    BY <1>1, OneMoreBody
  <2>2. <<n, j>> \in rest <=> <<n, j>> \in held /\ j # i
    OBVIOUS
  <2>3. InOnePlace(n, b, held, at, answers, j)
    BY <1>9 DEF InOrder, PlacesOK
  <2> HIDE DEF rest
  <2>4. CASE j = i
    BY <1>1, <1>3, <2>1, <2>2, <2>4 DEF InOnePlace, Collected
  <2>5. CASE j # i
    BY <1>1, <2>1, <2>2, <2>3, <2>5 DEF InOnePlace, Collected
  <2> QED BY <2>4, <2>5
<1> QED BY <1>4, <1>7, <1>8, <1>9 DEF InOrder, DocumentOK, PlacesOK

\* A batch without open requests is sent and deleted.
LEMMA BatchDrained ==
  ASSUME NEW n \in Nat, NEW a \in ArrivalType, NEW b \in BatchType,
         NEW d \in BatchType, NEW at \in SUBSET Nat, NEW k,
         IsBatch(a), b.to = a.from, b.pending = 0, Deleted(b, d),
         RightBodies(n, a, b.finished), at = {} \/ MayDrainEarly,
         \A i : Owes(a, i) => (ToRead(at, i) <=> ~In(b.finished, <<n, i>>))
  PROVE  InOrder(n, a, d, {}, at, Flushed(b, k))
<1> DEFINE m == Message(b.to, TRUE, b.finished)
           ans == Flushed(b, k)
<1>1. HeldOK(a, {}, at) /\ BatchOK(n, a, d, {}, at)
  BY FS_EmptySet DEF HeldOK, BatchOK, Deleted
<1>2. m.to = b.to /\ m.array /\ m.bodies = b.finished
  BY DEF Message
<1>3. ans \subseteq {<<k, m>>} /\ (ans # {} <=> b.finished # <<>>)
  BY DEF Flushed
<1> HIDE DEF m, ans
<1>4. \A e \in ans : e[2] = m /\ <<k, m>> \in ans
  BY <1>3
<1>5. ASSUME b.finished # <<>> PROVE AnswersDocument(m, n, a)
  <2>1. MayDrainEarly \/ \A i : Owes(a, i) => In(m.bodies, <<n, i>>)
    BY <1>2 DEF ToRead
  <2> QED BY <1>2, <1>5, <2>1 DEF AnswersDocument
<1>6. AnswersOK(n, a, d, ans)
  BY <1>3, <1>4, <1>5 DEF AnswersOK, Deleted
<1>7. ASSUME NEW i, Owes(a, i)
      PROVE  InOnePlace(n, d, {}, at, ans, i)
  <2>1. ~Collected(d, <<n, i>>) BY DEF Collected, Deleted
  <2>2. Answered(ans, <<n, i>>) <=> In(b.finished, <<n, i>>)
    <3>1. CASE b.finished = <<>>
      BY <1>3, <3>1 DEF Answered, In
    <3>2. CASE b.finished # <<>>
      BY <1>2, <1>3, <1>4, <3>2 DEF Answered
    <3> QED BY <3>1, <3>2
  <2>3. ToRead(at, i) <=> ~In(b.finished, <<n, i>>)
    BY <1>7
  <2> QED BY <2>1, <2>2, <2>3 DEF InOnePlace
<1> QED BY <1>1, <1>6, <1>7 DEF InOrder, DocumentOK, PlacesOK, ans

\* The loop over a batch ends after the last request was answered.
LEMMA BatchOver ==
  ASSUME NEW n \in Nat, NEW a \in ArrivalType, NEW b \in BatchType,
         NEW d \in BatchType, NEW held \in SUBSET ({n} \X Nat),
         NEW i \in Nat, NEW answers, NEW k, IsFiniteSet(held),
         Len(a.doc.items) < i, b.state = "alive", b.pending = 0,
         Deleted(b, d), IsBatch(a), InOrder(n, a, b, held, {i}, answers)
  PROVE  held = {} /\ answers = {} /\ InOrder(n, a, d, {}, {}, Flushed(b, k))
<1>1. held = {}
  BY FS_EmptySet DEF InOrder, DocumentOK, BatchOK
<1>2. answers = {}
  BY DEF InOrder, DocumentOK, AnswersOK
<1>3. ASSUME NEW j, Owes(a, j)
      PROVE  ~ToRead({}, j) /\ In(b.finished, <<n, j>>)
  <2>1. a.doc \in Documents BY DEF ArrivalType
  <2>2. j \in 1 .. Len(a.doc.items) /\ Len(a.doc.items) \in Nat
    BY <1>3, <2>1, DocumentItems DEF Owes
  <2>3. ~ToRead({}, j) /\ ~ToRead({i}, j)
    BY <2>2 DEF ToRead
  <2>4. InOnePlace(n, b, held, {i}, answers, j)
    BY <1>3 DEF InOrder, PlacesOK
  <2>5. ~Answered(answers, <<n, j>>)
    BY <1>2 DEF Answered
  <2> QED BY <1>1, <2>3, <2>4, <2>5 DEF InOnePlace, Collected
<1>4. b.to = a.from /\ RightBodies(n, a, b.finished)
  BY DEF InOrder, DocumentOK, BatchOK
<1> QED BY <1>1, <1>2, <1>3, <1>4, BatchDrained

\* User code answers the last request of a batch it holds.
IsLastReply(n, a, b, c, d, held, at, answers, r, body) ==
  /\ n \in Nat /\ a \in ArrivalType /\ {b, c, d} \subseteq BatchType
  /\ held \subseteq {n} \X Nat /\ at \subseteq Nat /\ body \in Body
  /\ IsBatch(a) /\ InOrder(n, a, b, held, at, answers) /\ IsFiniteSet(held)
  /\ r \in held /\ r[1] = n /\ body.ref = r /\ RightBody(n, a, body)
  /\ Replied(b, c, body) /\ c.pending = 0 /\ Deleted(c, d)
  /\ at = {} \/ MayDrainEarly

LEMMA LastReplied ==
  ASSUME NEW n, NEW a, NEW b, NEW c, NEW d, NEW held, NEW at, NEW answers,
         NEW r, NEW body, NEW k,
         IsLastReply(n, a, b, c, d, held, at, answers, r, body)
  PROVE  /\ held = {r} /\ answers = {}
         /\ InOrder(n, a, d, {}, at, Flushed(c, k))
<1> PICK i \in Nat : r = <<n, i>>
  BY DEF IsLastReply
<1> USE DEF IsLastReply
<1>1. /\ c.state = b.state /\ c.to = b.to /\ c.pending = b.pending - 1
      /\ OneMore(c.finished, b.finished, body) /\ b.finished \in Seq(Body)
      /\ b.pending \in Int
  BY BatchFields DEF Replied
<1>2. b.state = "alive" /\ b.to = a.from /\ RightBodies(n, a, b.finished)
        /\ Cardinality(held) = b.pending
  BY DEF InOrder, DocumentOK, BatchOK
<1>3. answers = {}
  BY <1>2 DEF InOrder, DocumentOK, AnswersOK
<1>4. held = {r}
  <2>1. Cardinality(held) = 1
    BY <1>1, <1>2
  <2>2. PICK x : held = {x}
    BY <2>1, FS_Singleton
  <2> QED BY <2>2
<1>5. /\ Owes(a, i) /\ ~In(b.finished, <<n, i>>)
      /\ ~ToRead(at, i)
  <2>1. Owes(a, i) /\ InOnePlace(n, b, held, at, answers, i)
    BY DEF InOrder, PlacesOK, RightBody
  <2> QED BY <1>2, <2>1 DEF InOnePlace, Collected
<1>6. RightBodies(n, a, c.finished)
  BY <1>1, <1>2, <1>5, OneMoreBody
<1>7. ASSUME NEW j, Owes(a, j)
      PROVE  ToRead(at, j) <=> ~In(c.finished, <<n, j>>)
  <2>1. In(c.finished, <<n, j>>) <=> In(b.finished, <<n, j>>) \/ j = i
    BY <1>1, OneMoreBody
  <2>2. InOnePlace(n, b, held, at, answers, j)
    BY <1>7 DEF InOrder, PlacesOK
  <2>3. <<n, j>> \in held <=> j = i
    BY <1>4
  <2>4. ~Answered(answers, <<n, j>>)
    BY <1>3 DEF Answered
  <2> QED BY <1>2, <1>5, <2>1, <2>2, <2>3, <2>4 DEF InOnePlace, Collected
<1>8. c.to = a.from
  BY <1>1, <1>2
<1> QED BY <1>3, <1>4, <1>6, <1>7, <1>8, BatchDrained

\* A document that is not a batch: nothing is owed for it, user code holds
\* it, it is answered, or its answer is lost to undefined behaviour.
LEMMA NothingOwed ==
  ASSUME NEW n \in Nat, NEW a \in ArrivalType, NEW b \in BatchType,
         ~IsBatch(a), ~OwesOne(a), Unused(b)
  PROVE  InOrder(n, a, b, {}, {}, {})
<1>1. \A i : ~Owes(a, i)
  BY DEF Owes
<1> QED BY <1>1
        DEF InOrder, DocumentOK, PlacesOK, HeldOK, BatchOK, AnswersOK

LEMMA SingleHeld ==
  ASSUME NEW n \in Nat, NEW a \in ArrivalType, NEW b \in BatchType,
         ~IsBatch(a), OwesOne(a), IsAlone(a), Unused(b)
  PROVE  InOrder(n, a, b, {<<n, 1>>}, {}, {})
<1>1. \A i : Owes(a, i) <=> i = 1
  BY DEF Owes
<1>2. HeldOK(a, {<<n, 1>>}, {})
  BY <1>1 DEF HeldOK
<1>3. BatchOK(n, a, b, {<<n, 1>>}, {}) /\ AnswersOK(n, a, b, {})
  BY DEF BatchOK, AnswersOK
<1>4. InOnePlace(n, b, {<<n, 1>>}, {}, {}, 1)
  BY DEF InOnePlace, ToRead, Collected, Answered, Unused
<1> QED BY <1>1, <1>2, <1>3, <1>4 DEF InOrder, DocumentOK, PlacesOK

LEMMA SingleAnswered ==
  ASSUME NEW n \in Nat, NEW a \in ArrivalType, NEW b \in BatchType,
         NEW body \in Body, NEW m, NEW k, m.bodies = <<body>>, m.array = FALSE,
         body.ref = <<n, 1>>, RightBody(n, a, body), ~IsBatch(a), Unused(b)
  PROVE  InOrder(n, a, b, {}, {}, {<<k, m>>})
<1>1. \A i : Owes(a, i) <=> i = 1
  BY DEF Owes, RightBody
<1>2. /\ RightBodies(n, a, m.bodies) /\ In(m.bodies, <<n, 1>>)
  BY OneBody
<1>3. AnswersDocument(m, n, a)
  BY <1>2 DEF AnswersDocument
<1>4. HeldOK(a, {}, {}) /\ BatchOK(n, a, b, {}, {})
  BY DEF HeldOK, BatchOK
<1>5. AnswersOK(n, a, b, {<<k, m>>})
  BY <1>3 DEF AnswersOK, Unused
<1>6. InOnePlace(n, b, {}, {}, {<<k, m>>}, 1)
  BY <1>2 DEF InOnePlace, ToRead, Collected, Answered, Unused
<1> QED BY <1>1, <1>4, <1>5, <1>6 DEF InOrder, DocumentOK, PlacesOK

LEMMA SingleLost ==
  ASSUME NEW n \in Nat, NEW a, NEW b, ~IsBatch(a), Unused(b)
  PROVE  DocumentOK(n, a, b, {}, {}, {})
  BY DEF DocumentOK, HeldOK, BatchOK, AnswersOK

\* A request batch arrives.
LEMMA BatchBegun ==
  ASSUME NEW n \in Nat, NEW a \in ArrivalType, IsBatch(a)
  PROVE  InOrder(n, a, NewBatch("alive", a.from), {}, {1}, {})
<1> DEFINE b == NewBatch("alive", a.from)
<1>1. /\ b.state = "alive" /\ b.to = a.from /\ b.pending = 0
      /\ b.finished = <<>>
  BY DEF NewBatch
<1> HIDE DEF b
<1>2. BatchOK(n, a, b, {}, {1})
  BY <1>1, FS_EmptySet DEF BatchOK, RightBodies
<1>3. HeldOK(a, {}, {1}) /\ AnswersOK(n, a, b, {})
  BY DEF HeldOK, AnswersOK
<1>4. ASSUME NEW i, Owes(a, i)
      PROVE  InOnePlace(n, b, {}, {1}, {}, i)
  <2>1. a.doc \in Documents BY DEF ArrivalType
  <2>2. i \in Nat /\ 1 <= i
    BY <1>4, <2>1, DocumentItems DEF Owes
  <2>3. ToRead({1}, i) BY <2>2 DEF ToRead
  <2> QED BY <1>1, <2>3 DEF InOnePlace, Collected, Answered, In
<1> QED BY <1>2, <1>3, <1>4 DEF InOrder, DocumentOK, PlacesOK, b

---------------------------------------------------------------------------
\* What the changes of the state mean for the documents.

\* Nothing changes for document n.
SameDoc(n) ==
  /\ fault' = "none" => fault = "none"
  /\ n \in DOMAIN received' <=> n \in DOMAIN received
  /\ n \in DOMAIN received => received'[n] = received[n]
  /\ batch'[n] = batch[n]
  /\ HeldOf(open', n) = HeldOf(open, n)
  /\ ReadAt(stack', n) = ReadAt(stack, n)
  /\ AnswersTo(wire', n) = AnswersTo(wire, n)

LEMMA SameDocOK ==
  ASSUME NEW n, DocOK(n), SameDoc(n)
  PROVE  DocOK(n)'
  BY DEF DocOK, SameDoc

\* Places of the loops over request batches.
SameLoops == \A n : ReadAt(stack', n) = ReadAt(stack, n)
ReadsOnly(n) == \A m : m # n => ReadAt(stack', m) = ReadAt(stack, m)

LEMMA EnterLoop ==
  ASSUME stack \in Seq(FrameType), LoopsOK, NEW f \in FrameType, Enter(f),
         f.array = <<>>, f.loop = "requests" => ReadAt(stack, f.n) = {}
  PROVE  /\ LoopsOK'
         /\ f.loop # "requests" => SameLoops
         /\ f.loop = "requests" => /\ ReadAt(stack', f.n) = {f.next}
                                   /\ ReadsOnly(f.n)
<1>1. /\ DOMAIN stack' = 1 .. Len(stack) + 1 /\ stack'[1] = f
      /\ \A k \in 2 .. Len(stack) + 1 : stack'[k] = stack[k - 1]
      /\ DOMAIN stack = 1 .. Len(stack) /\ Len(stack) \in Nat
  <2>1. stack' = <<f>> \o stack /\ stack' \in Seq(FrameType)
    BY ConsType DEF Enter
  <2> QED BY <2>1, ConsType
<1>2. \A k \in DOMAIN stack' : k = 1 \/ (k - 1 \in DOMAIN stack
                                         /\ stack'[k] = stack[k - 1])
  BY <1>1
<1>3. \A k \in DOMAIN stack : k + 1 \in DOMAIN stack'
                                /\ stack'[k + 1] = stack[k]
  BY <1>1
<1>4. \A n, k : ReadAt(stack, n) = {} /\ k \in DOMAIN stack
                  => ~ReadsBatch(stack[k], n)
  BY DEF ReadAt
<1>5. LoopsOK'
  <2>1. ASSUME NEW j \in DOMAIN stack', NEW k \in DOMAIN stack',
               stack'[j].loop = "requests", stack'[k].loop = "requests",
               stack'[j].n = stack'[k].n
        PROVE  j = k
    <3>1. CASE j = 1 /\ k # 1
      BY <1>1, <1>2, <1>4, <2>1, <3>1 DEF ReadsBatch
    <3>2. CASE j # 1 /\ k = 1
      BY <1>1, <1>2, <1>4, <2>1, <3>2 DEF ReadsBatch
    <3>3. CASE j # 1 /\ k # 1
      <4>1. j - 1 = k - 1
        BY <1>2, <2>1, <3>3 DEF LoopsOK
      <4> QED BY <1>1, <4>1
    <3> QED BY <3>1, <3>2, <3>3
  <2>2. ASSUME NEW k \in DOMAIN stack' PROVE NoAnswer(stack'[k].array)
    BY <1>1, <1>2 DEF LoopsOK, NoAnswer
  <2> QED BY <2>1, <2>2 DEF LoopsOK
<1>6. ASSUME NEW n, ~ReadsBatch(f, n) PROVE ReadAt(stack', n) = ReadAt(stack, n)
  <2>1. ReadAt(stack', n) \subseteq ReadAt(stack, n)
    BY <1>1, <1>2, <1>6 DEF ReadAt
  <2>2. ReadAt(stack, n) \subseteq ReadAt(stack', n)
    BY <1>3 DEF ReadAt
  <2> QED BY <2>1, <2>2
<1>7. ASSUME f.loop = "requests" PROVE ReadAt(stack', f.n) = {f.next}
  <2>1. \A k \in DOMAIN stack' : ReadsBatch(stack'[k], f.n) => k = 1
    BY <1>2, <1>4, <1>7
  <2>2. 1 \in DOMAIN stack' /\ ReadsBatch(stack'[1], f.n)
    BY <1>1, <1>7 DEF ReadsBatch
  <2> QED BY <1>1, <2>1, <2>2 DEF ReadAt
<1> QED BY <1>5, <1>6, <1>7 DEF ReadsBatch, SameLoops, ReadsOnly

\* What the top loop, if it goes over batch n, reads.
LEMMA TopReads ==
  ASSUME stack \in Seq(FrameType), stack # <<>>, LoopsOK
  PROVE  /\ Top = stack[1] /\ 1 \in DOMAIN stack
         /\ Top.loop = "requests" => ReadAt(stack, Top.n) = {Top.next}
         /\ \A k \in DOMAIN stack : k # 1 /\ Top.loop = "requests"
              => ~ReadsBatch(stack[k], Top.n)
<1>1. Top = stack[1] /\ 1 \in DOMAIN stack
  BY DEF Top
<1>2. ASSUME NEW k \in DOMAIN stack, k # 1, Top.loop = "requests"
      PROVE  ~ReadsBatch(stack[k], Top.n)
  BY <1>1, <1>2 DEF LoopsOK, ReadsBatch
<1>3. Top.loop = "requests" => ReadAt(stack, Top.n) = {Top.next}
  BY <1>1, <1>2 DEF ReadAt, ReadsBatch
<1> QED BY <1>1, <1>2, <1>3

LEMMA LeaveLoop ==
  ASSUME stack \in Seq(FrameType), stack # <<>>, LoopsOK, Leave
  PROVE  /\ LoopsOK'
         /\ Top.loop # "requests" => SameLoops
         /\ Top.loop = "requests" => ReadAt(stack', Top.n) = {}
                                       /\ ReadsOnly(Top.n)
<1>1. /\ DOMAIN stack' = 1 .. Len(stack) - 1
      /\ \A k \in DOMAIN stack' : k + 1 \in DOMAIN stack
                                    /\ stack'[k] = stack[k + 1]
      /\ DOMAIN stack = 1 .. Len(stack) /\ Len(stack) \in Nat
  BY DEF Leave
<1>2. \A k \in DOMAIN stack : k # 1 => k - 1 \in DOMAIN stack'
                                         /\ stack'[k - 1] = stack[k]
  BY <1>1
<1>3. LoopsOK'
  <2>1. ASSUME NEW j \in DOMAIN stack', NEW k \in DOMAIN stack',
               stack'[j].loop = "requests", stack'[k].loop = "requests",
               stack'[j].n = stack'[k].n
        PROVE  j = k
    <3>1. j + 1 = k + 1 BY <1>1, <2>1 DEF LoopsOK
    <3> QED BY <1>1, <3>1
  <2>2. ASSUME NEW k \in DOMAIN stack' PROVE NoAnswer(stack'[k].array)
    BY <1>1 DEF LoopsOK
  <2> QED BY <2>1, <2>2 DEF LoopsOK
<1>4. ASSUME NEW n, ~ReadsBatch(Top, n)
      PROVE  ReadAt(stack', n) = ReadAt(stack, n)
  <2>1. ReadAt(stack', n) \subseteq ReadAt(stack, n)
    BY <1>1 DEF ReadAt
  <2>2. ReadAt(stack, n) \subseteq ReadAt(stack', n)
    BY <1>2, <1>4, TopReads DEF ReadAt
  <2> QED BY <2>1, <2>2
<1>5. ASSUME Top.loop = "requests" PROVE ReadAt(stack', Top.n) = {}
  <2>1. \A k \in DOMAIN stack' : ~ReadsBatch(stack'[k], Top.n)
    <3>1. \A k \in DOMAIN stack' : k + 1 # 1 BY <1>1
    <3> QED BY <1>1, <1>5, <3>1, TopReads
  <2> QED BY <2>1 DEF ReadAt
<1> QED BY <1>3, <1>4, <1>5 DEF ReadsBatch, SameLoops, ReadsOnly

LEMMA AdvanceLoop ==
  ASSUME stack \in Seq(FrameType), stack # <<>>, LoopsOK,
         NEW user \in BOOLEAN, NEW array \in Seq(Body),
         Top \in ReadFrame => array = <<>>, NoAnswer(array),
         Advance(user, array)
  PROVE  /\ LoopsOK'
         /\ Top.loop # "requests" => SameLoops
         /\ Top.loop = "requests" => ReadAt(stack', Top.n) = {Top.next + 1}
                                       /\ ReadsOnly(Top.n)
<1> DEFINE f == NextFrame(Top, user, array)
           s == Tail(stack)
<1>1. /\ Top \in FrameType /\ s \in Seq(FrameType)
      /\ Len(s) + 1 = Len(stack) /\ Top = stack[1]
      /\ \A k \in 2 .. Len(stack) : s[k - 1] = stack[k]
  BY DEF Top
<1>2. /\ f \in FrameType /\ f.loop = Top.loop /\ f.n = Top.n
  BY <1>1, NextFrameType
<1>3. f.next = Top.next + 1 /\ f.array = array
  BY <1>1 DEF NextFrame, FrameType, SendFrame, ReadFrame
<1>4. stack' = <<f>> \o s
  BY DEF Advance, NextFrame
<1> HIDE DEF f, s
<1>5. /\ DOMAIN stack' = DOMAIN stack /\ 1 \in DOMAIN stack
      /\ stack'[1] = f
      /\ \A k \in DOMAIN stack : k # 1 => stack'[k] = stack[k]
  <2>1. Len(stack') = Len(stack) /\ stack' \in Seq(FrameType)
    BY <1>1, <1>2, <1>4, ConsType
  <2>2. /\ stack'[1] = f
        /\ \A k \in 2 .. Len(stack) : stack'[k] = stack[k]
    BY <1>1, <1>2, <1>4, ConsType
  <2> QED BY <2>1, <2>2
<1>6. LoopsOK'
  <2>1. \A k \in DOMAIN stack : /\ stack'[k].loop = stack[k].loop
                                /\ stack'[k].n = stack[k].n
    BY <1>1, <1>2, <1>5
  <2>2. ASSUME NEW k \in DOMAIN stack' PROVE NoAnswer(stack'[k].array)
    <3>1. CASE k = 1 BY <1>3, <1>5, <3>1
    <3>2. CASE k # 1 BY <1>5, <3>2 DEF LoopsOK
    <3> QED BY <3>1, <3>2
  <2> QED BY <1>5, <2>1, <2>2 DEF LoopsOK
<1>7. ASSUME NEW n, ~ReadsBatch(Top, n)
      PROVE  ReadAt(stack', n) = ReadAt(stack, n)
  <2>1. {k \in DOMAIN stack' : ReadsBatch(stack'[k], n)}
          = {k \in DOMAIN stack : ReadsBatch(stack[k], n)}
    BY <1>1, <1>2, <1>5, <1>7 DEF ReadsBatch
  <2>2. 1 \notin {k \in DOMAIN stack : ReadsBatch(stack[k], n)}
    BY <1>1, <1>7
  <2> QED BY <1>5, <2>1, <2>2 DEF ReadAt
<1>8. ASSUME Top.loop = "requests" PROVE ReadAt(stack', Top.n) = {Top.next + 1}
  <2>1. ReadsBatch(stack'[1], Top.n) BY <1>2, <1>5, <1>8 DEF ReadsBatch
  <2>2. \A k \in DOMAIN stack' : ReadsBatch(stack'[k], Top.n) => k = 1
    BY <1>5, <1>8, TopReads
  <2> QED BY <1>3, <1>5, <2>1, <2>2 DEF ReadAt
<1> QED BY <1>6, <1>7, <1>8 DEF ReadsBatch, SameLoops, ReadsOnly

\* A message is added to the wire.
LEMMA OneMoreMessage ==
  ASSUME wire \in Seq(MessageType), WireOK, NEW m, wire' = Append(wire, m),
         KeepsReceived, MessageOK(m, DOMAIN received')
  PROVE  /\ WireOK'
         /\ \A n : ~IsAbout(m, n) => AnswersTo(wire', n) = AnswersTo(wire, n)
         /\ \A n : IsAbout(m, n) /\ AnswersTo(wire, n) = {}
              => AnswersTo(wire', n) = {<<Len(wire) + 1, m>>}
<1>1. /\ DOMAIN wire' = DOMAIN wire \cup {Len(wire) + 1}
      /\ Len(wire) + 1 \notin DOMAIN wire
      /\ wire'[Len(wire) + 1] = m
      /\ \A k \in DOMAIN wire : wire'[k] = wire[k]
  OBVIOUS
<1>2. WireOK'
  <2>1. ASSUME NEW k \in DOMAIN wire
        PROVE  MessageOK(wire[k], DOMAIN received')
    <3>1. MessageOK(wire[k], DOMAIN received) BY DEF WireOK
    <3>2. DOMAIN received \subseteq DOMAIN received' BY DEF KeepsReceived
    <3> QED BY <3>1, <3>2 DEF MessageOK
  <2> QED BY <1>1, <2>1 DEF WireOK
<1>3. ASSUME NEW n, ~IsAbout(m, n)
      PROVE  AnswersTo(wire', n) = AnswersTo(wire, n)
  BY <1>1, <1>3 DEF AnswersTo
<1>4. ASSUME NEW n, IsAbout(m, n), AnswersTo(wire, n) = {}
      PROVE  AnswersTo(wire', n) = {<<Len(wire) + 1, m>>}
  <2>1. \A k \in DOMAIN wire : ~IsAbout(wire[k], n)
    BY <1>4 DEF AnswersTo
  <2>2. {k \in DOMAIN wire' : IsAbout(wire'[k], n)} = {Len(wire) + 1}
    BY <1>1, <1>4, <2>1
  <2> QED BY <1>1, <2>2 DEF AnswersTo
<1> QED BY <1>2, <1>3, <1>4

LEMMA NoMoreMessage ==
  ASSUME WireOK, KeepsReceived, UNCHANGED wire
  PROVE  WireOK' /\ \A n : AnswersTo(wire', n) = AnswersTo(wire, n)
<1>1. DOMAIN received \subseteq DOMAIN received' BY DEF KeepsReceived
<1> QED BY <1>1 DEF WireOK, MessageOK

\* A message without answers, or none, is added.
Asks == \/ UNCHANGED wire
        \/ \E m : /\ wire' = Append(wire, m)
                  /\ m.bodies # <<>> /\ NoAnswer(m.bodies)

LEMMA AsksFacts ==
  ASSUME OutputOK, OutputOK', WireOK, KeepsReceived, Asks
  PROVE  WireOK' /\ \A n : AnswersTo(wire', n) = AnswersTo(wire, n)
<1>1. CASE UNCHANGED wire BY <1>1, NoMoreMessage
<1>2. ASSUME NEW m, wire' = Append(wire, m), m.bodies # <<>>,
             NoAnswer(m.bodies)
      PROVE  WireOK' /\ \A n : AnswersTo(wire', n) = AnswersTo(wire, n)
  <2>1. MessageOK(m, DOMAIN received') BY <1>2 DEF MessageOK
  <2>2. m \in MessageType
    <3>1. m = wire'[Len(wire) + 1] /\ Len(wire) + 1 \in DOMAIN wire'
      BY <1>2 DEF OutputOK
    <3> QED BY <3>1 DEF OutputOK
  <2>3. \A n : ~IsAbout(m, n)
    <3>1. 1 \in DOMAIN m.bodies BY <1>2, <2>2 DEF MessageType
    <3> QED BY <1>2, <3>1 DEF NoAnswer, IsAbout
  <2> QED BY <1>2, <2>1, <2>3, OneMoreMessage DEF OutputOK
<1> QED BY <1>1, <1>2 DEF Asks

---------------------------------------------------------------------------
\* The steps that do not concern the answers.

LEMMA Quiet ==
  ASSUME BatchInv, OutputOK', UNCHANGED <<batch, open, received>>, SameLoops,
         Asks, fault' = "none" => fault = "none"
  PROVE  WireOK' /\ DocsOK'
<1>1. WireOK' /\ \A n : AnswersTo(wire', n) = AnswersTo(wire, n)
  BY AsksFacts, SameReceived DEF BatchInv, Inv
<1>2. ASSUME NEW n \in 1..MaxArrivals PROVE DocOK(n)'
  <2>1. SameDoc(n)
    BY <1>1 DEF SameDoc, SameLoops
  <2> QED BY <2>1, SameDocOK DEF BatchInv, DocsOK
<1> QED BY <1>1, <1>2 DEF BatchInv, DocsOK

\* The stack does not change.
LEMMA LoopsSame ==
  ASSUME LoopsOK, UNCHANGED stack
  PROVE  LoopsOK' /\ SameLoops
  BY DEF LoopsOK, SameLoops

\* Only the configuration and the requests held can change what DetachedOK
\* says, and single requests are held only while the object is there.
LEMMA DetachedSame ==
  ASSUME Inv, DetachedOK, UNCHANGED configVars, KeepsReceived,
         fault' = "useAfterFree" => fault = "useAfterFree",
         \A r \in open' : r \in open \/ alive
                            \/ received'[r[1]].doc.type # "object"
  PROVE  DetachedOK'
<1>1. \A r \in open : received'[r[1]].doc = received[r[1]].doc
  BY DEF Inv, ServerOK, OpenAreRequests, KeepsReceived
<1> QED BY <1>1 DEF DetachedOK, configVars, IsHeldAlone

LEMMA ConfigureBatch == BatchInv /\ Configure => BatchInv'
<1> SUFFICES ASSUME BatchInv, Configure PROVE BatchInv'
  OBVIOUS
<1>1. Inv' BY ConfigureStep DEF BatchInv
<1>2. UNCHANGED <<batch, open, received, stack, fault, wire>>
  BY DEF Configure, SetTransport, SetMessageHandler,
         SetDefaultMessageHandler, Destroy, serverVars
<1>3. LoopsOK' /\ SameLoops
  BY <1>2, LoopsSame DEF BatchInv
<1>4. WireOK' /\ DocsOK'
  BY <1>1, <1>2, <1>3, Quiet DEF Asks, Inv
<1>5. DetachedOK'
  <2>1. ASSUME NEW t \in Swaps, SetTransport(t) PROVE DetachedOK'
    <3>1. /\ hooked' = (hooked \ {transport}) \cup ({t} \ {NoTransport})
          /\ transport' = t /\ alive /\ alive' = alive
      BY <2>1 DEF SetTransport, MayUse
    <3>2. hooked \subseteq {transport}
      BY DEF BatchInv, DetachedOK
    <3>3. hooked' \subseteq {transport'} \ {NoTransport}
      BY <3>1, <3>2
    <3>4. fault' = "useAfterFree" => MayDrainEarly \/ MayDestroy = "ever"
      BY <1>2 DEF BatchInv, DetachedOK
    <3>5. alive' BY <3>1
    <3> QED BY <3>3, <3>4, <3>5 DEF DetachedOK
  <2>2. CASE Destroy
    <3>1. MayDestroy # "ever" => MayDestroy = "detached"
      BY <2>2, ConstantsAssumption DEF Destroy, ConstantsAssumption
    <3>2. hooked' = hooked /\ transport' = transport /\ ~alive'
      BY <2>2 DEF Destroy
    <3>3. MayDestroy # "ever" =>
            transport = NoTransport /\ \A r \in open : ~IsHeldAlone(r)
      BY <2>2, <3>1 DEF Destroy
    <3> QED BY <1>2, <3>2, <3>3 DEF BatchInv, DetachedOK, IsHeldAlone
  <2>3. CASE UNCHANGED <<alive, transport, hooked>>
    BY <1>2, <2>3 DEF BatchInv, DetachedOK, IsHeldAlone
  <2> QED BY <2>1, <2>2, <2>3
          DEF Configure, SetMessageHandler, SetDefaultMessageHandler
<1> QED BY <1>1, <1>3, <1>4, <1>5 DEF BatchInv

\* Requests and notifications are no answers.
LEMMA BodiesAsk ==
  /\ \A id, c : NoAnswer(<<RequestBody(id, c)>>)
  /\ NoAnswer(<<NotificationBody>>)
  /\ \A bodies \in Seq(Body) : NoAnswer(bodies) =>
       /\ NoAnswer(Append(bodies, NotificationBody))
       /\ \A id, c : NoAnswer(Append(bodies, RequestBody(id, c)))
<1>1. /\ \A id, c : RequestBody(id, c).kind # "response"
      /\ NotificationBody.kind # "response"
  BY DEF RequestBody, NotificationBody
<1>2. ASSUME NEW bodies \in Seq(Body), NEW body, body.kind # "response",
             NoAnswer(bodies)
      PROVE  NoAnswer(Append(bodies, body))
  BY <1>2 DEF NoAnswer
<1>3. ASSUME NEW body, body.kind # "response" PROVE NoAnswer(<<body>>)
  BY <1>3 DEF NoAnswer
<1> QED BY <1>1, <1>2, <1>3

LEMMA SendAsks ==
  ASSUME NEW array, NEW bodies, bodies # <<>>, NoAnswer(bodies),
         SendMessage(array, bodies), fault # "useAfterFree"
  PROVE  /\ Asks
         /\ fault' = "none" => fault = "none"
         /\ fault' # "useAfterFree"
<1>1. Message(transport, array, bodies).bodies = bodies
  BY DEF Message
<1> QED BY <1>1 DEF SendMessage, Asks

LEMMA CallBatch == BatchInv /\ Call => BatchInv'
<1> SUFFICES ASSUME BatchInv, Call PROVE BatchInv'
  OBVIOUS
<1>1. Inv' BY CallStep DEF BatchInv
<1>2. /\ fault = "none"
      /\ UNCHANGED <<batch, open, received, alive, transport, hooked>>
  BY DEF Call, SendRequest, SendNotification, SendBatch, MayCall, MayUse,
         InUser, serverVars, configVars
<1>3. LoopsOK' /\ SameLoops
  <2>1. ASSUME NEW items \in OutBatches, SendBatch(items)
        PROVE  LoopsOK' /\ SameLoops
    <3>1. Frame("send", 0, items) \in FrameType
      BY NewFrames, ConstantsAssumption DEF ConstantsAssumption, FrameType
    <3>2. /\ Frame("send", 0, items).loop = "send"
          /\ Frame("send", 0, items).array = <<>>
      BY DEF Frame
    <3> QED BY <2>1, <3>1, <3>2, EnterLoop DEF SendBatch, BatchInv, Inv, StackOK
  <2>2. CASE UNCHANGED stack
    BY <2>2, LoopsSame DEF BatchInv
  <2> QED BY <2>1, <2>2 DEF Call, SendRequest, SendNotification
<1>4. Asks /\ fault' # "useAfterFree"
  <2>1. ASSUME NEW id \in AnyId, SendRequest(id)
        PROVE  Asks /\ fault' # "useAfterFree"
    <3>1. CASE CanRegister(id)
      BY <1>2, <2>1, <3>1, BodiesAsk, SendAsks DEF SendRequest
    <3>2. CASE ~CanRegister(id)
      BY <1>2, <2>1, <3>2 DEF SendRequest, Asks
    <3> QED BY <3>1, <3>2
  <2>2. CASE SendNotification
    BY <1>2, <2>2, BodiesAsk, SendAsks DEF SendNotification
  <2>3. ASSUME NEW items \in OutBatches, SendBatch(items)
        PROVE  Asks /\ fault' # "useAfterFree"
    BY <1>2, <2>3 DEF SendBatch, Asks
  <2> QED BY <1>2, <2>1, <2>2, <2>3 DEF Call
<1>5. WireOK' /\ DocsOK'
  BY <1>1, <1>2, <1>3, <1>4, Quiet DEF Inv
<1>6. DetachedOK'
  BY <1>2, <1>4 DEF BatchInv, DetachedOK, IsHeldAlone
<1> QED BY <1>1, <1>3, <1>5, <1>6 DEF BatchInv

LEMMA SendLoopBatch ==
  BatchInv /\ (SendBatchNotification \/ SendBatchRequest \/ SendBatchEnd)
    => BatchInv'
<1> SUFFICES ASSUME BatchInv,
                    SendBatchNotification \/ SendBatchRequest \/ SendBatchEnd
             PROVE  BatchInv'
  OBVIOUS
<1>1. Inv' BY SendLoopStep DEF BatchInv
<1>2. /\ fault = "none" /\ Running("send")
      /\ UNCHANGED <<batch, open, received, alive, transport, hooked>>
  BY DEF SendBatchNotification, SendBatchRequest, SendBatchEnd, Running,
         serverVars, configVars
<1>3. /\ stack # <<>> /\ Top \notin ReadFrame /\ Top.array \in Seq(Body)
      /\ Top.loop = "send" /\ stack \in Seq(FrameType) /\ LoopsOK
  BY <1>2, SendTop DEF BatchInv, Inv, StackOK, Running, Top
<1>4. NoAnswer(Top.array)
  BY <1>3, TopReads DEF LoopsOK
<1>5. CASE SendBatchNotification
  <2>1. /\ Append(Top.array, NotificationBody) \in Seq(Body)
        /\ NoAnswer(Append(Top.array, NotificationBody))
    BY <1>3, <1>4, BodyTypes, BodiesAsk
  <2>2. LoopsOK' /\ SameLoops
    BY <1>3, <1>5, <2>1, AdvanceLoop DEF SendBatchNotification
  <2>3. Asks /\ fault' = fault
    BY <1>5 DEF SendBatchNotification, Asks
  <2>4. WireOK' /\ DocsOK'
    BY <1>1, <1>2, <2>2, <2>3, Quiet DEF Inv
  <2>5. DetachedOK'
    BY <1>2, <2>3 DEF BatchInv, DetachedOK, IsHeldAlone
  <2> QED BY <1>1, <2>2, <2>4, <2>5 DEF BatchInv
<1>6. CASE SendBatchRequest
  <2>1. /\ Append(Top.array, RequestBody(TopItem, NextCall)) \in Seq(Body)
        /\ NoAnswer(Append(Top.array, RequestBody(TopItem, NextCall)))
    <3>1. TopItem \in AnyId
      BY <1>2, <1>6, SendTop DEF SendBatchRequest, BatchInv, Inv
    <3>2. NextCall \in Nat
      BY DEF NextCall, BatchInv, Inv, ClientOK
    <3> QED BY <1>3, <1>4, <3>1, <3>2, BodyTypes, BodiesAsk
  <2>2. LoopsOK' /\ SameLoops
    <3>1. CASE CanRegister(TopItem)
      BY <1>3, <1>6, <2>1, <3>1, AdvanceLoop DEF SendBatchRequest
    <3>2. CASE ~CanRegister(TopItem)
      BY <1>3, <1>4, <1>6, <3>2, AdvanceLoop DEF SendBatchRequest
    <3> QED BY <3>1, <3>2
  <2>3. Asks /\ fault' = fault
    BY <1>6 DEF SendBatchRequest, Asks
  <2>4. WireOK' /\ DocsOK'
    BY <1>1, <1>2, <2>2, <2>3, Quiet DEF Inv
  <2>5. DetachedOK'
    BY <1>2, <2>3 DEF BatchInv, DetachedOK, IsHeldAlone
  <2> QED BY <1>1, <2>2, <2>4, <2>5 DEF BatchInv
<1>7. CASE SendBatchEnd
  <2>1. LoopsOK' /\ SameLoops
    BY <1>3, <1>7, LeaveLoop DEF SendBatchEnd
  <2>2. Asks /\ fault' # "useAfterFree"
    <3>1. CASE Top.array # <<>>
      BY <1>2, <1>4, <1>7, <3>1, SendAsks DEF SendBatchEnd
    <3>2. CASE Top.array = <<>>
      BY <1>2, <1>7, <3>2 DEF SendBatchEnd, Asks
    <3> QED BY <3>1, <3>2
  <2>3. WireOK' /\ DocsOK'
    BY <1>1, <1>2, <2>1, <2>2, Quiet DEF Inv
  <2>4. DetachedOK'
    BY <1>2, <2>2 DEF BatchInv, DetachedOK, IsHeldAlone
  <2> QED BY <1>1, <2>1, <2>3, <2>4 DEF BatchInv
<1> QED BY <1>5, <1>6, <1>7

LEMMA ResponsesLoopBatch ==
  BatchInv /\ (ResponsesStep \/ ResponsesEnd) => BatchInv'
<1> SUFFICES ASSUME BatchInv, ResponsesStep \/ ResponsesEnd PROVE BatchInv'
  OBVIOUS
<1>1. Inv' BY ResponsesLoopStep DEF BatchInv
<1>2. /\ fault = "none" /\ Running("responses") /\ UNCHANGED <<fault, wire>>
      /\ UNCHANGED <<batch, open, received, alive, transport, hooked>>
  BY DEF ResponsesStep, ResponsesEnd, Running, serverVars, configVars
<1>3. /\ stack # <<>> /\ Top.loop = "responses"
      /\ stack \in Seq(FrameType) /\ LoopsOK
  BY <1>2 DEF BatchInv, Inv, StackOK, Running, Top
<1>4. LoopsOK' /\ SameLoops
  <2>1. CASE ResponsesStep
    <3>1. <<>> \in Seq(Body) /\ NoAnswer(<<>>)
      BY DEF NoAnswer
    <3> QED BY <1>3, <2>1, <3>1, AdvanceLoop DEF ResponsesStep
  <2>2. CASE ResponsesEnd
    BY <1>3, <2>2, LeaveLoop DEF ResponsesEnd
  <2> QED BY <2>1, <2>2
<1>5. WireOK' /\ DocsOK'
  BY <1>1, <1>2, <1>4, Quiet DEF Inv, Asks
<1>6. DetachedOK'
  BY <1>2 DEF BatchInv, DetachedOK, IsHeldAlone
<1> QED BY <1>1, <1>4, <1>5, <1>6 DEF BatchInv

\* A protocol that is destroyed in good order is not called after it.
LEMMA UseDestroyedBatch == BatchInv /\ UseDestroyed => BatchInv'
<1> SUFFICES ASSUME BatchInv, UseDestroyed PROVE BatchInv'
  OBVIOUS
<1>1. Inv' BY UseDestroyedStep DEF BatchInv
<1>2. UNCHANGED <<stack, wire, batch, open, received, alive, transport, hooked>>
  BY DEF UseDestroyed, serverVars, configVars
<1>3. LoopsOK' /\ SameLoops
  BY <1>2, LoopsSame DEF BatchInv
<1>4. WireOK' /\ DocsOK'
  BY <1>1, <1>2, <1>3, Quiet DEF Inv, Asks, UseDestroyed
<1>5. MayDestroy = "ever"
  BY DEF UseDestroyed, BatchInv, DetachedOK
<1>6. DetachedOK'
  BY <1>2, <1>5 DEF BatchInv, DetachedOK
<1> QED BY <1>1, <1>3, <1>4, <1>6 DEF BatchInv

---------------------------------------------------------------------------
\* The steps that concern one document.

\* What is known of document n.
LEMMA DocFacts ==
  ASSUME BatchInv, NEW n \in 1..MaxArrivals, n \in DOMAIN received
  PROVE  /\ n \in Nat /\ received[n] \in ArrivalType /\ batch[n] \in BatchType
         /\ HeldOf(open, n) \in SUBSET ({n} \X Nat)
         /\ IsFiniteSet(HeldOf(open, n))
         /\ fault = "none" =>
              InOrder(n, received[n], batch[n], HeldOf(open, n),
                      ReadAt(stack, n), AnswersTo(wire, n))
<1>1. n \in Nat /\ received[n] \in ArrivalType /\ batch[n] \in BatchType
  BY ConstantsAssumption DEF BatchInv, Inv, ServerOK, ConstantsAssumption
<1>2. HeldOf(open, n) \in SUBSET ({n} \X Nat)
  BY DEF HeldOf, BatchInv, Inv, ServerOK
<1>3. IsFiniteSet(HeldOf(open, n))
  <2>1. HeldOf(open, n) \in SUBSET open BY DEF HeldOf
  <2> QED BY <2>1, FS_Subset DEF BatchInv, DocsOK
<1>4. DocOK(n) BY DEF BatchInv, DocsOK
<1>5. fault = "none" =>
        InOrder(n, received[n], batch[n], HeldOf(open, n), ReadAt(stack, n),
                AnswersTo(wire, n))
  BY <1>4 DEF DocOK, InOrder
<1> QED BY <1>1, <1>2, <1>3, <1>5

\* What must be shown for the document that changes, and for the others.
LEMMA ThisDocument ==
  ASSUME NEW n, n \in DOMAIN received',
         InOrder(n, received'[n], batch'[n], HeldOf(open', n),
                 ReadAt(stack', n), AnswersTo(wire', n))
  PROVE  DocOK(n)'
  BY DEF DocOK, InOrder

LEMMA OneDocument ==
  ASSUME BatchInv, NEW n \in 1..MaxArrivals, DocOK(n)', IsFiniteSet(open'),
         \A m \in 1..MaxArrivals : m # n => SameDoc(m)
  PROVE  DocsOK'
<1>1. ASSUME NEW m \in 1..MaxArrivals PROVE DocOK(m)'
  <2>1. CASE m = n BY <2>1
  <2>2. CASE m # n BY <2>2, SameDocOK DEF BatchInv, DocsOK
  <2> QED BY <2>1, <2>2
<1> QED BY <1>1 DEF DocsOK

\* The loop over a request batch that is running.
LEMMA BatchTop ==
  ASSUME BatchInv, Running("requests")
  PROVE  /\ stack # <<>> /\ stack \in Seq(FrameType) /\ LoopsOK
         /\ Top \in ReadFrame /\ Top.loop = "requests" /\ fault = "none"
         /\ Top.n \in 1..MaxArrivals /\ Top.n \in DOMAIN received
         /\ Top.next \in Nat
         /\ IsBatch(received[Top.n])
         /\ ReadAt(stack, Top.n) = {Top.next}
         /\ InOrder(Top.n, received[Top.n], batch[Top.n], HeldOf(open, Top.n),
                    {Top.next}, AnswersTo(wire, Top.n))
         /\ More => /\ Top.next \in DOMAIN received[Top.n].doc.items
                    /\ TopItem = received[Top.n].doc.items[Top.next]
                    /\ TopItem \in Item
         /\ ~More => Len(received[Top.n].doc.items) < Top.next
<1>1. /\ stack # <<>> /\ stack \in Seq(FrameType) /\ LoopsOK
      /\ Top.loop = "requests" /\ fault = "none" /\ Top = stack[1]
      /\ 1 \in DOMAIN stack
  BY DEF BatchInv, Inv, StackOK, Running, Top
<1>2. /\ Top \in ReadFrame /\ Top.n \in 1..MaxArrivals
      /\ Top.next \in Nat \ {0} /\ Top.n \in DOMAIN received
      /\ More => /\ Top.next \in DOMAIN received[Top.n].doc.items
                 /\ TopItem = received[Top.n].doc.items[Top.next]
                 /\ TopItem \in Item
  BY ReadTop DEF BatchInv, Inv
<1>3. ReadAt(stack, Top.n) = {Top.next}
  BY <1>1, TopReads
<1>4. InOrder(Top.n, received[Top.n], batch[Top.n], HeldOf(open, Top.n),
              {Top.next}, AnswersTo(wire, Top.n))
  BY <1>1, <1>2, <1>3, DocFacts
<1>5. IsBatch(received[Top.n])
  BY <1>4 DEF InOrder, DocumentOK, BatchOK
<1>6. ~More => Len(received[Top.n].doc.items) < Top.next
  <2>1. Top.items = received[Top.n].doc.items
    BY <1>1 DEF BatchInv, Inv, StackOK, FramesRead
  <2>2. Len(Top.items) \in Nat BY <1>2 DEF ReadFrame
  <2> QED BY <1>2, <2>1, <2>2 DEF More
<1> QED BY <1>1, <1>2, <1>3, <1>4, <1>5, <1>6

\* A step of the loop that goes on: what is left to show.
LEMMA BatchAdvance ==
  ASSUME BatchInv, Inv', Running("requests"), NEW user \in BOOLEAN,
         Advance(user, <<>>), UNCHANGED <<received, fault, wire, configVars>>,
         IsFiniteSet(open'),
         \A m \in 1..MaxArrivals : m # Top.n =>
           batch'[m] = batch[m] /\ HeldOf(open', m) = HeldOf(open, m),
         \A r \in open' : r \in open \/ ~IsHeldAlone(r),
         InOrder(Top.n, received[Top.n], batch'[Top.n], HeldOf(open', Top.n),
                 {Top.next + 1}, AnswersTo(wire, Top.n))
  PROVE  BatchInv'
<1>1. LoopsOK' /\ ReadAt(stack', Top.n) = {Top.next + 1} /\ ReadsOnly(Top.n)
  <2>1. <<>> \in Seq(Body) /\ NoAnswer(<<>>) BY DEF NoAnswer
  <2> QED BY <2>1, BatchTop, AdvanceLoop
<1>2. WireOK' /\ \A m : AnswersTo(wire', m) = AnswersTo(wire, m)
  BY NoMoreMessage, SameReceived DEF BatchInv
<1>3. PICK n \in 1..MaxArrivals : n = Top.n
  BY BatchTop
<1>4. DocOK(n)'
  <2>1. n \in DOMAIN received' /\ received'[n] = received[n]
    BY <1>3, BatchTop
  <2> QED BY <1>1, <1>2, <1>3, <2>1, ThisDocument
<1>5. DocsOK'
  <2>1. \A m \in 1..MaxArrivals : m # n => SameDoc(m)
    BY <1>1, <1>2, <1>3 DEF SameDoc, ReadsOnly
  <2> QED BY <1>4, <2>1, OneDocument
<1>6. DetachedOK'
  BY DEF BatchInv, DetachedOK, IsHeldAlone, configVars
<1> QED BY <1>1, <1>2, <1>5, <1>6 DEF BatchInv

\* An element of a batch that is answered at once.
LEMMA FinishBatch ==
  ASSUME BatchInv, Inv', Running("requests"), More, ~Freed,
         ~IsNotification(TopItem), NEW id \in AnyId,
         id = IF IsRequest(TopItem) THEN TopItem.id ELSE NullId,
         Advance(FALSE, <<>>), UNCHANGED <<received, fault, wire, configVars>>,
         UNCHANGED open,
         batch' = Finish(Top.n, ResponseBody(id, <<Top.n, Top.next>>))
  PROVE  BatchInv'
<1> DEFINE n == Top.n
           i == Top.next
           a == received[n]
           body == ResponseBody(id, <<n, i>>)
<1>1. /\ n \in Nat /\ n \in 1..MaxArrivals /\ i \in Nat /\ a \in ArrivalType
      /\ batch[n] \in BatchType /\ IsBatch(a)
      /\ i \in DOMAIN a.doc.items /\ TopItem = a.doc.items[i]
  BY BatchTop, DocFacts
<1>2. /\ body \in Body /\ body.ref = <<n, i>> /\ body.id = id
      /\ body.kind = "response"
  BY <1>1, BodyTypes DEF ResponseBody
<1>3. RightBody(n, a, body)
  <2>1. Owes(a, i) BY <1>1, SMTT(30) DEF Owes
  <2>2. RightId(a, i) = id
    BY <1>1, BatchIsValid, ZenonT(60) DEF RightId
  <2> QED BY <1>2, <2>1, <2>2, SMTT(30) DEF RightBody
<1>4. batch[n].state = "alive"
  <2>1. BatchOK(n, a, batch[n], HeldOf(open, n), {i})
    BY BatchTop, SMTT(30) DEF InOrder, DocumentOK
  <2> QED BY <1>1, <2>1 DEF BatchOK, Freed, ThisBatch
<1>5. /\ batch'[n] = [batch[n] EXCEPT !.finished = Append(@, body)]
      /\ \A m \in 1..MaxArrivals : m # n => batch'[m] = batch[m]
  BY <1>1 DEF Finish, BatchInv, Inv, ServerOK
<1>6. InOrder(n, a, batch'[n], HeldOf(open', n), {i + 1}, AnswersTo(wire, n))
  <2>1. HeldOf(open, n) \in SUBSET ({n} \X Nat)
    BY BatchTop, DocFacts
  <2>2. InOrder(n, a, batch[n], HeldOf(open, n), {i}, AnswersTo(wire, n))
    BY BatchTop
  <2> HIDE DEF n, i, a, body
  <2>3. InOrder(n, a, [batch[n] EXCEPT !.finished = Append(@, body)],
                HeldOf(open, n), {i + 1}, AnswersTo(wire, n))
    BY <1>1, <1>2, <1>3, <1>4, <2>1, <2>2, ItemCollected
  <2> QED BY <1>5, <2>3
<1> QED BY <1>5, <1>6, BatchAdvance DEF BatchInv, DocsOK

LEMMA BatchInvalidBatch == BatchInv /\ BatchInvalid => BatchInv'
<1> SUFFICES ASSUME BatchInv, BatchInvalid PROVE BatchInv'
  OBVIOUS
<1>1. Inv' BY BatchLoopStep DEF BatchInv
<1>2. NullId \in AnyId
  BY ConstantsAssumption DEF ConstantsAssumption, AnyId
<1> QED BY <1>1, <1>2, FinishBatch DEF BatchInvalid, ErrorBody

LEMMA BatchNotificationBatch == BatchInv /\ BatchNotification => BatchInv'
<1> SUFFICES ASSUME BatchInv, BatchNotification PROVE BatchInv'
  OBVIOUS
<1>1. Inv' BY BatchLoopStep DEF BatchInv
<1>2. HasHandler(TopItem.method) \in BOOLEAN
  BY BatchTop
  DEF HasHandler, BatchNotification, IsNotification, BatchInv, Inv, ConfigOK
<1>3. InOrder(Top.n, received[Top.n], batch[Top.n], HeldOf(open, Top.n),
              {Top.next + 1}, AnswersTo(wire, Top.n))
  <2>1. ~Owes(received[Top.n], Top.next)
    BY BatchTop DEF BatchNotification, Owes
  <2> QED BY <2>1, BatchTop, DocFacts, ItemSkipped DEF BatchNotification
<1> QED BY <1>1, <1>2, <1>3, BatchAdvance
        DEF BatchNotification, serverVars, BatchInv, DocsOK

LEMMA BatchRequestBatch == BatchInv /\ BatchRequest => BatchInv'
<1> SUFFICES ASSUME BatchInv, BatchRequest PROVE BatchInv'
  OBVIOUS
<1>1. Inv' BY BatchLoopStep DEF BatchInv
<1>2. CASE ~HasHandler(TopItem.method)
  <2>1. TopItem.id \in AnyId /\ ~IsNotification(TopItem)
    BY BatchTop, RequestId DEF BatchRequest, IsRequest, IsNotification
  <2> QED BY <1>1, <1>2, <2>1, FinishBatch DEF BatchRequest
<1>3. CASE HasHandler(TopItem.method)
  <2> DEFINE n == Top.n
             i == Top.next
             a == received[n]
             held == HeldOf(open, n)
  <2>1. /\ n \in Nat /\ n \in 1..MaxArrivals /\ i \in Nat /\ a \in ArrivalType
        /\ batch[n] \in BatchType /\ IsBatch(a)
        /\ i \in DOMAIN a.doc.items /\ TopItem = a.doc.items[i]
        /\ held \in SUBSET ({n} \X Nat) /\ IsFiniteSet(held)
    BY <1>3, BatchTop, DocFacts DEF BatchRequest
  <2>2. Owes(a, i)
    BY <2>1 DEF Owes, BatchRequest, IsRequest, IsNotification
  <2>3. batch[n].state = "alive"
    <3>1. BatchOK(n, a, batch[n], held, {i})
      BY BatchTop DEF InOrder, DocumentOK, BatchRequest
    <3> QED BY <2>1, <3>1 DEF BatchOK, BatchRequest, Freed, ThisBatch
  <2>4. /\ batch'[n] = [batch[n] EXCEPT !.pending = @ + 1]
        /\ \A m \in 1..MaxArrivals : m # n => batch'[m] = batch[m]
        /\ open' = open \cup {<<n, i>>}
    BY <1>3, <2>1 DEF BatchRequest, BatchInv, Inv, ServerOK
  <2>5. /\ HeldOf(open', n) = held \cup {<<n, i>>}
        /\ \A m : m # n => HeldOf(open', m) = HeldOf(open, m)
    <3> DEFINE r == <<n, i>>
    <3>1. r[1] = n /\ open' = open \cup {r}
      BY <2>4
    <3> HIDE DEF r, n, i
    <3>2. HeldOf(open', n) = held \cup {r}
      BY <3>1 DEF HeldOf
    <3>3. \A m : m # n => HeldOf(open', m) = HeldOf(open, m)
      BY <3>1 DEF HeldOf
    <3> QED BY <3>2, <3>3 DEF r
  <2>6. InOrder(n, a, batch'[n], HeldOf(open', n), {i + 1}, AnswersTo(wire, n))
    <3>1. InOrder(n, a, batch[n], held, {i}, AnswersTo(wire, n))
      BY BatchTop DEF BatchRequest
    <3> HIDE DEF n, i, a, held
    <3>2. InOrder(n, a, [batch[n] EXCEPT !.pending = @ + 1],
                  held \cup {<<n, i>>}, {i + 1}, AnswersTo(wire, n))
      BY <2>1, <2>2, <2>3, <3>1, ItemTaken
    <3> QED BY <2>4, <2>5, <3>2
  <2>7. ~IsHeldAlone(<<n, i>>)
    BY <2>1, BatchIsValid DEF IsHeldAlone
  <2>8. IsFiniteSet(open')
    BY <2>4, FS_AddElement DEF BatchInv, DocsOK
  <2>9. \A r \in open' : r \in open \/ ~IsHeldAlone(r)
    BY <2>4, <2>7
  <2> QED BY <1>1, <1>3, <2>4, <2>5, <2>6, <2>8, <2>9, BatchAdvance
          DEF BatchRequest
<1> QED BY <1>2, <1>3

\* The loop reaches a batch that was drained while it was read.
LEMMA BatchUseAfterFreeBatch == BatchInv /\ BatchUseAfterFree => BatchInv'
<1> SUFFICES ASSUME BatchInv, BatchUseAfterFree PROVE BatchInv'
  OBVIOUS
<1>1. Inv' BY BatchLoopStep DEF BatchInv
<1>2. UNCHANGED <<stack, wire, batch, open, received, alive, transport, hooked>>
  BY DEF BatchUseAfterFree, serverVars, configVars
<1>3. LoopsOK' /\ SameLoops
  BY <1>2, LoopsSame DEF BatchInv
<1>4. WireOK' /\ DocsOK'
  BY <1>1, <1>2, <1>3, Quiet DEF Inv, Asks, BatchUseAfterFree
<1>5. MayDrainEarly
  <2>1. BatchOK(Top.n, received[Top.n], batch[Top.n], HeldOf(open, Top.n),
                {Top.next})
    BY BatchTop DEF InOrder, DocumentOK, BatchUseAfterFree
  <2> QED BY <2>1, BatchTop
          DEF BatchUseAfterFree, BatchOK, Freed, ThisBatch
<1>6. DetachedOK'
  BY <1>2, <1>5 DEF BatchInv, DetachedOK, IsHeldAlone
<1> QED BY <1>1, <1>3, <1>4, <1>6 DEF BatchInv

\* The object of a batch with nothing left to wait for is deleted: it sends
\* what it has to the transport the batch came from, if there is anything.
LEMMA FlushFacts ==
  ASSUME BatchInv, NEW n \in 1..MaxArrivals, n \in DOMAIN received,
         UNCHANGED received, NEW b \in BatchType,
         IsBatch(received[n]), RightBodies(n, received[n], b.finished),
         b.to = received[n].from, AnswersTo(wire, n) = {}, Flush(b)
  PROVE  /\ WireOK'
         /\ AnswersTo(wire', n) = Flushed(b, Len(wire) + 1)
         /\ \A m : m # n => AnswersTo(wire', m) = AnswersTo(wire, m)
<1>1. b.to # NoTransport
  <2>1. received[n].from \in Transports
    BY DocFacts DEF ArrivalType
  <2> QED BY <2>1, ConstantsAssumption DEF ConstantsAssumption
<1>2. CASE b.finished = <<>>
  <2>1. wire' = wire BY <1>2 DEF Flush
  <2> QED BY <1>2, <2>1, NoMoreMessage, SameReceived DEF BatchInv, Flushed
<1>3. CASE b.finished # <<>>
  <2> DEFINE m == Message(b.to, TRUE, b.finished)
  <2>1. /\ wire' = Append(wire, m)
        /\ Flushed(b, Len(wire) + 1) = {<<Len(wire) + 1, m>>}
    BY <1>1, <1>3 DEF Flush, Flushed
  <2>2. m.bodies = b.finished BY DEF Message
  <2> HIDE DEF m
  <2>3. IsAbout(m, n) /\ \A k : k # n => ~IsAbout(m, k)
    <3>1. 1 \in DOMAIN b.finished BY <1>3, BatchFields
    <3> QED BY <2>2, <3>1 DEF IsAbout, RightBodies, RightBody
  <2>4. MessageOK(m, DOMAIN received')
    BY <1>3, <2>2, <2>3 DEF MessageOK
  <2> QED BY <2>1, <2>3, <2>4, OneMoreMessage, SameReceived
          DEF BatchInv, Inv, OutputOK
<1> QED BY <1>2, <1>3

LEMMA BatchEndBatch == BatchInv /\ BatchEnd => BatchInv'
<1> SUFFICES ASSUME BatchInv, BatchEnd PROVE BatchInv'
  OBVIOUS
<1>1. Inv' BY BatchLoopStep DEF BatchInv
<1>2. PICK n \in 1..MaxArrivals : n = Top.n
  BY BatchTop DEF BatchEnd
<1>3. PICK i \in Nat : i = Top.next
  BY BatchTop DEF BatchEnd
<1>4. /\ stack # <<>> /\ stack \in Seq(FrameType) /\ LoopsOK
      /\ Top.loop = "requests" /\ n \in DOMAIN received
      /\ IsBatch(received[n]) /\ Len(received[n].doc.items) < i
      /\ InOrder(n, received[n], batch[n], HeldOf(open, n), {i},
                 AnswersTo(wire, n))
      /\ UNCHANGED <<open, received, fault, alive, transport, hooked>>
  BY <1>2, <1>3, BatchTop DEF BatchEnd, configVars
<1>5. LoopsOK' /\ ReadAt(stack', n) = {} /\ ReadsOnly(n)
  BY <1>2, <1>4, LeaveLoop DEF BatchEnd
<1>6. /\ n \in Nat /\ received[n] \in ArrivalType /\ batch[n] \in BatchType
      /\ HeldOf(open, n) \in SUBSET ({n} \X Nat)
      /\ IsFiniteSet(HeldOf(open, n))
  BY <1>4, DocFacts
<1>7. BatchOK(n, received[n], batch[n], HeldOf(open, n), {i})
  BY <1>4 DEF InOrder, DocumentOK
<1>8. batch[n].state = "alive" /\ batch[n] = ThisBatch
  BY <1>2, <1>4, <1>7 DEF BatchOK, BatchEnd, Freed, ThisBatch
<1>9. /\ WireOK' /\ DocOK(n)'
      /\ \A m \in 1..MaxArrivals : m # n =>
           batch'[m] = batch[m] /\ AnswersTo(wire', m) = AnswersTo(wire, m)
  <2>1. CASE batch[n].pending = 0
    <3> DEFINE d == [batch[n] EXCEPT !.state = "deleted"]
    <3>1. /\ batch'[n] = d /\ Flush(batch[n])
          /\ \A m \in 1..MaxArrivals : m # n => batch'[m] = batch[m]
      BY <1>2, <1>8, <2>1 DEF BatchEnd, BatchInv, Inv, ServerOK
    <3>2. d \in BatchType /\ Deleted(batch[n], d)
      BY <1>6, BatchChanges, BatchFields DEF Deleted
    <3> HIDE DEF d
    <3>3. /\ HeldOf(open, n) = {} /\ AnswersTo(wire, n) = {}
          /\ InOrder(n, received[n], d, {}, {},
                     Flushed(batch[n], Len(wire) + 1))
      <4> DEFINE held == HeldOf(open, n)
                 answers == AnswersTo(wire, n)
                 k == Len(wire) + 1
      <4>1. /\ held \in SUBSET ({n} \X Nat) /\ IsFiniteSet(held)
            /\ InOrder(n, received[n], batch[n], held, {i}, answers)
        BY <1>4, <1>6
      <4> HIDE DEF held, answers, k
      <4>2. /\ held = {} /\ answers = {}
            /\ InOrder(n, received[n], d, {}, {}, Flushed(batch[n], k))
        BY <1>4, <1>6, <1>8, <2>1, <3>2, <4>1, BatchOver
      <4> QED BY <4>2 DEF held, answers, k
    <3>4. /\ WireOK'
          /\ AnswersTo(wire', n) = Flushed(batch[n], Len(wire) + 1)
          /\ \A m : m # n => AnswersTo(wire', m) = AnswersTo(wire, m)
      BY <1>4, <1>6, <1>7, <3>1, <3>3, FlushFacts DEF BatchOK
    <3>5. DocOK(n)'
      BY <1>4, <1>5, <3>1, <3>3, <3>4, ThisDocument
    <3> QED BY <3>1, <3>4, <3>5
  <2>2. CASE batch[n].pending # 0
    <3>1. UNCHANGED <<batch, wire>>
      BY <1>8, <2>2 DEF BatchEnd
    <3>2. HeldOf(open, n) # {}
      BY <1>4, <1>7, <2>2, FS_EmptySet DEF BatchOK
    <3>3. InOrder(n, received[n], batch[n], HeldOf(open, n), {},
                  AnswersTo(wire, n))
      BY <1>4, <1>6, <3>2, LoopOver
    <3>4. WireOK' /\ \A m : AnswersTo(wire', m) = AnswersTo(wire, m)
      BY <1>4, <3>1, NoMoreMessage, SameReceived DEF BatchInv
    <3>5. DocOK(n)'
      BY <1>4, <1>5, <3>1, <3>3, <3>4, ThisDocument
    <3> QED BY <3>1, <3>4, <3>5
  <2> QED BY <2>1, <2>2
<1>10. DocsOK'
  <2>1. \A m \in 1..MaxArrivals : m # n => SameDoc(m)
    BY <1>4, <1>5, <1>9 DEF SameDoc, ReadsOnly
  <2> QED BY <1>4, <1>9, <2>1, OneDocument DEF BatchInv, DocsOK
<1>11. DetachedOK'
  BY <1>4 DEF BatchInv, DetachedOK, IsHeldAlone
<1> QED BY <1>1, <1>5, <1>9, <1>10, <1>11 DEF BatchInv

\* What is known of a request user code holds.
LEMMA HeldFacts ==
  ASSUME BatchInv, NEW r \in open, fault = "none"
  PROVE  \E n \in 1..MaxArrivals, i \in Nat :
           /\ r = <<n, i>> /\ n \in DOMAIN received
           /\ r \in HeldOf(open, n) /\ Owes(received[n], i)
           /\ IsBatch(received[n]) \/ IsAlone(received[n])
           /\ i \in DOMAIN received[n].doc.items
           /\ IsRequest(received[n].doc.items[i])
           /\ ItemAt(r) = received[n].doc.items[i]
           /\ ItemAt(r).id \in AnyId
           /\ RightId(received[n], i) = ItemAt(r).id
<1>1. PICK n \in 1..MaxArrivals, i \in Nat : r = <<n, i>>
  BY DEF BatchInv, Inv, ServerOK
<1>2. /\ n \in DOMAIN received /\ i \in DOMAIN received[n].doc.items
      /\ IsRequest(received[n].doc.items[i])
      /\ ItemAt(r) = received[n].doc.items[i]
  BY <1>1 DEF BatchInv, Inv, ServerOK, OpenAreRequests, ItemAt
<1>3. r \in HeldOf(open, n)
  BY <1>1 DEF HeldOf
<1>4. Owes(received[n], i) /\ (IsBatch(received[n]) \/ IsAlone(received[n]))
  <2>1. HeldOK(received[n], HeldOf(open, n), ReadAt(stack, n))
    BY <1>2, DocFacts DEF InOrder, DocumentOK
  <2> QED BY <1>1, <1>3, <2>1 DEF HeldOK
<1>5. ItemAt(r).id \in AnyId
  <2>1. received[n].doc \in Documents
    BY <1>2, DocFacts DEF ArrivalType
  <2>2. ItemAt(r) \in Item
    BY <1>2, <2>1, DocumentItems
  <2> QED BY <1>2, <2>2, RequestId
<1>6. RightId(received[n], i) = ItemAt(r).id
  BY <1>2, <1>4, BatchIsValid DEF RightId, IsAlone
<1> QED BY <1>1, <1>2, <1>3, <1>4, <1>5, <1>6

\* What is left of the requests user code holds after it has answered one.
LEMMA OneLessHeld ==
  ASSUME NEW n, NEW i, open' = open \ {<<n, i>>}
  PROVE  /\ HeldOf(open', n) = HeldOf(open, n) \ {<<n, i>>}
         /\ \A m : m # n => HeldOf(open', m) = HeldOf(open, m)
<1> DEFINE r == <<n, i>>
<1>1. r[1] = n /\ open' = open \ {r} OBVIOUS
<1> HIDE DEF r
<1>2. HeldOf(open', n) = HeldOf(open, n) \ {r} BY <1>1 DEF HeldOf
<1>3. \A m : m # n => HeldOf(open', m) = HeldOf(open, m) BY <1>1 DEF HeldOf
<1> QED BY <1>2, <1>3 DEF r

\* A single answer goes out, or is lost when there is no transport.
LEMMA SingleSent ==
  ASSUME BatchInv, NEW n \in 1..MaxArrivals, NEW body \in Body, KeepsReceived,
         n \in DOMAIN received', received'[n] \in ArrivalType,
         batch'[n] \in BatchType, Unused(batch'[n]),
         ~IsBatch(received'[n]), HeldOf(open', n) = {}, ReadAt(stack', n) = {},
         AnswersTo(wire, n) = {}, body.ref = <<n, 1>>,
         RightBody(n, received'[n], body), fault = "none",
         SendMessage(FALSE, <<body>>)
  PROVE  /\ WireOK' /\ DocOK(n)' /\ fault' # "useAfterFree"
         /\ \A m : m # n => AnswersTo(wire', m) = AnswersTo(wire, m)
<1>0. n \in Nat
  BY ConstantsAssumption DEF ConstantsAssumption
<1>1. CASE transport = NoTransport
  <2>1. wire' = wire /\ fault' = "nullTransport"
    BY <1>1 DEF SendMessage
  <2>2. WireOK' /\ \A m : AnswersTo(wire', m) = AnswersTo(wire, m)
    BY <2>1, NoMoreMessage DEF BatchInv
  <2>3. DocumentOK(n, received'[n], batch'[n], {}, {}, {})
    BY <1>0, SingleLost
  <2>4. DocOK(n)'
    BY <2>1, <2>2, <2>3 DEF DocOK
  <2> QED BY <2>1, <2>2, <2>4
<1>2. CASE transport # NoTransport
  <2> DEFINE m == Message(transport, FALSE, <<body>>)
  <2>1. wire' = Append(wire, m) /\ fault' = fault
    BY <1>2 DEF SendMessage
  <2>2. m.bodies = <<body>> /\ m.array = FALSE
    BY DEF Message
  <2> HIDE DEF m
  <2>3. m.bodies # <<>> /\ m.bodies[1] = body
    BY <2>2
  <2>4. \A k : IsAbout(m, k) <=> k = n
    BY <2>3 DEF IsAbout, RightBody
  <2>5. MessageOK(m, DOMAIN received')
    BY <2>3, <2>4 DEF MessageOK
  <2>6. /\ WireOK' /\ AnswersTo(wire', n) = {<<Len(wire) + 1, m>>}
        /\ \A k : k # n => AnswersTo(wire', k) = AnswersTo(wire, k)
    BY <2>1, <2>4, <2>5, OneMoreMessage DEF BatchInv, Inv, OutputOK
  <2>7. InOrder(n, received'[n], batch'[n], {}, {}, {<<Len(wire) + 1, m>>})
    BY <1>0, <2>2, SingleAnswered
  <2>8. DocOK(n)'
    BY <2>6, <2>7, ThisDocument
  <2> QED BY <2>1, <2>6, <2>8
<1> QED BY <1>1, <1>2

LEMMA ReplySingleBatch ==
  ASSUME BatchInv, NEW r \in open, ReplySingle(r)
  PROVE  BatchInv'
<1>1. Inv' BY ReplyStep DEF BatchInv, Reply
<1>2. /\ fault = "none" /\ IsHeldAlone(r) /\ open' = open \ {r} /\ alive
      /\ UNCHANGED <<batch, received, stack, alive, transport, hooked>>
      /\ SendMessage(FALSE, <<ResponseBody(ItemAt(r).id, r)>>)
  BY DEF ReplySingle, MayUse, InUser, configVars
<1>3. PICK n \in 1..MaxArrivals, i \in Nat :
           /\ r = <<n, i>> /\ n \in DOMAIN received
           /\ r \in HeldOf(open, n) /\ Owes(received[n], i)
           /\ IsBatch(received[n]) \/ IsAlone(received[n])
           /\ ItemAt(r).id \in AnyId
           /\ RightId(received[n], i) = ItemAt(r).id
  BY <1>2, HeldFacts
<1> DEFINE a == received[n]
           held == HeldOf(open, n)
           body == ResponseBody(ItemAt(r).id, r)
           answers == AnswersTo(wire, n)
<1>4. ~IsBatch(a)
  BY <1>2, <1>3, BatchIsValid DEF IsHeldAlone
<1>5. /\ n \in Nat /\ a \in ArrivalType /\ batch[n] \in BatchType
      /\ held \in SUBSET ({n} \X Nat)
      /\ InOrder(n, a, batch[n], held, ReadAt(stack, n), answers)
  BY <1>2, <1>3, DocFacts
<1>6. \A j : Owes(a, j) => j = 1
  BY <1>4 DEF Owes
<1>7. i = 1 /\ held = {r}
  <2>1. \A s \in held : s = <<n, 1>>
    BY <1>5, <1>6 DEF InOrder, DocumentOK, HeldOK
  <2> QED BY <1>3, <1>6, <2>1
<1>8. Unused(batch[n]) /\ ReadAt(stack, n) = {}
  BY <1>4, <1>5 DEF InOrder, DocumentOK, BatchOK
<1>9. answers = {}
  <2> SUFFICES ASSUME NEW e \in answers PROVE FALSE
    OBVIOUS
  <2>1. e[2] \in MessageType
    BY DEF AnswersTo, BatchInv, Inv, OutputOK
  <2>2. e[2].bodies # <<>> /\ RightBodies(n, a, e[2].bodies)
    BY <1>5 DEF InOrder, DocumentOK, AnswersOK, AnswersDocument
  <2>3. PICK x \in Body : x = e[2].bodies[1] /\ 1 \in DOMAIN e[2].bodies
    BY <2>1, <2>2 DEF MessageType
  <2>4. x.ref[1] = n /\ x.ref[2] = 1
    BY <1>6, <2>2, <2>3 DEF RightBodies, RightBody
  <2>5. x.ref = <<n, 1>>
    BY <2>4 DEF Body
  <2>6. Answered(answers, <<n, 1>>)
    BY <2>3, <2>5 DEF Answered, In
  <2>7. InOnePlace(n, batch[n], held, ReadAt(stack, n), answers, 1)
    BY <1>3, <1>5, <1>7 DEF InOrder, PlacesOK
  <2> QED BY <1>3, <1>7, <2>6, <2>7 DEF InOnePlace
<1>10. body \in Body /\ body.ref = r /\ RightBody(n, a, body)
  <2>1. body.kind = "response" /\ body.id = ItemAt(r).id /\ body.ref = r
    BY DEF ResponseBody
  <2>2. body \in Body
    BY <1>3, <1>5, BodyTypes
  <2> QED BY <1>3, <2>1, <2>2 DEF RightBody
<1>11. /\ HeldOf(open', n) = {}
       /\ \A m : m # n => HeldOf(open', m) = HeldOf(open, m)
  BY <1>2, <1>3, <1>7, OneLessHeld
<1>12. /\ WireOK' /\ DocOK(n)' /\ fault' # "useAfterFree"
       /\ \A m : m # n => AnswersTo(wire', m) = AnswersTo(wire, m)
  <2> HIDE DEF body
  <2>1. SendMessage(FALSE, <<body>>) BY <1>2 DEF body
  <2> QED BY <1>2, <1>3, <1>4, <1>5, <1>7, <1>8, <1>9, <1>10, <1>11, <2>1,
             SingleSent, SameReceived
<1>13. DocsOK'
  <2>1. \A m \in 1..MaxArrivals : m # n => SameDoc(m)
    BY <1>2, <1>11, <1>12 DEF SameDoc
  <2>2. IsFiniteSet(open')
    BY <1>2, FS_RemoveElement DEF BatchInv, DocsOK
  <2> QED BY <1>12, <2>1, <2>2, OneDocument
<1>14. LoopsOK' BY <1>2, LoopsSame DEF BatchInv
<1>15. DetachedOK'
  BY <1>2, <1>12 DEF BatchInv, DetachedOK, IsHeldAlone
<1> QED BY <1>1, <1>12, <1>13, <1>14, <1>15 DEF BatchInv

LEMMA ReplyInBatchBatch ==
  ASSUME BatchInv, NEW r \in open, ReplyInBatch(r)
  PROVE  BatchInv'
<1>1. Inv' BY ReplyStep DEF BatchInv, Reply
<1>2. /\ fault = "none" /\ ~IsHeldAlone(r) /\ open' = open \ {r}
      /\ UNCHANGED <<received, stack, fault, alive, transport, hooked>>
  BY DEF ReplyInBatch, InUser, configVars
<1>3. PICK n \in 1..MaxArrivals, i \in Nat :
           /\ r = <<n, i>> /\ n \in DOMAIN received
           /\ r \in HeldOf(open, n) /\ Owes(received[n], i)
           /\ IsBatch(received[n]) \/ IsAlone(received[n])
           /\ ItemAt(r).id \in AnyId
           /\ RightId(received[n], i) = ItemAt(r).id
  BY <1>2, HeldFacts
<1> DEFINE a == received[n]
           held == HeldOf(open, n)
           at == ReadAt(stack, n)
           answers == AnswersTo(wire, n)
           k == Len(wire) + 1
           body == ResponseBody(ItemAt(r).id, r)
           b1 == [batch[n] EXCEPT !.finished = Append(@, body)]
           c == [batch[n] EXCEPT !.finished = Append(@, body),
                                 !.pending = @ - 1]
           d == [c EXCEPT !.state = "deleted"]
<1>4. IsBatch(a)
  BY <1>2, <1>3 DEF IsHeldAlone, IsAlone
<1>5. /\ n \in Nat /\ a \in ArrivalType /\ batch[n] \in BatchType
      /\ held \in SUBSET ({n} \X Nat) /\ IsFiniteSet(held)
      /\ InOrder(n, a, batch[n], held, at, answers)
  BY <1>2, <1>3, DocFacts
<1>6. body \in Body /\ body.ref = r /\ RightBody(n, a, body)
  <2>1. body.kind = "response" /\ body.id = ItemAt(r).id /\ body.ref = r
    BY DEF ResponseBody
  <2>2. body \in Body
    BY <1>3, <1>5, BodyTypes
  <2> QED BY <1>3, <2>1, <2>2 DEF RightBody
<1>7. at \in SUBSET Nat /\ (at = {} \/ Looping(n))
  <2>1. at \in SUBSET Nat
    BY DEF ReadAt, ReadsBatch, BatchInv, Inv, StackOK, FrameType, SendFrame,
           ReadFrame
  <2>2. at = {} \/ Looping(n)
    BY DEF ReadAt, ReadsBatch, Looping
  <2> QED BY <2>1, <2>2
<1>8. c \in BatchType /\ Replied(batch[n], c, body)
  <2>1. b1 \in BatchType
    BY <1>5, <1>6, BatchChanges
  <2>2. /\ b1.state = batch[n].state /\ b1.to = batch[n].to
        /\ b1.pending = batch[n].pending /\ batch[n].pending - 1 \in Int
        /\ OneMore(b1.finished, batch[n].finished, body)
    BY <1>5, <1>6, BatchFields DEF OneMore
  <2>3. c = [b1 EXCEPT !.pending = @ - 1]
    BY <1>5 DEF BatchType
  <2> HIDE DEF b1, body, c
  <2>4. c \in BatchType
    BY <2>1, <2>3, BatchChanges
  <2>5. c = [b1 EXCEPT !.pending = batch[n].pending - 1]
    BY <2>2, <2>3
  <2>6. /\ c.state = b1.state /\ c.to = b1.to /\ c.finished = b1.finished
        /\ c.pending = batch[n].pending - 1
    BY <2>1, <2>2, <2>5, BatchFields
  <2> QED BY <2>2, <2>4, <2>6 DEF Replied
<1>9. d \in BatchType /\ Deleted(c, d)
  <2> HIDE DEF c
  <2> QED BY <1>8, BatchChanges, BatchFields DEF Deleted
<1>10. /\ c.pending = 0 /\ Looping(n) => MayDrainEarly
       /\ IF c.pending = 0
          THEN batch' = [batch EXCEPT ![n] = d] /\ Flush(c)
          ELSE batch' = [batch EXCEPT ![n] = c] /\ UNCHANGED wire
  BY <1>3 DEF ReplyInBatch, ReplyId
<1> HIDE DEF c, d, body, b1, held, at, answers, k
<1>11. /\ HeldOf(open', n) = held \ {r}
       /\ \A m : m # n => HeldOf(open', m) = HeldOf(open, m)
  BY <1>2, <1>3, OneLessHeld DEF held
<1>12. /\ WireOK' /\ DocOK(n)'
       /\ \A m \in 1..MaxArrivals : m # n =>
            batch'[m] = batch[m] /\ AnswersTo(wire', m) = AnswersTo(wire, m)
  <2>1. CASE c.pending = 0
    <3>1. /\ batch'[n] = d /\ Flush(c)
          /\ \A m \in 1..MaxArrivals : m # n => batch'[m] = batch[m]
      BY <1>10, <2>1 DEF BatchInv, Inv, ServerOK
    <3>2. at = {} \/ MayDrainEarly
      BY <1>7, <1>10, <2>1
    <3>3. r \in held /\ r[1] = n
      BY <1>3 DEF held
    <3>4. /\ held = {r} /\ answers = {}
          /\ InOrder(n, a, d, {}, at, Flushed(c, k))
      <4> HIDE DEF a
      <4>1. IsLastReply(n, a, batch[n], c, d, held, at, answers, r, body)
        BY <1>4, <1>5, <1>6, <1>7, <1>8, <1>9, <2>1, <3>2, <3>3
        DEF IsLastReply
      <4> QED BY <4>1, LastReplied, ZenonT(60)
    <3>5. RightBodies(n, a, c.finished) /\ c.to = a.from
      <4>1. BatchOK(n, a, d, {}, at)
        BY <3>4 DEF InOrder, DocumentOK
      <4> QED BY <1>4, <1>9, <4>1 DEF BatchOK, Deleted
    <3>6. /\ WireOK' /\ AnswersTo(wire', n) = Flushed(c, k)
          /\ \A m : m # n => AnswersTo(wire', m) = AnswersTo(wire, m)
      BY <1>2, <1>3, <1>4, <1>8, <3>1, <3>4, <3>5, FlushFacts DEF answers, k
    <3>7. DocOK(n)'
      <4>1. HeldOf(open', n) = {} BY <1>3, <1>11, <3>4
      <4> QED BY <1>2, <1>3, <3>1, <3>4, <3>6, <4>1, ThisDocument DEF at
    <3> QED BY <3>1, <3>6, <3>7
  <2>2. CASE c.pending # 0
    <3>1. /\ batch'[n] = c /\ UNCHANGED wire
          /\ \A m \in 1..MaxArrivals : m # n => batch'[m] = batch[m]
      BY <1>10, <2>2 DEF BatchInv, Inv, ServerOK
    <3>2. <<n, i>> \in held
      BY <1>3 DEF held
    <3>3. InOrder(n, a, c, held \ {<<n, i>>}, at, answers)
      BY <1>3, <1>4, <1>5, <1>6, <1>7, <1>8, <2>2, <3>2, RequestReplied
    <3>4. WireOK' /\ \A m : AnswersTo(wire', m) = AnswersTo(wire, m)
      BY <1>2, <3>1, NoMoreMessage, SameReceived DEF BatchInv
    <3>5. DocOK(n)'
      BY <1>2, <1>3, <1>11, <3>1, <3>3, <3>4, ThisDocument DEF at, answers
    <3> QED BY <3>1, <3>4, <3>5
  <2> QED BY <2>1, <2>2
<1>13. DocsOK'
  <2>1. \A m \in 1..MaxArrivals : m # n => SameDoc(m)
    BY <1>2, <1>11, <1>12 DEF SameDoc
  <2>2. IsFiniteSet(open')
    BY <1>2, FS_RemoveElement DEF BatchInv, DocsOK
  <2> QED BY <1>12, <2>1, <2>2, OneDocument
<1>14. LoopsOK' BY <1>2, LoopsSame DEF BatchInv
<1>15. DetachedOK'
  BY <1>2 DEF BatchInv, DetachedOK, IsHeldAlone
<1> QED BY <1>1, <1>12, <1>13, <1>14, <1>15 DEF BatchInv

---------------------------------------------------------------------------
\* Documents that arrive.

\* Document n arrives as a, and nothing is known of it yet.
Arrives(n, a) ==
  /\ n \in 1..MaxArrivals /\ n = Arrival /\ n \in Nat
  /\ n \notin DOMAIN received
  /\ a \in ArrivalType /\ received' = Append(received, a)
  /\ n \in DOMAIN received' /\ received'[n] = a
  /\ \A m : m # n => /\ m \in DOMAIN received' <=> m \in DOMAIN received
                     /\ m \in DOMAIN received => received'[m] = received[m]
  /\ KeepsReceived
  /\ fault = "none" /\ alive /\ UNCHANGED configVars
  /\ a.from = transport
  /\ batch[n] \in BatchType /\ Unused(batch[n])
  /\ HeldOf(open, n) = {} /\ ReadAt(stack, n) = {} /\ AnswersTo(wire, n) = {}

LEMMA ArriveIsArrives ==
  ASSUME BatchInv, NEW t \in hooked, NEW doc \in Documents,
         NEW stopped \in BOOLEAN, Arrive(t, doc, stopped)
  PROVE  \E n, a : /\ Arrives(n, a)
                   /\ a.doc = doc /\ a.stopped = stopped
<1> DEFINE a == [doc |-> doc, from |-> t, stopped |-> stopped]
<1>1. a \in ArrivalType /\ a.doc = doc /\ a.stopped = stopped /\ a.from = t
  BY DEF ArrivalType, BatchInv, Inv, ConfigOK
<1>2. received' = Append(received, a)
  BY DEF Arrive
<1> HIDE DEF a
<1> PICK n : n = Arrival
  OBVIOUS
<1>3. n \in 1..MaxArrivals /\ KeepsReceived
  BY ArriveFacts DEF BatchInv, Inv
<1>4. /\ n \in Nat /\ n \notin DOMAIN received
      /\ n \in DOMAIN received' /\ received'[n] = a
      /\ \A m : m # n => /\ m \in DOMAIN received' <=> m \in DOMAIN received
                         /\ m \in DOMAIN received => received'[m] = received[m]
  BY <1>2 DEF Arrival, BatchInv, Inv, ServerOK
<1>5. a.from = transport
  BY <1>1 DEF BatchInv, DetachedOK
<1>6. Unused(batch[n]) /\ AnswersTo(wire, n) = {} /\ batch[n] \in BatchType
  <2>1. DocOK(n) BY <1>3 DEF BatchInv, DocsOK
  <2> QED BY <1>3, <1>4, <2>1 DEF DocOK, BatchInv, Inv, ServerOK
<1>7. HeldOf(open, n) = {}
  BY <1>4 DEF HeldOf, BatchInv, Inv, ServerOK, OpenAreRequests
<1>8. ReadAt(stack, n) = {}
  <2>1. \A k \in DOMAIN stack : ~ReadsBatch(stack[k], n)
    BY <1>4 DEF ReadsBatch, BatchInv, Inv, StackOK, FramesRead
  <2> QED BY <2>1 DEF ReadAt
<1>9. fault = "none" /\ alive /\ UNCHANGED configVars
  BY DEF Arrive, MayUse, InUser
<1> QED BY <1>1, <1>2, <1>3, <1>4, <1>5, <1>6, <1>7, <1>8, <1>9 DEF Arrives

\* What is left to show when a document arrives.
LEMMA ArrivesOK ==
  ASSUME BatchInv, Inv', NEW n, NEW a, Arrives(n, a), LoopsOK', WireOK',
         DocOK(n)', IsFiniteSet(open'), fault' # "useAfterFree",
         \A m : m # n => /\ HeldOf(open', m) = HeldOf(open, m)
                         /\ ReadAt(stack', m) = ReadAt(stack, m)
                         /\ AnswersTo(wire', m) = AnswersTo(wire, m),
         \A m \in 1..MaxArrivals : m # n => batch'[m] = batch[m]
  PROVE  BatchInv'
<1>1. \A m \in 1..MaxArrivals : m # n => SameDoc(m)
  BY DEF SameDoc, Arrives
<1>2. DocsOK'
  BY <1>1, OneDocument DEF Arrives
<1>3. DetachedOK'
  BY DEF Arrives, BatchInv, DetachedOK, configVars
<1> QED BY <1>2, <1>3 DEF BatchInv

\* It is not a batch, and nothing but what user code holds changes.
LEMMA ArrivesQuiet ==
  ASSUME BatchInv, Inv', NEW n, NEW a, Arrives(n, a), ~IsBatch(a),
         LoopsOK', SameLoops, UNCHANGED <<wire, batch, fault>>,
         \/ ~OwesOne(a) /\ UNCHANGED open
         \/ OwesOne(a) /\ IsAlone(a) /\ open' = open \cup {<<n, 1>>}
  PROVE  BatchInv'
<1>1. WireOK' /\ \A m : AnswersTo(wire', m) = AnswersTo(wire, m)
  BY NoMoreMessage DEF BatchInv, Arrives
<1>2. IsFiniteSet(open')
  BY FS_AddElement DEF BatchInv, DocsOK
<1>3. \A m : m # n => HeldOf(open', m) = HeldOf(open, m)
  BY DEF HeldOf
<1>4. InOrder(n, a, batch[n], HeldOf(open', n), {}, {})
  <2>1. CASE ~OwesOne(a) /\ UNCHANGED open
    BY <2>1, NothingOwed DEF Arrives
  <2>2. CASE OwesOne(a) /\ IsAlone(a) /\ open' = open \cup {<<n, 1>>}
    <3>1. HeldOf(open', n) = {<<n, 1>>}
      BY <2>2 DEF HeldOf, Arrives
    <3>2. /\ n \in Nat /\ a \in ArrivalType /\ batch[n] \in BatchType
          /\ Unused(batch[n])
      BY DEF Arrives
    <3>3. InOrder(n, a, batch[n], {<<n, 1>>}, {}, {})
      BY <2>2, <3>2, SingleHeld
    <3> QED BY <3>1, <3>3
  <2> QED BY <2>1, <2>2
<1>5. DocOK(n)'
  <2>1. /\ n \in DOMAIN received' /\ received'[n] = a /\ batch'[n] = batch[n]
        /\ ReadAt(stack', n) = {} /\ AnswersTo(wire', n) = {}
    BY <1>1 DEF Arrives, SameLoops
  <2> QED BY <1>4, <2>1, ThisDocument
<1> QED BY <1>1, <1>2, <1>3, <1>5, ArrivesOK DEF SameLoops, Arrives

\* It is answered at once.
LEMMA ArrivesAnswered ==
  ASSUME BatchInv, Inv', NEW n, NEW a, Arrives(n, a), ~IsBatch(a),
         UNCHANGED <<stack, batch, open>>, OwesOne(a),
         NEW id \in AnyId, id = RightId(a, 1),
         SendMessage(FALSE, <<ResponseBody(id, <<n, 1>>)>>)
  PROVE  BatchInv'
<1> DEFINE body == ResponseBody(id, <<n, 1>>)
<1>1. body \in Body /\ body.ref = <<n, 1>> /\ RightBody(n, a, body)
  <2>1. body.kind = "response" /\ body.id = id /\ body.ref = <<n, 1>>
    BY DEF ResponseBody
  <2>2. body \in Body
    BY BodyTypes DEF Arrives
  <2> QED BY <2>1, <2>2 DEF RightBody, Owes
<1> HIDE DEF body
<1>2. SendMessage(FALSE, <<body>>) BY DEF body
<1>3. LoopsOK' /\ SameLoops BY LoopsSame DEF BatchInv
<1>4. /\ HeldOf(open', n) = {} /\ ReadAt(stack', n) = {}
      /\ received'[n] = a /\ batch'[n] = batch[n] /\ n \in DOMAIN received'
  BY DEF Arrives
<1>5. /\ WireOK' /\ DocOK(n)' /\ fault' # "useAfterFree"
      /\ \A m : m # n => AnswersTo(wire', m) = AnswersTo(wire, m)
  BY <1>1, <1>2, <1>4, SingleSent DEF Arrives
<1>6. IsFiniteSet(open') BY DEF BatchInv, DocsOK
<1> QED BY <1>3, <1>5, <1>6, ArrivesOK DEF SameLoops

LEMMA ReceiveBatch == BatchInv /\ Receive => BatchInv'
<1> SUFFICES ASSUME BatchInv, NEW t \in hooked, NEW doc \in Documents,
                    \/ ReceiveStopped(t, doc)
                    \/ ReceiveInvalid(t, doc)
                    \/ ReceiveRequest(t, doc)
                    \/ ReceiveNotification(t, doc)
                    \/ ReceiveResponse(t, doc)
                    \/ ReceiveRequestBatch(t, doc)
                    \/ ReceiveResponseBatch(t, doc)
             PROVE  BatchInv'
  BY DEF Receive
<1>1. Inv'
  <2>1. Receive BY DEF Receive
  <2> QED BY <2>1, ReceiveStep DEF BatchInv
<1>2. UNCHANGED stack => LoopsOK' /\ SameLoops
  BY LoopsSame DEF BatchInv
<1>11. Arrive(t, doc, FALSE) =>
         \E n, a : Arrives(n, a) /\ a.doc = doc /\ ~a.stopped
  <2> DEFINE stopped == FALSE
  <2>1. stopped \in BOOLEAN OBVIOUS
  <2>2. Arrive(t, doc, FALSE) => Arrive(t, doc, stopped) OBVIOUS
  <2>3. ~stopped OBVIOUS
  <2> HIDE DEF stopped
  <2> QED BY <2>1, <2>2, <2>3, ArriveIsArrives
<1>3. CASE ReceiveStopped(t, doc)
  <2>1. PICK n, a : Arrives(n, a) /\ a.doc = doc /\ a.stopped = TRUE
    BY <1>3, ArriveIsArrives DEF ReceiveStopped
  <2>2. ~IsBatch(a) /\ UNCHANGED <<batch, stack, fault, wire>>
    BY <1>3, <2>1 DEF IsBatch, ReceiveStopped
  <2>3. \/ ~OwesOne(a) /\ UNCHANGED open
        \/ OwesOne(a) /\ IsAlone(a) /\ open' = open \cup {<<n, 1>>}
    BY <1>3, <2>1 DEF ReceiveStopped, OwesOne, IsAlone, Arrives
  <2> QED BY <1>1, <1>2, <2>1, <2>2, <2>3, ArrivesQuiet
<1>4. CASE ReceiveInvalid(t, doc)
  <2>1. PICK n, a : Arrives(n, a) /\ a.doc = doc /\ ~a.stopped
    BY <1>4, <1>11 DEF ReceiveInvalid
  <2>2. /\ ~IsBatch(a) /\ OwesOne(a) /\ RightId(a, 1) = NullId
        /\ UNCHANGED <<stack, batch, open>>
    BY <1>4, <2>1, BatchIsValid DEF OwesOne, RightId, ReceiveInvalid
  <2>3. NullId \in AnyId
    BY ConstantsAssumption DEF ConstantsAssumption, AnyId
  <2>4. SendMessage(FALSE, <<ResponseBody(NullId, <<n, 1>>)>>)
    BY <1>4, <2>1 DEF ReceiveInvalid, ErrorBody, Arrives
  <2> QED BY <1>1, <2>1, <2>2, <2>3, <2>4, ArrivesAnswered
<1>5. CASE ReceiveRequest(t, doc)
  <2>1. PICK n, a : Arrives(n, a) /\ a.doc = doc /\ ~a.stopped
    BY <1>5, <1>11 DEF ReceiveRequest
  <2>2. doc.type = "object" /\ ~IsInvalid(doc) /\ IsRequest(doc.items[1])
    BY <1>5 DEF ReceiveRequest, IsSingle
  <2>3. /\ ~IsBatch(a) /\ OwesOne(a) /\ IsAlone(a)
        /\ RightId(a, 1) = doc.items[1].id
    BY <2>1, <2>2, BatchIsValid DEF OwesOne, IsAlone, RightId
  <2>4. CASE HasHandler(doc.items[1].method)
    <3>1. /\ open' = open \cup {<<n, 1>>}
          /\ UNCHANGED <<wire, fault, batch, stack>>
      BY <1>5, <2>1, <2>4 DEF ReceiveRequest, Arrives
    <3> QED BY <1>1, <1>2, <2>1, <2>3, <3>1, ArrivesQuiet
  <2>5. CASE ~HasHandler(doc.items[1].method)
    <3>1. /\ SendMessage(FALSE, <<ResponseBody(doc.items[1].id, <<n, 1>>)>>)
          /\ UNCHANGED <<stack, batch, open>>
      BY <1>5, <2>1, <2>5 DEF ReceiveRequest, Arrives
    <3>2. doc.items[1].id \in AnyId
      BY <2>2, DocumentItems, RequestId
    <3> QED BY <1>1, <2>1, <2>3, <3>1, <3>2, ArrivesAnswered
  <2> QED BY <2>4, <2>5
<1>6. ASSUME NEW n, NEW a, Arrives(n, a), a.doc = doc, ~a.stopped,
             ~IsInvalid(doc), ~IsRequestBatch(doc),
             doc.type = "object" => ~IsRequest(doc.items[1]),
             LoopsOK', SameLoops, UNCHANGED <<wire, batch, fault, open>>
      PROVE  BatchInv'
  <2>1. ~IsBatch(a) /\ ~OwesOne(a)
    BY <1>6 DEF IsBatch, OwesOne
  <2> QED BY <1>1, <1>6, <2>1, ArrivesQuiet
<1>7. CASE ReceiveNotification(t, doc)
  <2>1. PICK n, a : Arrives(n, a) /\ a.doc = doc /\ ~a.stopped
    BY <1>7, <1>11 DEF ReceiveNotification
  <2>2. /\ ~IsInvalid(doc) /\ doc.type = "object" /\ ~IsRequest(doc.items[1])
        /\ UNCHANGED <<batch, open, stack, fault, wire>>
    BY <1>7
    DEF ReceiveNotification, IsSingle, IsNotification, IsRequest
  <2> QED BY <1>2, <1>6, <2>1, <2>2 DEF IsRequestBatch
<1>8. CASE ReceiveResponse(t, doc)
  <2>1. PICK n, a : Arrives(n, a) /\ a.doc = doc /\ ~a.stopped
    BY <1>8, <1>11 DEF ReceiveResponse
  <2>2. /\ ~IsInvalid(doc) /\ doc.type = "object" /\ ~IsRequest(doc.items[1])
        /\ UNCHANGED <<batch, open, stack, fault, wire>>
    BY <1>8, ConstantsAssumption
    DEF ReceiveResponse, IsSingle, HasMethod, IsRequest, ConstantsAssumption
  <2> QED BY <1>2, <1>6, <2>1, <2>2 DEF IsRequestBatch
<1>9. CASE ReceiveResponseBatch(t, doc)
  <2>1. PICK n, a : Arrives(n, a) /\ a.doc = doc /\ ~a.stopped
    BY <1>9, <1>11 DEF ReceiveResponseBatch
  <2> DEFINE f == Frame("responses", n, doc.items)
  <2>2. /\ f \in FrameType /\ f.loop = "responses" /\ f.array = <<>>
        /\ Enter(f)
    BY <1>9, <2>1, DocumentItems, NewFrames
    DEF ReceiveResponseBatch, Frame, FrameType, Arrives
  <2> HIDE DEF f
  <2>3. LoopsOK' /\ SameLoops
    BY <2>2, EnterLoop DEF BatchInv, Inv, StackOK
  <2>4. /\ ~IsInvalid(doc) /\ doc.type # "object" /\ ~IsRequestBatch(doc)
        /\ UNCHANGED <<batch, open, fault, wire>>
    BY <1>9 DEF ReceiveResponseBatch, IsInvalid
  <2> QED BY <1>6, <2>1, <2>3, <2>4
<1>10. CASE ReceiveRequestBatch(t, doc)
  <2>1. PICK n, a : Arrives(n, a) /\ a.doc = doc /\ ~a.stopped
    BY <1>10, <1>11 DEF ReceiveRequestBatch
  <2>2. /\ n \in Nat /\ a \in ArrivalType /\ a.from = transport
        /\ n \in DOMAIN received' /\ received'[n] = a /\ n = Arrival
        /\ n \in 1..MaxArrivals /\ fault = "none" /\ KeepsReceived
        /\ HeldOf(open, n) = {} /\ AnswersTo(wire, n) = {}
        /\ ReadAt(stack, n) = {}
    BY <2>1 DEF Arrives
  <2>3. IsBatch(a)
    BY <1>10, <2>1 DEF ReceiveRequestBatch, IsBatch
  <2> DEFINE f == Frame("requests", n, doc.items)
  <2>4. /\ f \in FrameType /\ f.loop = "requests" /\ f.array = <<>>
        /\ f.n = n /\ f.next = 1 /\ Enter(f)
    BY <1>10, <2>2, DocumentItems, NewFrames
    DEF ReceiveRequestBatch, Frame, FrameType
  <2> HIDE DEF f
  <2>5. LoopsOK' /\ ReadAt(stack', n) = {1} /\ ReadsOnly(n)
    BY <2>2, <2>4, EnterLoop DEF BatchInv, Inv, StackOK
  <2>6. /\ batch'[n] = NewBatch("alive", a.from)
        /\ \A m \in 1..MaxArrivals : m # n => batch'[m] = batch[m]
        /\ UNCHANGED <<open, fault, wire>>
    BY <1>10, <2>2 DEF ReceiveRequestBatch, BatchInv, Inv, ServerOK
  <2>7. WireOK' /\ \A m : AnswersTo(wire', m) = AnswersTo(wire, m)
    BY <2>2, <2>6, NoMoreMessage DEF BatchInv
  <2>8. DocOK(n)'
    <3>1. InOrder(n, a, batch'[n], {}, {1}, {})
      BY <2>2, <2>3, <2>6, BatchBegun
    <3>2. HeldOf(open', n) = {} /\ AnswersTo(wire', n) = {}
      BY <2>2, <2>6, <2>7
    <3> QED BY <2>2, <2>5, <3>1, <3>2, ThisDocument
  <2>9. IsFiniteSet(open') BY <2>6 DEF BatchInv, DocsOK
  <2> QED BY <1>1, <2>1, <2>2, <2>5, <2>6, <2>7, <2>8, <2>9, ArrivesOK
          DEF ReadsOnly
<1> QED BY <1>3, <1>4, <1>5, <1>7, <1>8, <1>9, <1>10

---------------------------------------------------------------------------
\* The theorems.

LEMMA InitBatch == Init => BatchInv
<1> SUFFICES ASSUME Init PROVE BatchInv
  OBVIOUS
<1>1. Inv BY InitInv
<1>2. LoopsOK /\ WireOK /\ DetachedOK
  BY DEF Init, LoopsOK, WireOK, DetachedOK
<1>3. ASSUME NEW n \in 1..MaxArrivals PROVE DocOK(n)
  <2>1. Unused(batch[n]) BY DEF Init, NewBatch, Unused
  <2>2. AnswersTo(wire, n) = {} BY DEF Init, AnswersTo
  <2> QED BY <2>1, <2>2 DEF Init, DocOK
<1>4. IsFiniteSet(open) BY FS_EmptySet DEF Init
<1> QED BY <1>1, <1>2, <1>3, <1>4 DEF BatchInv, DocsOK

\* BatchInv is an invariant.
THEOREM BatchInvariance == Spec => []BatchInv
<1>1. BatchInv /\ [Next]_vars => BatchInv'
  <2> SUFFICES ASSUME BatchInv, [Next]_vars PROVE BatchInv'
    OBVIOUS
  <2>1. CASE Configure BY <2>1, ConfigureBatch
  <2>2. CASE Call BY <2>2, CallBatch
  <2>3. CASE Receive BY <2>3, ReceiveBatch
  <2>4. CASE LoopStep
    BY <2>4, SendLoopBatch, ResponsesLoopBatch, BatchInvalidBatch,
       BatchNotificationBatch, BatchRequestBatch, BatchEndBatch,
       BatchUseAfterFreeBatch DEF LoopStep
  <2>5. CASE \E r \in open : Reply(r)
    BY <2>5, ReplySingleBatch, ReplyInBatchBatch DEF Reply
  <2>6. CASE UseDestroyed BY <2>6, UseDestroyedBatch
  <2>7. CASE UNCHANGED vars
    <3>1. ConfigOK' /\ ClientOK' /\ ServerOK' /\ OutputOK'
      BY <2>7, ConfigSame, ClientSame, ServerSame, OutputSame
      DEF vars, BatchInv, Inv, configVars, clientVars, serverVars
    <3>2. StackOK'
      BY <2>7, SameStack, SameReceived, FramesStay
      DEF vars, BatchInv, Inv, StackOK
    <3>3. LoopsOK' /\ SameLoops
      BY <2>7, LoopsSame DEF vars, BatchInv
    <3>4. WireOK' /\ DocsOK'
      BY <2>7, <3>1, <3>3, Quiet DEF vars, Asks
    <3>5. DetachedOK'
      BY <2>7 DEF vars, BatchInv, DetachedOK, IsHeldAlone
    <3> QED BY <3>1, <3>2, <3>3, <3>4, <3>5 DEF BatchInv, Inv
  <2> QED BY <2>1, <2>2, <2>3, <2>4, <2>5, <2>6, <2>7 DEF Next
<1> QED BY <1>1, InitBatch, PTL DEF Spec

\* What is owed, in the terms of the properties.
LEMMA OwedRefsAre ==
  ASSUME Inv, NEW n \in DOMAIN received
  PROVE  /\ \A i : <<n, i>> \in OwedRefs(n) <=> Owes(received[n], i)
         /\ \A r \in OwedRefs(n) : r[1] = n /\ Owes(received[n], r[2])
                                     /\ r = <<n, r[2]>>
<1>1. CASE IsBatch(received[n])
  <2>1. OwedRefs(n) = {<<n, i>> : i \in {i \in DOMAIN received[n].doc.items :
                              ~IsNotification(received[n].doc.items[i])}}
    BY <1>1 DEF OwedRefs, IsBatch
  <2> QED BY <1>1, <2>1 DEF Owes
<1>2. CASE ~IsBatch(received[n])
  <2>1. OwedRefs(n) = {r \in {<<n, 1>>} : OwesOne(received[n])}
    BY <1>2 DEF OwedRefs, IsBatch
  <2> QED BY <1>2, <2>1 DEF Owes
<1> QED BY <1>1, <1>2

LEMMA AnswerIdIs ==
  ASSUME NEW n, NEW i
  PROVE  AnswerId(<<n, i>>) = RightId(received[n], i)
  BY DEF AnswerId, RightId, ItemAt

\* A message that holds a response answers one document.
LEMMA WhatAnswers ==
  ASSUME BatchInv, NEW k \in DOMAIN wire, NEW j \in DOMAIN wire[k].bodies,
         wire[k].bodies[j].kind = "response"
  PROVE  \E n \in 1..MaxArrivals :
           /\ n \in DOMAIN received /\ IsAbout(wire[k], n)
           /\ <<k, wire[k]>> \in AnswersTo(wire, n)
           /\ AnswersDocument(wire[k], n, received[n])
<1>1. PICK n \in DOMAIN received : IsAbout(wire[k], n)
  BY DEF BatchInv, WireOK, MessageOK, NoAnswer
<1>2. n \in 1..MaxArrivals
  BY ConstantsAssumption
  DEF BatchInv, Inv, ServerOK, ConstantsAssumption
<1>3. <<k, wire[k]>> \in AnswersTo(wire, n)
  BY <1>1 DEF AnswersTo
<1>4. DocumentOK(n, received[n], batch[n], HeldOf(open, n), ReadAt(stack, n),
                 AnswersTo(wire, n))
  BY <1>2 DEF BatchInv, DocsOK, DocOK
<1>5. AnswersDocument(wire[k], n, received[n])
  <2> DEFINE e == <<k, wire[k]>>
  <2>1. e \in AnswersTo(wire, n) /\ e[2] = wire[k] BY <1>3
  <2> HIDE DEF e
  <2> QED BY <1>4, <2>1 DEF DocumentOK, AnswersOK
<1> QED BY <1>1, <1>2, <1>3, <1>5

\* A response answers what it is owed for, and has the right id.
LEMMA WhatBodiesAre ==
  ASSUME BatchInv, NEW k \in DOMAIN wire, NEW n,
         AnswersDocument(wire[k], n, received[n]),
         NEW j \in DOMAIN wire[k].bodies
  PROVE  LET b == wire[k].bodies[j]
         IN  /\ b.kind = "response" /\ b.ref = <<n, b.ref[2]>>
             /\ b.ref \in Nat \X Nat
             /\ Owes(received[n], b.ref[2])
             /\ b.id = RightId(received[n], b.ref[2])
<1>1. wire[k] \in MessageType
  BY DEF BatchInv, Inv, OutputOK
<1>2. PICK b \in Body : b = wire[k].bodies[j]
  BY <1>1 DEF MessageType
<1>3. RightBody(n, received[n], b)
  BY <1>2 DEF AnswersDocument, RightBodies
<1>4. b.ref \in Nat \X Nat
  BY DEF Body
<1>5. b.ref = <<n, b.ref[2]>>
  BY <1>3, <1>4 DEF RightBody
<1> QED BY <1>2, <1>3, <1>4, <1>5 DEF RightBody

\* Every response on the wire is owed to what it answers, and carries its id.
THEOREM AnswersAreRight == Spec => []RightAnswers
<1>1. BatchInv => RightAnswers
  <2> SUFFICES ASSUME BatchInv, NEW k \in DOMAIN wire,
                      NEW j \in DOMAIN wire[k].bodies,
                      wire[k].bodies[j].kind = "response"
               PROVE  LET b == wire[k].bodies[j]
                      IN  b.ref \in Owed /\ b.id = AnswerId(b.ref)
    BY DEF RightAnswers
  <2> DEFINE b == wire[k].bodies[j]
  <2>1. PICK n \in DOMAIN received : AnswersDocument(wire[k], n, received[n])
    BY WhatAnswers
  <2>2. /\ b.ref = <<n, b.ref[2]>> /\ Owes(received[n], b.ref[2])
        /\ b.id = RightId(received[n], b.ref[2])
    BY <2>1, WhatBodiesAre
  <2> HIDE DEF b
  <2>3. b.ref \in OwedRefs(n)
    <3>1. <<n, b.ref[2]>> \in OwedRefs(n)
      BY <2>2, OwedRefsAre DEF BatchInv
    <3> QED BY <2>2, <3>1
  <2>4. b.ref \in Owed
    BY <2>3 DEF Owed
  <2>5. b.id = AnswerId(b.ref)
    BY <2>2, AnswerIdIs
  <2> QED BY <2>4, <2>5 DEF b
<1> QED BY <1>1, BatchInvariance, PTL

\* A batch is answered whole, by one array that goes where it came from, and
\* single requests are answered alone, unless a batch may be answered in full
\* while it is still read.
THEOREM BatchesAnsweredWhole ==
  ASSUME ~MayDrainEarly
  PROVE  Spec => []BatchAnsweredWhole
<1>1. BatchInv => BatchAnsweredWhole
  <2> SUFFICES ASSUME BatchInv, NEW k \in DOMAIN wire,
                      wire[k].bodies[1].kind = "response"
               PROVE  LET bodies == wire[k].bodies
                          n == bodies[1].ref[1]
                      IN IF IsRequestBatch(received[n].doc)
                              /\ ~received[n].stopped
                         THEN /\ wire[k].array
                              /\ wire[k].to = received[n].from
                              /\ {bodies[j].ref : j \in DOMAIN bodies}
                                   = OwedRefs(n)
                         ELSE ~wire[k].array /\ Len(bodies) = 1
    BY DEF BatchAnsweredWhole
  <2> DEFINE bodies == wire[k].bodies
  <2>1. 1 \in DOMAIN bodies
    <3>1. bodies # <<>> BY DEF BatchInv, WireOK, MessageOK
    <3>2. wire[k] \in MessageType
      BY DEF BatchInv, Inv, OutputOK
    <3>3. bodies \in Seq(Body)
      BY <3>2 DEF MessageType
    <3> QED BY <3>1, <3>3
  <2>2. PICK n \in DOMAIN received :
          IsAbout(wire[k], n) /\ AnswersDocument(wire[k], n, received[n])
    BY <2>1, WhatAnswers
  <2>3. n = bodies[1].ref[1]
    BY <2>2 DEF IsAbout
  <2>4. IsBatch(received[n]) => {bodies[j].ref : j \in DOMAIN bodies}
                                  = OwedRefs(n)
    <3> SUFFICES ASSUME IsBatch(received[n])
                 PROVE  {bodies[j].ref : j \in DOMAIN bodies} = OwedRefs(n)
      OBVIOUS
    <3>1. ASSUME NEW j \in DOMAIN bodies PROVE bodies[j].ref \in OwedRefs(n)
      BY <2>2, WhatBodiesAre, OwedRefsAre DEF BatchInv
    <3>2. ASSUME NEW r \in OwedRefs(n)
          PROVE  \E j \in DOMAIN bodies : bodies[j].ref = r
      <4>1. r = <<n, r[2]>> /\ Owes(received[n], r[2])
        BY OwedRefsAre DEF BatchInv
      <4>2. In(bodies, <<n, r[2]>>)
        BY <2>2, <4>1 DEF AnswersDocument
      <4> QED BY <4>1, <4>2 DEF In
    <3> QED BY <3>1, <3>2
  <2> QED BY <2>2, <2>3, <2>4 DEF AnswersDocument, IsBatch
<1> QED BY <1>1, BatchInvariance, PTL

\* m_pending counts the requests of a batch user code holds, and the object is
\* there exactly as long as its loop runs or one of them is open.
THEOREM PendingCounts ==
  ASSUME ~MayDrainEarly
  PROVE  Spec => []PendingCountsOpen
<1>1. BatchInv => PendingCountsOpen
  <2> SUFFICES ASSUME BatchInv, NEW n \in 1..MaxArrivals
               PROVE  LET held == {r \in open :
                             r[1] = n /\ received[n].doc.type = "array"}
                      IN  /\ batch[n].pending = Cardinality(held)
                          /\ batch[n].state = "alive" <=>
                               Looping(n) \/ held # {}
    BY DEF PendingCountsOpen
  <2> DEFINE held == {r \in open : r[1] = n /\ received[n].doc.type = "array"}
             at == ReadAt(stack, n)
  <2>1. Looping(n) <=> at # {}
    BY DEF Looping, ReadAt, ReadsBatch
  <2>2. DocOK(n) BY DEF BatchInv, DocsOK
  <2> SUFFICES /\ batch[n].pending = Cardinality(held)
               /\ batch[n].state = "alive" <=> at # {} \/ held # {}
    BY <2>1
  <2>3. CASE n \notin DOMAIN received
    <3>1. held = {}
      BY <2>3 DEF BatchInv, Inv, ServerOK, OpenAreRequests
    <3>2. ~Looping(n)
      BY <2>3 DEF Looping, BatchInv, Inv, StackOK, FramesRead
    <3>3. Unused(batch[n]) BY <2>2, <2>3 DEF DocOK
    <3> HIDE DEF held, at
    <3> QED BY <2>1, <3>1, <3>2, <3>3, FS_EmptySet DEF Unused
  <2>4. CASE n \in DOMAIN received
    <3>1. /\ HeldOK(received[n], HeldOf(open, n), at)
          /\ BatchOK(n, received[n], batch[n], HeldOf(open, n), at)
      BY <2>2, <2>4 DEF DocOK, DocumentOK
    <3>2. CASE IsBatch(received[n])
      <4>1. held = HeldOf(open, n)
        BY <3>2, BatchIsValid DEF HeldOf
      <4> HIDE DEF held, at
      <4> QED BY <2>1, <3>1, <3>2, <4>1 DEF BatchOK
    <3>3. CASE ~IsBatch(received[n])
      <4>1. held = {}
        <5> SUFFICES ASSUME NEW r \in held PROVE FALSE
          OBVIOUS
        <5>1. r \in HeldOf(open, n) BY DEF HeldOf
        <5>2. received[n].doc.type = "object"
          BY <3>1, <3>3, <5>1 DEF HeldOK, IsAlone
        <5> QED BY <5>2
      <4> HIDE DEF held, at
      <4> QED BY <2>1, <3>1, <3>3, <4>1, FS_EmptySet DEF BatchOK, Unused
    <3> QED BY <3>2, <3>3
  <2> QED BY <2>3, <2>4
<1> QED BY <1>1, BatchInvariance, PTL

\* No batch is used after it has deleted itself, and no protocol that is
\* destroyed in good order is called after it.
THEOREM NothingUsedAfterFree ==
  ASSUME ~MayDrainEarly, MayDestroy # "ever"
  PROVE  Spec => []NoUseAfterFree
<1>1. BatchInv => NoUseAfterFree
  BY DEF BatchInv, DetachedOK, NoUseAfterFree
<1> QED BY <1>1, BatchInvariance, PTL

\* A message that is sent while a transport is set reaches no null pointer.
LEMMA SendsSafely ==
  ASSUME NEW array, NEW bodies, SendMessage(array, bodies),
         transport # NoTransport
  PROVE  fault' = fault
  BY DEF SendMessage

\* The transport that delivers a document is the one that is set, so only a
\* responder or a sendBatch of the application meets a missing transport.
LEMMA StepDetached ==
  ASSUME BatchInv, Next, fault = "none", fault' = "nullTransport"
  PROVE  Running("send") \/ \E r \in open \ open' : IsHeldAlone(r)
<1>1. fault' # fault
  OBVIOUS
<1>2. ~Configure
  BY <1>1 DEF Configure, SetTransport, SetMessageHandler,
              SetDefaultMessageHandler, Destroy
<1>3. ~Call
  <2>1. ASSUME NEW id \in AnyId, SendRequest(id) PROVE FALSE
    BY <1>1, <2>1, SendsSafely DEF SendRequest, MayCall
  <2>2. ASSUME SendNotification PROVE FALSE
    BY <1>1, <2>2, SendsSafely DEF SendNotification, MayCall
  <2>3. ASSUME NEW items \in OutBatches, SendBatch(items) PROVE FALSE
    BY <1>1, <2>3 DEF SendBatch
  <2> QED BY <2>1, <2>2, <2>3 DEF Call
<1>4. ~Receive
  <2> SUFFICES ASSUME NEW t \in hooked, NEW doc \in Documents,
                      \/ ReceiveStopped(t, doc)
                      \/ ReceiveInvalid(t, doc)
                      \/ ReceiveRequest(t, doc)
                      \/ ReceiveNotification(t, doc)
                      \/ ReceiveResponse(t, doc)
                      \/ ReceiveRequestBatch(t, doc)
                      \/ ReceiveResponseBatch(t, doc)
               PROVE  FALSE
    BY DEF Receive
  <2>1. transport # NoTransport
    BY DEF BatchInv, DetachedOK
  <2>2. ~ReceiveInvalid(t, doc)
    BY <1>1, <2>1, SendsSafely DEF ReceiveInvalid
  <2>3. ~ReceiveRequest(t, doc)
    <3> SUFFICES ASSUME ReceiveRequest(t, doc) PROVE FALSE
      OBVIOUS
    <3> DEFINE item == doc.items[1]
    <3>1. CASE HasHandler(item.method)
      BY <1>1, <3>1 DEF ReceiveRequest
    <3>2. CASE ~HasHandler(item.method)
      BY <1>1, <2>1, <3>2, SendsSafely DEF ReceiveRequest
    <3> QED BY <3>1, <3>2
  <2> QED
    BY <1>1, <2>2, <2>3
    DEF ReceiveStopped, ReceiveNotification, ReceiveResponse,
        ReceiveRequestBatch, ReceiveResponseBatch
<1>5. LoopStep => Running("send")
  BY <1>1 DEF LoopStep, SendBatchNotification, SendBatchRequest, SendBatchEnd,
              ResponsesStep, ResponsesEnd, BatchInvalid, BatchNotification,
              BatchRequest, BatchEnd, BatchUseAfterFree
<1>6. ASSUME NEW r \in open, Reply(r)
      PROVE  IsHeldAlone(r) /\ r \in open \ open'
  BY <1>1, <1>6 DEF Reply, ReplySingle, ReplyInBatch
<1>7. ~UseDestroyed
  BY DEF UseDestroyed
<1> QED BY <1>2, <1>3, <1>4, <1>5, <1>6, <1>7 DEF Next

\* Without a transport only what the application does itself reaches the null
\* pointer: it answers a request that came alone, or it took the transport
\* away inside its sendBatch.  Documents and batches never do.
THEOREM DetachingIsSafe == Spec => DetachedSafely
<1>1. BatchInv /\ [Next]_vars =>
        [fault = "none" /\ fault' = "nullTransport" =>
           Running("send") \/ \E r \in open \ open' : IsHeldAlone(r)]_vars
  BY StepDetached
<1> QED BY <1>1, BatchInvariance, PTL DEF Spec, DetachedSafely


---------------------------------------------------------------------------
\* Each of the places an answer can be in holds it once at most.

\* A set of at most one element.
LEMMA OneAtMost ==
  ASSUME NEW S, \A x, y \in S : x = y
  PROVE  Cardinality(S) = IF S = {} THEN 0 ELSE 1
<1>1. CASE S = {}
  BY <1>1, FS_EmptySet
<1>2. CASE S # {}
  <2>1. PICK x \in S : TRUE BY <1>2
  <2>2. S = {x} BY <2>1
  <2> QED BY <1>2, <2>2, FS_Singleton
<1> QED BY <1>1, <1>2

\* Four numbers that are 1 where one of four things holds.
LEMMA OneOfFour ==
  ASSUME NEW A \in BOOLEAN, NEW B \in BOOLEAN, NEW C \in BOOLEAN,
         NEW D \in BOOLEAN, A \/ B \/ C \/ D, A => ~(B \/ C \/ D),
         B => ~(C \/ D), C => ~D
  PROVE  (IF A THEN 1 ELSE 0) + (IF B THEN 1 ELSE 0) + (IF C THEN 1 ELSE 0)
           + (IF D THEN 1 ELSE 0) = 1
  BY SMT

LEMMA UnreadOnce ==
  ASSUME NEW n, NEW i
  PROVE  Cardinality({u \in {1} : Unread(<<n, i>>)})
           = IF ToRead(ReadAt(stack, n), i) THEN 1 ELSE 0
<1> DEFINE S == {u \in {1} : Unread(<<n, i>>)}
<1>1. Cardinality(S) = IF S = {} THEN 0 ELSE 1
  <2>1. \A x, y \in S : x = y OBVIOUS
  <2> HIDE DEF S
  <2> QED BY <2>1, OneAtMost
<1>2. S = {} <=> ~Unread(<<n, i>>)
  OBVIOUS
<1>3. Unread(<<n, i>>) <=> ToRead(ReadAt(stack, n), i)
  BY DEF Unread, ToRead, ReadAt, ReadsBatch
<1> HIDE DEF S
<1>4. Cardinality(S) = IF ToRead(ReadAt(stack, n), i) THEN 1 ELSE 0
  BY <1>1, <1>2, <1>3
<1> QED BY <1>4 DEF S

LEMMA HeldOnce ==
  ASSUME NEW r
  PROVE  Cardinality({r} \cap open) = IF r \in open THEN 1 ELSE 0
<1> DEFINE S == {r} \cap open
<1>1. Cardinality(S) = IF S = {} THEN 0 ELSE 1
  <2>1. \A x, y \in S : x = y OBVIOUS
  <2> HIDE DEF S
  <2> QED BY <2>1, OneAtMost
<1>2. S = {} <=> r \notin open
  OBVIOUS
<1> HIDE DEF S
<1>3. Cardinality(S) = IF r \in open THEN 1 ELSE 0
  BY <1>1, <1>2
<1> QED BY <1>3 DEF S

LEMMA FinishedOnce ==
  ASSUME BatchInv, NEW n \in DOMAIN received, NEW i,
         n \in 1..MaxArrivals
  PROVE  Cardinality(Finished(<<n, i>>))
           = IF Collected(batch[n], <<n, i>>) THEN 1 ELSE 0
<1> DEFINE S == Finished(<<n, i>>)
<1>1. BatchOK(n, received[n], batch[n], HeldOf(open, n), ReadAt(stack, n))
  BY DEF BatchInv, DocsOK, DocOK, DocumentOK
<1>2. S = {j \in DOMAIN batch[n].finished :
             batch[n].state = "alive" /\ batch[n].finished[j].ref = <<n, i>>}
  BY DEF Finished
<1>3. \A x, y \in S : x = y
  BY <1>1, <1>2 DEF BatchOK, RightBodies, Unused
<1>4. S = {} <=> ~Collected(batch[n], <<n, i>>)
  BY <1>2 DEF Collected, In
<1> HIDE DEF S
<1>5. Cardinality(S) = IF S = {} THEN 0 ELSE 1
  BY <1>3, OneAtMost
<1>6. Cardinality(S) = IF Collected(batch[n], <<n, i>>) THEN 1 ELSE 0
  BY <1>4, <1>5
<1> QED BY <1>6 DEF S

LEMMA SentOnce ==
  ASSUME BatchInv, NEW n \in DOMAIN received, NEW i,
         n \in 1..MaxArrivals
  PROVE  Cardinality(Sent("response", <<n, i>>))
           = IF Answered(AnswersTo(wire, n), <<n, i>>) THEN 1 ELSE 0
<1> DEFINE S == Sent("response", <<n, i>>)
           answers == AnswersTo(wire, n)
           IsAt(p, k, j) == /\ k \in DOMAIN wire
                            /\ j \in DOMAIN wire[k].bodies /\ p = <<k, j>>
                            /\ wire[k].bodies[j].kind = "response"
                            /\ wire[k].bodies[j].ref = <<n, i>>
<1>1. AnswersOK(n, received[n], batch[n], answers)
  BY DEF BatchInv, DocsOK, DocOK, DocumentOK
<1>2. \A p : p \in S <=> \E k, j : IsAt(p, k, j)
  BY DEF Sent, Places
<1>3. ASSUME NEW k \in DOMAIN wire, NEW j \in DOMAIN wire[k].bodies,
             wire[k].bodies[j].kind = "response",
             wire[k].bodies[j].ref = <<n, i>>
      PROVE  /\ <<k, wire[k]>> \in answers
             /\ RightBodies(n, received[n], wire[k].bodies)
  <2>1. PICK m \in 1..MaxArrivals :
          <<k, wire[k]>> \in AnswersTo(wire, m)
            /\ AnswersDocument(wire[k], m, received[m])
    BY <1>3, WhatAnswers
  <2>2. wire[k].bodies[j].ref = <<m, wire[k].bodies[j].ref[2]>>
    BY <2>1, WhatBodiesAre
  <2>3. m = n BY <1>3, <2>2
  <2> QED BY <2>1, <2>3 DEF AnswersDocument
<1>4. \A x, y \in S : x = y
  <2> SUFFICES ASSUME NEW x \in S, NEW y \in S PROVE x = y
    OBVIOUS
  <2>1. PICK k, j : IsAt(x, k, j)
    BY <1>2
  <2>2. PICK l, h : IsAt(y, l, h)
    BY <1>2
  <2>3. k = l
    <3>1. <<k, wire[k]>> = <<l, wire[l]>>
      BY <1>1, <1>3, <2>1, <2>2 DEF AnswersOK
    <3> QED BY <3>1
  <2>4. RightBodies(n, received[n], wire[k].bodies)
    BY <1>3, <2>1
  <2>5. j = h BY <2>1, <2>2, <2>3, <2>4 DEF RightBodies
  <2> QED BY <2>1, <2>2, <2>3, <2>5
<1>5. S = {} <=> ~Answered(answers, <<n, i>>)
  <2>1. ASSUME NEW p \in S PROVE Answered(answers, <<n, i>>)
    <3>1. PICK k, j : IsAt(p, k, j)
      BY <1>2
    <3> DEFINE e == <<k, wire[k]>>
    <3>2. e \in answers /\ e[2] = wire[k] BY <1>3, <3>1
    <3> HIDE DEF e, answers
    <3> QED BY <3>1, <3>2 DEF Answered, In
  <2>2. ASSUME Answered(answers, <<n, i>>) PROVE S # {}
    <3>1. PICK e \in answers : In(e[2].bodies, <<n, i>>)
      BY <2>2 DEF Answered
    <3>2. PICK k \in DOMAIN wire : e = <<k, wire[k]>>
      BY <3>1 DEF AnswersTo
    <3>3. PICK j \in DOMAIN wire[k].bodies :
            wire[k].bodies[j].ref = <<n, i>>
      BY <3>1, <3>2 DEF In
    <3>4. RightBodies(n, received[n], e[2].bodies)
      BY <1>1, <3>1 DEF AnswersOK, AnswersDocument
    <3>5. wire[k].bodies[j].kind = "response"
      BY <3>2, <3>3, <3>4 DEF RightBodies, RightBody
    <3>6. <<k, j>> \in S BY <1>2, <3>3, <3>5
    <3> QED BY <3>6
  <2> QED BY <2>1, <2>2
<1> HIDE DEF S, answers
<1>6. Cardinality(S) = IF S = {} THEN 0 ELSE 1
  BY <1>4, OneAtMost
<1>7. Cardinality(S) = IF Answered(answers, <<n, i>>) THEN 1 ELSE 0
  BY <1>5, <1>6
<1> QED BY <1>7 DEF S, answers

\* No answer is lost and none is given twice, however the loops over batches,
\* the handlers and the messages of the peer interleave: everything that is
\* owed is not reached yet, held by user code, collected, or on the wire.
THEOREM NoAnswerIsLost == Spec => []AnswersConserved
<1>1. BatchInv => AnswersConserved
  <2> SUFFICES ASSUME BatchInv, fault = "none", NEW r \in Owed
               PROVE  Cardinality({u \in {1} : Unread(r)})
                        + Cardinality({r} \cap open)
                        + Cardinality(Finished(r))
                        + Cardinality(Sent("response", r)) = 1
    BY DEF AnswersConserved
  <2>1. PICK n \in DOMAIN received : r \in OwedRefs(n)
    BY DEF Owed
  <2>2. PICK i : r = <<n, i>> /\ Owes(received[n], i)
    BY <2>1, OwedRefsAre DEF BatchInv
  <2>3. n \in 1..MaxArrivals
    BY ConstantsAssumption
    DEF BatchInv, Inv, ServerOK, ConstantsAssumption
  <2> DEFINE A == ToRead(ReadAt(stack, n), i)
             B == r \in open
             C == Collected(batch[n], r)
             D == Answered(AnswersTo(wire, n), r)
  <2>4. InOnePlace(n, batch[n], HeldOf(open, n), ReadAt(stack, n),
                   AnswersTo(wire, n), i)
    BY <2>2, <2>3 DEF BatchInv, DocsOK, DocOK, PlacesOK
  <2>5. r \in HeldOf(open, n) <=> B
    BY <2>2 DEF HeldOf
  <2>6. /\ A \/ B \/ C \/ D
        /\ A => ~(B \/ C \/ D)
        /\ B => ~(C \/ D)
        /\ C => ~D
    BY <2>2, <2>4, <2>5 DEF InOnePlace
  <2>7. /\ Cardinality({u \in {1} : Unread(r)}) = IF A THEN 1 ELSE 0
        /\ Cardinality({r} \cap open) = IF B THEN 1 ELSE 0
        /\ Cardinality(Finished(r)) = IF C THEN 1 ELSE 0
        /\ Cardinality(Sent("response", r)) = IF D THEN 1 ELSE 0
    <3>1. Cardinality({u \in {1} : Unread(<<n, i>>)}) = IF A THEN 1 ELSE 0
      BY UnreadOnce
    <3>2. Cardinality(Finished(<<n, i>>))
            = IF Collected(batch[n], <<n, i>>) THEN 1 ELSE 0
      BY <2>3, FinishedOnce
    <3>3. Cardinality(Sent("response", <<n, i>>))
            = IF Answered(AnswersTo(wire, n), <<n, i>>) THEN 1 ELSE 0
      BY <2>3, SentOnce
    <3>4. Cardinality({r} \cap open) = IF B THEN 1 ELSE 0
      BY HeldOnce
    <3> QED BY <2>2, <3>1, <3>2, <3>3, <3>4, Zenon
  <2>8. /\ A \in BOOLEAN /\ B \in BOOLEAN /\ C \in BOOLEAN /\ D \in BOOLEAN
    BY DEF ToRead, Collected, Answered
  <2> HIDE DEF A, B, C, D
  <2> QED BY <2>6, <2>7, <2>8, OneOfFour
<1> QED BY <1>1, BatchInvariance, PTL
=============================================================================
