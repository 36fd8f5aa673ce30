------------------------ MODULE TypedResponseProofs ------------------------
(***************************************************************************)
(* Proofs about TypedResponse for every value of its constants.            *)
(***************************************************************************)
EXTENDS TypedResponse, TLAPS

Frame == [kind : {"handler", "close"}, of : Objects, next : Nat, last : Nat,
          dying : BOOLEAN]

---------------------------------------------------------------------------
\* The inductive invariant.

\* The types of the variables.
Types ==
  /\ status \in [Objects -> Status]
  /\ request \in [Objects -> Requests \cup {NoRequest}]
  /\ closers \in [Objects -> Seq(Actions)]
  /\ stack \in Seq(Frame)
  /\ fault \in Faults
  /\ arrived \subseteq Requests
  /\ answers \in Seq(Requests \X Sent)
  /\ added \in [Actions -> Requests \cup {NoRequest}]
  /\ ran \in Seq([action : Actions, for : Requests \cup {NoRequest},
                  status : Status])

\* A handler is in progress only for a request that has arrived; an object
\* that is being destroyed has no duty left, and a dying parameter still has
\* the frame of its handler below it.
FrameOK(f, below) ==
  /\ f.kind = "handler" => f.of \in Requests /\ ~f.dying
  /\ f.of \in Requests => f.of \in arrived
  /\ f.dying => status[f.of] # "Started"
  /\ f.dying /\ f.of \in Requests => below > 0
StackOK == \A i \in 1..Len(stack) : FrameOK(stack[i], Len(stack) - i)

\* A loop over actions stays inside its list.
LoopOK(f) == f.kind = "close" => /\ f.next <= f.last + 1
                                 /\ f.last <= Len(closers[f.of])
LoopsOK == fault = "none" => \A i \in 1..Len(stack) : LoopOK(stack[i])

\* At most one object has the duty to answer a request, none when it is
\* answered, and it is answered once.
Answered(n) == \E i \in 1..Len(answers) : answers[i][1] = n
Owes(o, n) == status[o] = "Started" /\ request[o] = n
DutyOK ==
  /\ \A n \in Requests : n \notin arrived => status[n] # "Started"
  /\ \A i \in 1..Len(answers) : answers[i][1] \in arrived
  /\ \A i, j \in 1..Len(answers) : answers[i][1] = answers[j][1] => i = j
  /\ \A o \in Objects : status[o] = "Started" =>
       request[o] \in arrived /\ ~Answered(request[o])
  /\ \A o, p \in Objects :
       status[o] = "Started" /\ status[p] = "Started"
         /\ request[o] = request[p] => o = p

\* And unless unanswered responses are overwritten, the duty is not lost.
Kept == ~MayOverwrite =>
          \A n \in arrived : Answered(n) \/ \E o \in Objects : Owes(o, n)

Inv == Types /\ StackOK /\ LoopsOK /\ DutyOK /\ Kept

---------------------------------------------------------------------------
\* Facts about sequences.

\* Putting an element before a sequence.
LEMMA Cons ==
  ASSUME NEW S, NEW f \in S, NEW s \in Seq(S)
  PROVE  /\ <<f>> \o s \in Seq(S)
         /\ Len(<<f>> \o s) = Len(s) + 1
         /\ (<<f>> \o s)[1] = f
         /\ \A k \in 2..(Len(s) + 1) : (<<f>> \o s)[k] = s[k - 1]
  OBVIOUS

\* Taking the first element away.
LEMMA Uncons ==
  ASSUME NEW S, NEW s \in Seq(S), s # <<>>
  PROVE  /\ Tail(s) \in Seq(S) /\ Head(s) \in S /\ Head(s) = s[1]
         /\ Len(s) > 0 /\ Len(Tail(s)) = Len(s) - 1
         /\ \A k \in 1..(Len(s) - 1) : Tail(s)[k] = s[k + 1]
  OBVIOUS

LEMMA NonEmpty ==
  ASSUME NEW S, NEW s \in Seq(S), Len(s) > 0
  PROVE  s # <<>>
  OBVIOUS

---------------------------------------------------------------------------
\* What the steps do to the duties.

\* Nothing, if they leave the objects, the answers and the arrivals alone.
LEMMA SameDuty ==
  ASSUME DutyOK, Kept, UNCHANGED <<status, request, answers, arrived>>
  PROVE  DutyOK' /\ Kept'
  BY DEF DutyOK, Kept, Answered, Owes

\* An answer ends the duty of its object.
LEMMA AnswerDuty ==
  ASSUME Types, DutyOK, Kept,
         NEW o \in Objects, NEW s \in Sent, status[o] = "Started",
         status' = [status EXCEPT ![o] = s],
         answers' = Append(answers, <<request[o], s>>),
         UNCHANGED <<request, arrived>>
  PROVE  /\ DutyOK' /\ Kept'
         /\ status' \in [Objects -> Status]
         /\ answers' \in Seq(Requests \X Sent)
<1>1. request[o] \in arrived /\ request[o] \in Requests /\ ~Answered(request[o])
  BY DEF DutyOK, Types
<1>2. /\ Len(answers') = Len(answers) + 1
      /\ answers'[Len(answers) + 1] = <<request[o], s>>
      /\ \A i \in 1..Len(answers) : answers'[i] = answers[i]
      /\ answers' \in Seq(Requests \X Sent)
      /\ Len(answers) \in Nat
  BY <1>1 DEF Types
<1>3. status' \in [Objects -> Status] /\ s # "Started"
  BY DEF Types, Status, Sent
<1>4. \A p \in Objects : /\ p # o => status'[p] = status[p]
                         /\ status'[o] = s
  BY DEF Types
<1>5. \A n : Answered(n)' <=> (Answered(n) \/ n = request[o])
  <2> TAKE n
  <2>1. ASSUME Answered(n)' PROVE Answered(n) \/ n = request[o]
    <3>1. PICK i \in 1..Len(answers') : answers'[i][1] = n
      BY <2>1 DEF Answered
    <3>2. CASE i = Len(answers) + 1
      BY <1>2, <3>1, <3>2
    <3>3. CASE i # Len(answers) + 1
      <4>1. i \in 1..Len(answers) /\ answers[i][1] = n
        BY <1>2, <3>1, <3>3
      <4> QED BY <4>1 DEF Answered
    <3> QED BY <3>2, <3>3
  <2>2. ASSUME Answered(n) PROVE Answered(n)'
    <3>1. PICK i \in 1..Len(answers) : answers[i][1] = n
      BY <2>2 DEF Answered
    <3>2. i \in 1..Len(answers') /\ answers'[i][1] = n
      BY <1>2, <3>1
    <3> QED BY <3>2 DEF Answered
  <2>3. ASSUME n = request[o] PROVE Answered(n)'
    <3>1. Len(answers') \in 1..Len(answers') /\ answers'[Len(answers')][1] = n
      BY <1>2, <2>3
    <3> QED BY <3>1 DEF Answered
  <2> QED BY <2>1, <2>2, <2>3
<1>6. DutyOK'
  <2>1. \A n \in Requests : n \notin arrived' => status'[n] # "Started"
    BY <1>3, <1>4 DEF DutyOK, Objects
  <2>2. \A i \in 1..Len(answers') : answers'[i][1] \in arrived'
    BY <1>1, <1>2 DEF DutyOK
  <2>3. \A i, j \in 1..Len(answers') : answers'[i][1] = answers'[j][1] => i = j
    BY <1>1, <1>2 DEF DutyOK, Answered
  <2>4. \A p \in Objects : status'[p] = "Started" =>
          p # o /\ status[p] = "Started"
    BY <1>3, <1>4
  <2>5. \A p \in Objects : status'[p] = "Started" =>
          request'[p] \in arrived' /\ ~Answered(request[p])'
    BY <1>5, <2>4 DEF DutyOK
  <2>6. \A p, q \in Objects :
          status'[p] = "Started" /\ status'[q] = "Started"
            /\ request'[p] = request'[q] => p = q
    BY <2>4 DEF DutyOK
  <2> QED BY <2>1, <2>2, <2>3, <2>5, <2>6 DEF DutyOK, Answered
<1>7. Kept'
  <2> SUFFICES ASSUME ~MayOverwrite, NEW n \in arrived
               PROVE  Answered(n)' \/ \E p \in Objects : Owes(p, n)'
    BY DEF Kept
  <2>1. CASE Answered(n)
    BY <1>5, <2>1
  <2>2. CASE \E p \in Objects : Owes(p, n)
    <3>1. PICK p \in Objects : Owes(p, n)
      BY <2>2
    <3>2. CASE p = o
      BY <1>5, <3>1, <3>2 DEF Owes
    <3>3. CASE p # o
      BY <1>4, <3>1, <3>3 DEF Owes
    <3> QED BY <3>2, <3>3
  <2> QED BY <2>1, <2>2 DEF Kept
<1> QED BY <1>2, <1>3, <1>6, <1>7

\* An object with no duty goes.
LEMMA GoneDuty ==
  ASSUME Types, DutyOK, Kept,
         NEW o \in Objects, status[o] # "Started", Gone(o),
         UNCHANGED <<answers, arrived>>
  PROVE  /\ DutyOK' /\ Kept'
         /\ status' \in [Objects -> Status]
         /\ request' \in [Objects -> Requests \cup {NoRequest}]
         /\ closers' \in [Objects -> Seq(Actions)]
<1>1. \A p \in Objects : status'[p] = "Started" <=> status[p] = "Started"
  BY DEF Types, Gone
<1>2. \A p \in Objects : status'[p] = "Started" => request'[p] = request[p]
  BY DEF Types, Gone
<1>3. \A n : Answered(n)' <=> Answered(n)
  BY DEF Answered
<1>4. DutyOK'
  BY <1>1, <1>2, <1>3 DEF DutyOK, Objects
<1>5. Kept'
  BY <1>1, <1>2, <1>3 DEF Kept, Owes
<1>6. <<>> \in Seq(Actions)
  OBVIOUS
<1> QED BY <1>4, <1>5, <1>6 DEF Types, Gone, Status

\* A request that arrives is the duty of its parameter.
LEMMA ReceiveDuty ==
  ASSUME Types, DutyOK, Kept,
         NEW n \in Requests, n \notin arrived,
         arrived' = arrived \cup {n},
         status' = [status EXCEPT ![n] = "Started"],
         request' = [request EXCEPT ![n] = n],
         UNCHANGED answers
  PROVE  /\ DutyOK' /\ Kept'
         /\ status' \in [Objects -> Status]
         /\ request' \in [Objects -> Requests \cup {NoRequest}]
<1>1. n \in Objects /\ status[n] # "Started" /\ ~Answered(n)
  BY DEF DutyOK, Objects, Answered
<1>2. /\ status'[n] = "Started" /\ request'[n] = n
      /\ \A p \in Objects : p # n => status'[p] = status[p]
                                     /\ request'[p] = request[p]
  BY <1>1 DEF Types
<1>3. \A m : Answered(m)' <=> Answered(m)
  BY DEF Answered
<1>4. DutyOK'
  <2>1. \A m \in Requests : m \notin arrived' => status'[m] # "Started"
    BY <1>2 DEF DutyOK, Objects
  <2>2. \A p \in Objects : status'[p] = "Started" =>
          request'[p] \in arrived' /\ ~Answered(request[p])'
    BY <1>1, <1>2, <1>3 DEF DutyOK
  <2>3. \A p \in Objects : status[p] = "Started" => request[p] # n
    BY DEF DutyOK
  <2>4. \A p, q \in Objects :
          status'[p] = "Started" /\ status'[q] = "Started"
            /\ request'[p] = request'[q] => p = q
    BY <1>2, <2>3 DEF DutyOK
  <2> QED BY <2>1, <2>2, <2>4 DEF DutyOK
<1>5. Kept'
  <2>1. \A m : \A p \in Objects : Owes(p, m) => Owes(p, m)'
    BY <1>1, <1>2 DEF Owes
  <2>2. Owes(n, n)'
    BY <1>2 DEF Owes
  <2> QED BY <1>1, <1>3, <2>1, <2>2 DEF Kept
<1> QED BY <1>1, <1>4, <1>5 DEF Types, Status

\* A move hands the duty on, and loses the one the target had.
LEMMA MoveDuty ==
  ASSUME Types, DutyOK, Kept,
         NEW from \in Objects, NEW to \in Slots, from # to,
         MayOverwrite \/ status[to] # "Started",
         status' = [status EXCEPT ![to] = status[from], ![from] = MovedFrom],
         request' = [request EXCEPT ![to] = request[from]],
         UNCHANGED <<answers, arrived>>
  PROVE  /\ DutyOK' /\ Kept'
         /\ status' \in [Objects -> Status]
         /\ request' \in [Objects -> Requests \cup {NoRequest}]
<1>1. /\ to \in Objects /\ to \notin Requests
      /\ status'[to] = status[from] /\ status'[from] = "Invalid"
      /\ request'[to] = request[from]
      /\ \A p \in Objects \ {from, to} : status'[p] = status[p]
      /\ \A p \in Objects \ {to} : request'[p] = request[p]
  BY TypedResponseAssumption
  DEF Types, Objects, MovedFrom, TypedResponseAssumption
<1>2. \A m : Answered(m)' <=> Answered(m)
  BY DEF Answered
<1> DEFINE had(p) == IF p = to THEN from ELSE p
<1>3. \A p \in Objects : status'[p] = "Started" =>
        /\ p # from /\ had(p) \in Objects /\ status[had(p)] = "Started"
        /\ request'[p] = request[had(p)]
  BY <1>1
<1>4. DutyOK'
  <2>1. \A q \in Requests : q \notin arrived' => status'[q] # "Started"
    <3>1. \A q \in Requests : q # to /\ q \in Objects
      BY <1>1 DEF Objects
    <3> QED BY <1>3, <3>1 DEF DutyOK
  <2>2. ASSUME NEW p \in Objects, status'[p] = "Started"
        PROVE  request'[p] \in arrived' /\ ~Answered(request[p])'
    BY <1>2, <1>3, <2>2 DEF DutyOK
  <2>3. ASSUME NEW p \in Objects, NEW q \in Objects,
               status'[p] = "Started", status'[q] = "Started",
               request'[p] = request'[q]
        PROVE  p = q
    <3>1. had(p) = had(q)
      BY <1>3, <2>3 DEF DutyOK
    <3> QED BY <1>3, <2>3, <3>1
  <2> QED BY <2>1, <2>2, <2>3 DEF DutyOK
<1>5. Kept'
  <2> SUFFICES ASSUME ~MayOverwrite, NEW n \in arrived, ~Answered(n)
               PROVE  \E p \in Objects : Owes(p, n)'
    BY <1>2 DEF Kept
  <2>1. PICK p \in Objects : Owes(p, n)
    BY DEF Kept
  <2>2. CASE p = from
    BY <1>1, <2>1, <2>2 DEF Owes
  <2>3. CASE p # from
    BY <1>1, <2>1, <2>3 DEF Owes
  <2> QED BY <2>2, <2>3
<1> QED BY <1>1, <1>4, <1>5 DEF Types, Status, MovedFrom
---------------------------------------------------------------------------
\* What the steps do to the stack.

\* The frames below the first k stay right: no object that is being destroyed
\* gets a duty, and no list shrinks under a loop over it, or the program has
\* run into undefined behaviour.
Stays ==
  /\ arrived \subseteq arrived'
  /\ \A i \in 1..Len(stack) :
       stack[i].dying => status'[stack[i].of] # "Started"
Room(k) ==
  fault' = "none" =>
    /\ fault = "none"
    /\ \A i \in (k + 1)..Len(stack) :
         stack[i].kind = "close" /\ stack[i].last > 0 =>
           stack[i].last <= Len(closers'[stack[i].of])

\* Any frame of the stack.
LEMMA FrameAt ==
  ASSUME Types, StackOK, NEW i \in 1..Len(stack)
  PROVE  /\ stack[i] \in Frame /\ FrameOK(stack[i], Len(stack) - i)
         /\ stack[i].of \in Objects
         /\ stack[i].dying => status[stack[i].of] # "Started"
<1>1. stack[i] \in Frame /\ FrameOK(stack[i], Len(stack) - i)
  BY DEF Types, StackOK
<1> QED BY <1>1 DEF Frame, FrameOK

\* A frame of the new stack is an old one, as far from the end, or a right one.
LEMMA StackFrom ==
  ASSUME Types, StackOK, LoopsOK, NEW k \in Nat, Stays, Room(k),
         closers' \in [Objects -> Seq(Actions)],
         \A i \in 1..Len(stack') :
           \/ \E j \in (k + 1)..Len(stack) :
                /\ stack'[i] = stack[j]
                /\ Len(stack') - i = Len(stack) - j
           \/ FrameOK(stack[i], Len(stack) - i)' /\ LoopOK(stack[i])'
  PROVE  StackOK' /\ LoopsOK'
<1> SUFFICES ASSUME NEW i \in 1..Len(stack')
             PROVE  /\ FrameOK(stack[i], Len(stack) - i)'
                    /\ fault' = "none" => LoopOK(stack[i])'
  BY DEF StackOK, LoopsOK
<1>1. CASE FrameOK(stack[i], Len(stack) - i)' /\ LoopOK(stack[i])'
  BY <1>1
<1>2. CASE \E j \in (k + 1)..Len(stack) : /\ stack'[i] = stack[j]
                                          /\ Len(stack') - i = Len(stack) - j
  <2>1. PICK j \in (k + 1)..Len(stack) : /\ stack'[i] = stack[j]
                                         /\ Len(stack') - i = Len(stack) - j
    BY <1>2
  <2> j \in 1..Len(stack)
    OBVIOUS
  <2>2. FrameOK(stack[j], Len(stack) - j) /\ stack[j] \in Frame
    BY FrameAt
  <2>3. FrameOK(stack[i], Len(stack) - i)'
    BY <2>1, <2>2 DEF FrameOK, Stays
  <2>4. ASSUME fault' = "none", stack[j].kind = "close"
        PROVE  /\ stack[j].next <= stack[j].last + 1
               /\ stack[j].last <= Len(closers'[stack[j].of])
    <3>1. LoopOK(stack[j])
      BY <2>4 DEF LoopsOK, Room
    <3>2. Len(closers'[stack[j].of]) >= 0
      BY <2>2 DEF Frame
    <3>3. stack[j].last \in Nat
      BY <2>2 DEF Frame
    <3> QED BY <2>4, <3>1, <3>2, <3>3 DEF LoopOK, Room
  <2>5. fault' = "none" => LoopOK(stack[i])'
    BY <2>1, <2>4 DEF LoopOK
  <2> QED BY <2>3, <2>5
<1> QED BY <1>1, <1>2

\* A frame is pushed.
LEMMA PushStack ==
  ASSUME Types, StackOK, LoopsOK, Stays, Room(0),
         closers' \in [Objects -> Seq(Actions)],
         NEW f \in Frame, NEW below \in Nat, below = Len(stack),
         FrameOK(f, below)', LoopOK(f)', Push(f)
  PROVE  stack' \in Seq(Frame) /\ StackOK' /\ LoopsOK'
<1>1. stack \in Seq(Frame)
  BY DEF Types
<1>2. /\ stack' \in Seq(Frame) /\ Len(stack') = Len(stack) + 1
      /\ stack'[1] = f
      /\ \A k \in 2..(Len(stack) + 1) : stack'[k] = stack[k - 1]
  BY <1>1, Cons DEF Push
<1>3. ASSUME NEW i \in 1..Len(stack')
      PROVE  \/ \E j \in (0 + 1)..Len(stack) :
                  /\ stack'[i] = stack[j] /\ Len(stack') - i = Len(stack) - j
             \/ FrameOK(stack[i], Len(stack) - i)' /\ LoopOK(stack[i])'
  <2>1. CASE i = 1
    <3>1. stack'[i] = f /\ Len(stack') - i = below
      BY <1>1, <1>2, <2>1
    <3> QED BY <3>1 DEF FrameOK, LoopOK
  <2>2. CASE i # 1
    <3>1. /\ i - 1 \in (0 + 1)..Len(stack) /\ stack'[i] = stack[i - 1]
          /\ Len(stack') - i = Len(stack) - (i - 1)
      BY <1>1, <1>2, <2>2
    <3> QED BY <3>1
  <2> QED BY <2>1, <2>2
<1> QED BY <1>2, <1>3, StackFrom

\* The top frame is left.
LEMMA PopStack ==
  ASSUME Types, StackOK, LoopsOK, Stays, Room(1),
         closers' \in [Objects -> Seq(Actions)],
         stack # <<>>, Pop
  PROVE  stack' \in Seq(Frame) /\ StackOK' /\ LoopsOK'
<1>1. stack \in Seq(Frame)
  BY DEF Types
<1>2. /\ stack' \in Seq(Frame) /\ Len(stack') = Len(stack) - 1 /\ Len(stack) > 0
      /\ \A k \in 1..(Len(stack) - 1) : stack'[k] = stack[k + 1]
  BY <1>1, Uncons DEF Pop
<1>3. \A i \in 1..Len(stack') :
        /\ i + 1 \in (1 + 1)..Len(stack) /\ stack'[i] = stack[i + 1]
        /\ Len(stack') - i = Len(stack) - (i + 1)
  BY <1>1, <1>2
<1> QED BY <1>2, <1>3, StackFrom

\* The two top frames are left.
LEMMA PopTwo ==
  ASSUME Types, StackOK, LoopsOK, Stays, Room(1),
         closers' \in [Objects -> Seq(Actions)],
         Len(stack) > 1, stack' = Tail(Tail(stack))
  PROVE  stack' \in Seq(Frame) /\ StackOK' /\ LoopsOK'
<1>1. stack \in Seq(Frame) /\ stack # <<>>
  BY DEF Types
<1>2. /\ Tail(stack) \in Seq(Frame) /\ Len(Tail(stack)) = Len(stack) - 1
      /\ \A k \in 1..(Len(stack) - 1) : Tail(stack)[k] = stack[k + 1]
  BY <1>1, Uncons
<1>3. Tail(stack) # <<>>
  <2>1. Len(Tail(stack)) > 0
    BY <1>1, <1>2
  <2> QED BY <1>2, <2>1, NonEmpty
<1>4. /\ stack' \in Seq(Frame) /\ Len(stack') = Len(stack) - 2
      /\ \A k \in 1..(Len(stack) - 2) : stack'[k] = Tail(stack)[k + 1]
  <2>1. Len(Tail(stack)) - 1 = Len(stack) - 2
    BY <1>1, <1>2
  <2> QED BY <1>2, <1>3, <2>1, Uncons
<1>5. \A i \in 1..Len(stack') :
        /\ i + 2 \in (1 + 1)..Len(stack) /\ stack'[i] = stack[i + 2]
        /\ Len(stack') - i = Len(stack) - (i + 2)
  BY <1>1, <1>2, <1>4
<1> QED BY <1>4, <1>5, StackFrom

\* No frame is touched.
LEMMA SameStack ==
  ASSUME Types, StackOK, LoopsOK, Stays, Room(0),
         closers' \in [Objects -> Seq(Actions)], UNCHANGED stack
  PROVE  stack' \in Seq(Frame) /\ StackOK' /\ LoopsOK'
<1>1. \A i \in 1..Len(stack') :
        /\ i \in (0 + 1)..Len(stack) /\ stack'[i] = stack[i]
        /\ Len(stack') - i = Len(stack) - i
  OBVIOUS
<1> QED BY <1>1, StackFrom DEF Types

\* The loop of the top frame goes on.
LEMMA TopStack ==
  ASSUME Types, StackOK, LoopsOK, Stays, Room(0),
         closers' \in [Objects -> Seq(Actions)],
         stack # <<>>, NEW f \in Frame,
         f.kind = Top.kind, f.of = Top.of, f.dying = Top.dying, LoopOK(f)',
         stack' = <<f>> \o Tail(stack)
  PROVE  stack' \in Seq(Frame) /\ StackOK' /\ LoopsOK'
<1>1. stack \in Seq(Frame)
  BY DEF Types
<1>2. /\ Top = stack[1] /\ Len(stack) > 0
      /\ Tail(stack) \in Seq(Frame) /\ Len(Tail(stack)) = Len(stack) - 1
      /\ \A k \in 1..(Len(stack) - 1) : Tail(stack)[k] = stack[k + 1]
  BY <1>1, Uncons DEF Top
<1>3. /\ stack' \in Seq(Frame) /\ Len(stack') = Len(stack)
      /\ stack'[1] = f
      /\ \A k \in 2..Len(stack) : stack'[k] = Tail(stack)[k - 1]
  <2>1. Len(Tail(stack)) + 1 = Len(stack)
    BY <1>1, <1>2
  <2> QED BY <1>2, <2>1, Cons
<1>4. ASSUME NEW i \in 1..Len(stack')
      PROVE  \/ \E j \in (0 + 1)..Len(stack) :
                  /\ stack'[i] = stack[j] /\ Len(stack') - i = Len(stack) - j
             \/ FrameOK(stack[i], Len(stack) - i)' /\ LoopOK(stack[i])'
  <2>1. CASE i = 1
    <3>1. stack'[i] = f /\ 1 \in 1..Len(stack)
      BY <1>1, <1>2, <1>3, <2>1
    <3>2. FrameOK(stack[1], Len(stack) - 1)
      BY <3>1 DEF StackOK
    <3>3. FrameOK(f, Len(stack) - 1)
      BY <1>2, <3>2 DEF FrameOK
    <3>4. FrameOK(stack[i], Len(stack) - i)'
      BY <1>2, <1>3, <2>1, <3>1, <3>3 DEF FrameOK, Stays
    <3> QED BY <3>1, <3>4 DEF LoopOK
  <2>2. CASE i # 1
    <3>1. /\ i \in (0 + 1)..Len(stack) /\ stack'[i] = stack[i]
          /\ Len(stack') - i = Len(stack) - i
      BY <1>1, <1>2, <1>3, <2>2
    <3> QED BY <3>1
  <2> QED BY <2>1, <2>2
<1> QED BY <1>3, <1>4, StackFrom
---------------------------------------------------------------------------
\* The invariant is inductive: one step per action.

\* A loop's frame has its type.
LEMMA NewCloseFrame ==
  ASSUME NEW o \in Objects, NEW d \in BOOLEAN
  PROVE  CloseFrame(o, d) \in Frame
  BY DEF CloseFrame, Frame

\* An answer, of an object whose destructor may wait for the loop to end.
LEMMA AnswerStep ==
  ASSUME Inv, NEW o \in Objects, NEW s \in Sent, NEW d \in BOOLEAN,
         status[o] = "Started", o \in Requests /\ d => Len(stack) > 0,
         Answer(o, s, d),
         fault' \in Faults,
         fault' = "none" => fault = "none"
  PROVE  Inv'
<1>1. /\ DutyOK' /\ Kept'
      /\ status' \in [Objects -> Status]
      /\ answers' \in Seq(Requests \X Sent)
  BY AnswerDuty DEF Inv, Answer
<1>2. closers' \in [Objects -> Seq(Actions)] /\ stack \in Seq(Frame)
  BY DEF Inv, Types, Answer
<1>3. Stays
  <2>1. s # "Started"
    BY DEF Sent
  <2>2. ASSUME NEW i \in 1..Len(stack), stack[i].dying
        PROVE  status'[stack[i].of] # "Started"
    <3>1. status[stack[i].of] # "Started" /\ stack[i].of \in Objects
      BY <2>2, FrameAt DEF Inv
    <3> QED BY <3>1, <2>1 DEF Inv, Types, Answer
  <2> QED BY <2>2 DEF Stays, Answer
<1>4. Room(0)
  BY <1>2 DEF Room, Inv, LoopsOK, LoopOK, Answer
<1>5. o \in Requests => o \in arrived
  BY DEF Inv, DutyOK
<1>6. status'[o] # "Started"
  BY DEF Inv, Types, Answer, Sent
<1>7. \A b \in Nat : b = Len(stack) => FrameOK(CloseFrame(o, d), b)'
  BY <1>5, <1>6 DEF FrameOK, CloseFrame, Answer
<1>8. Len(closers'[o]) >= 0
  BY <1>2
<1>9. LoopOK(CloseFrame(o, d))'
  BY <1>8 DEF LoopOK, CloseFrame
<1>10. Len(stack) \in Nat
  BY <1>2
<1>11. stack' \in Seq(Frame) /\ StackOK' /\ LoopsOK'
  BY <1>2, <1>3, <1>4, <1>7, <1>9, <1>10, NewCloseFrame, PushStack
  DEF Inv, Answer
<1>12. Types'
  BY <1>1, <1>2, <1>11 DEF Inv, Types, Answer
<1> QED BY <1>1, <1>11, <1>12 DEF Inv

\* The end of an object that has no duty and no loop left.
LEMMA GoneStays ==
  ASSUME Inv, NEW o \in Objects, Gone(o), UNCHANGED arrived
  PROVE  Stays
<1> SUFFICES ASSUME NEW i \in 1..Len(stack), stack[i].dying
             PROVE  status'[stack[i].of] # "Started"
  BY DEF Stays
<1>1. status[stack[i].of] # "Started" /\ stack[i].of \in Objects
  BY FrameAt DEF Inv
<1> QED BY <1>1 DEF Inv, Types, Gone

LEMMA DestroyStep ==
  ASSUME Inv, NEW o \in Objects, Destroy(o), o \in Requests => Len(stack) > 0
  PROVE  Inv'
<1>1. CASE status[o] = "Started"
  <2>1. Answer(o, "SentError", TRUE)
    BY <1>1 DEF Destroy
  <2>2. /\ fault' \in Faults
        /\ fault' = "none" => fault = "none"
    BY DEF Destroy, Inv, Types, Faults
  <2>3. "SentError" \in Sent /\ TRUE \in BOOLEAN
    BY DEF Sent
  <2> QED BY <1>1, <2>1, <2>2, <2>3, AnswerStep
<1>2. CASE status[o] # "Started"
  <2>1. /\ Gone(o) /\ UNCHANGED historyVars
        /\ IF o \in Requests THEN Pop ELSE UNCHANGED stack
    BY <1>2 DEF Destroy
  <2>2. UNCHANGED <<arrived, answers, added, ran>>
    BY <2>1 DEF historyVars
  <2>3. /\ DutyOK' /\ Kept'
        /\ status' \in [Objects -> Status]
        /\ request' \in [Objects -> Requests \cup {NoRequest}]
        /\ closers' \in [Objects -> Seq(Actions)]
    BY <1>2, <2>1, <2>2, GoneDuty DEF Inv
  <2>4. Stays
    BY <2>1, <2>2, GoneStays
  <2>5. Room(0) /\ Room(1)
    <3> SUFFICES ASSUME fault' = "none"
                 PROVE  /\ fault = "none"
                        /\ \A i \in 1..Len(stack) :
                             stack[i].kind = "close" /\ stack[i].last > 0 =>
                               stack[i].last <= Len(closers'[stack[i].of])
      BY DEF Room, Inv, Types
    <3>1. fault = "none" /\ ~ClosingBelow(o, 0)
      BY DEF Destroy
    <3> SUFFICES ASSUME NEW i \in 1..Len(stack), stack[i].kind = "close"
                 PROVE  stack[i].last <= Len(closers'[stack[i].of])
      BY <3>1
    <3>2. stack[i].of # o
      BY <3>1 DEF ClosingBelow
    <3>3. closers'[stack[i].of] = closers[stack[i].of]
      BY <2>1, <3>2 DEF Gone, Inv, Types, Frame
    <3>4. stack[i].last <= Len(closers[stack[i].of])
      BY <3>1 DEF Inv, LoopsOK, LoopOK
    <3> QED BY <3>3, <3>4
  <2>6. stack' \in Seq(Frame) /\ StackOK' /\ LoopsOK'
    <3>1. CASE o \in Requests
      <4>1. Pop /\ stack # <<>>
        BY <2>1, <3>1
      <4> QED BY <2>3, <2>4, <2>5, <4>1, PopStack DEF Inv
    <3>2. CASE o \notin Requests
      BY <2>1, <2>3, <2>4, <2>5, <3>2, SameStack DEF Inv
    <3> QED BY <3>1, <3>2
  <2>7. fault' \in Faults
    BY DEF Destroy, Inv, Types, Faults
  <2>8. Types'
    BY <2>2, <2>3, <2>6, <2>7 DEF Inv, Types
  <2> QED BY <2>3, <2>6, <2>8 DEF Inv
<1> QED BY <1>1, <1>2

\* What InClose says of the top frame.
LEMMA TopClose ==
  ASSUME Inv, InClose
  PROVE  /\ fault = "none" /\ stack # <<>> /\ Len(stack) > 0 /\ Top = stack[1]
         /\ Top \in Frame /\ Top.kind = "close" /\ Top.of \in Objects
         /\ FrameOK(Top, Len(stack) - 1) /\ LoopOK(Top)
         /\ Top.next \in Nat /\ Top.last \in Nat
<1>1. /\ stack \in Seq(Frame) /\ stack # <<>>
      /\ fault = "none" /\ Top.kind = "close"
  BY DEF Inv, Types, InClose
<1>2. Top = stack[1] /\ Top \in Frame /\ 1 \in 1..Len(stack)
  BY <1>1, Uncons DEF Top
<1>3. FrameOK(Top, Len(stack) - 1) /\ LoopOK(Top)
  BY <1>1, <1>2 DEF Inv, StackOK, LoopsOK
<1> QED BY <1>1, <1>2, <1>3 DEF Frame

\* Steps that change no status and no list.
LEMMA QuietStays ==
  ASSUME Inv, UNCHANGED <<status, arrived, closers>>,
         fault' = "none" => fault = "none"
  PROVE  Stays /\ Room(0) /\ closers' \in [Objects -> Seq(Actions)]
<1>1. Stays
  BY FrameAt DEF Inv, Stays
<1>2. Room(0)
  BY DEF Inv, LoopsOK, LoopOK, Room
<1> QED BY <1>1, <1>2 DEF Inv, Types

\* The records that take the place of the top frame.
LEMMA NextFrames ==
  ASSUME NEW f \in Frame, NEW m \in Nat
  PROVE  /\ [f EXCEPT !.next = 1, !.last = m] \in Frame
         /\ [f EXCEPT !.next = 1, !.last = m].kind = f.kind
         /\ [f EXCEPT !.next = 1, !.last = m].of = f.of
         /\ [f EXCEPT !.next = 1, !.last = m].dying = f.dying
         /\ [f EXCEPT !.next = 1, !.last = m].next = 1
         /\ [f EXCEPT !.next = 1, !.last = m].last = m
         /\ [f EXCEPT !.next = @ + 1] \in Frame
         /\ [f EXCEPT !.next = @ + 1].kind = f.kind
         /\ [f EXCEPT !.next = @ + 1].of = f.of
         /\ [f EXCEPT !.next = @ + 1].dying = f.dying
         /\ [f EXCEPT !.next = @ + 1].next = f.next + 1
         /\ [f EXCEPT !.next = @ + 1].last = f.last
<1>1. [f EXCEPT !.next = 1, !.last = m] \in Frame
  BY DEF Frame
<1>2. /\ [f EXCEPT !.next = 1, !.last = m].kind = f.kind
      /\ [f EXCEPT !.next = 1, !.last = m].of = f.of
      /\ [f EXCEPT !.next = 1, !.last = m].dying = f.dying
  BY DEF Frame
<1>3. /\ [f EXCEPT !.next = 1, !.last = m].next = 1
      /\ [f EXCEPT !.next = 1, !.last = m].last = m
  BY DEF Frame
<1>4. [f EXCEPT !.next = @ + 1] \in Frame
  BY DEF Frame
<1>5. /\ [f EXCEPT !.next = @ + 1].kind = f.kind
      /\ [f EXCEPT !.next = @ + 1].of = f.of
      /\ [f EXCEPT !.next = @ + 1].dying = f.dying
      /\ [f EXCEPT !.next = @ + 1].next = f.next + 1
      /\ [f EXCEPT !.next = @ + 1].last = f.last
  BY DEF Frame
<1> QED BY <1>1, <1>2, <1>3, <1>4, <1>5

LEMMA BeginClosersStep ==
  ASSUME Inv, BeginClosers
  PROVE  Inv'
<1>1. /\ UNCHANGED <<status, request, closers, fault, arrived, answers, added,
                     ran>>
      /\ stack' = <<[Top EXCEPT !.next = 1, !.last = Len(closers[Top.of])]>>
                    \o Tail(stack)
      /\ InClose
  BY DEF BeginClosers, objectVars, historyVars
<1>2. Stays /\ Room(0) /\ closers' \in [Objects -> Seq(Actions)]
  BY <1>1, QuietStays
<1>3. Len(closers[Top.of]) \in Nat
  BY <1>1, TopClose DEF Inv, Types
<1>4. PICK f : f = [Top EXCEPT !.next = 1, !.last = Len(closers[Top.of])]
  OBVIOUS
<1>5. /\ f \in Frame /\ f.kind = Top.kind /\ f.of = Top.of
      /\ f.dying = Top.dying /\ f.next = 1 /\ f.last = Len(closers[Top.of])
  BY <1>1, <1>3, <1>4, TopClose, NextFrames
<1>6. stack' = <<f>> \o Tail(stack) /\ stack # <<>>
  BY <1>1, <1>4, TopClose
<1>7. LoopOK(f)'
  BY <1>1, <1>3, <1>5 DEF LoopOK
<1>8. stack' \in Seq(Frame) /\ StackOK' /\ LoopsOK'
  BY <1>2, <1>5, <1>6, <1>7, TopStack DEF Inv
<1>9. DutyOK' /\ Kept'
  BY <1>1, SameDuty DEF Inv
<1>10. Types'
  BY <1>1, <1>2, <1>8 DEF Inv, Types
<1> QED BY <1>8, <1>9, <1>10 DEF Inv

LEMMA RunCloserStep ==
  ASSUME Inv, RunCloser
  PROVE  Inv'
<1>1. /\ UNCHANGED <<status, request, closers, fault, arrived, answers, added>>
      /\ stack' = <<[Top EXCEPT !.next = @ + 1]>> \o Tail(stack)
      /\ InClose /\ Top.next > 0 /\ Top.next <= Top.last
  BY DEF RunCloser, objectVars, More
<1>2. Stays /\ Room(0) /\ closers' \in [Objects -> Seq(Actions)]
  BY <1>1, QuietStays
<1>3. closers[Top.of] \in Seq(Actions)
  BY <1>1, TopClose DEF Inv, Types
<1>4. PICK f : f = [Top EXCEPT !.next = @ + 1]
  OBVIOUS
<1>5. /\ f \in Frame /\ f.kind = Top.kind /\ f.of = Top.of
      /\ f.dying = Top.dying /\ f.next = Top.next + 1 /\ f.last = Top.last
  <2>1. 0 \in Nat /\ Top \in Frame
    BY <1>1, TopClose
  <2> QED BY <1>4, <2>1, NextFrames
<1>6. stack' = <<f>> \o Tail(stack) /\ stack # <<>>
  BY <1>1, <1>4, TopClose
<1>7. Top.last <= Len(closers[Top.of])
  BY <1>1, TopClose DEF LoopOK
<1>8. LoopOK(f)'
  BY <1>1, <1>5, <1>7, TopClose DEF LoopOK
<1>9. stack' \in Seq(Frame) /\ StackOK' /\ LoopsOK'
  BY <1>2, <1>5, <1>6, <1>8, TopStack DEF Inv
<1>10. ran' \in Seq([action : Actions, for : Requests \cup {NoRequest},
                    status : Status])
  <2>1. closers[Top.of][Top.next] \in Actions
    BY <1>1, <1>3, <1>7, TopClose
  <2>2. [action |-> closers[Top.of][Top.next], for |-> request[Top.of],
         status |-> status[Top.of]]
           \in [action : Actions, for : Requests \cup {NoRequest},
               status : Status]
    BY <1>1, <2>1, TopClose DEF Inv, Types
  <2> QED BY <2>2 DEF RunCloser, Invoke, Inv, Types
<1>11. DutyOK' /\ Kept'
  BY <1>1, SameDuty DEF Inv
<1>12. Types'
  BY <1>1, <1>2, <1>9, <1>10 DEF Inv, Types
<1> QED BY <1>9, <1>11, <1>12 DEF Inv

\* The end of a loop clears the list of its object.
LEMMA ClearedRoom ==
  ASSUME Inv, InClose,
         \A p \in Objects : p # Top.of => closers'[p] = closers[p],
         fault' = IF IteratingBelow(Top.of, 1) THEN "listModified" ELSE fault
  PROVE  Room(1)
<1> SUFFICES ASSUME fault' = "none", NEW i \in (1 + 1)..Len(stack),
                    stack[i].kind = "close", stack[i].last > 0
             PROVE  stack[i].last <= Len(closers'[stack[i].of])
  BY DEF InClose, Room
<1>1. i \in 1..Len(stack)
  OBVIOUS
<1>2. stack[i].of # Top.of
  BY DEF IteratingBelow
<1>3. LoopOK(stack[i]) /\ stack[i].of \in Objects
  BY <1>1, FrameAt DEF Inv, LoopsOK, InClose
<1> QED BY <1>2, <1>3 DEF LoopOK

LEMMA EndCloseStep ==
  ASSUME Inv, EndClose
  PROVE  Inv'
<1>1. /\ InClose /\ UNCHANGED <<arrived, answers, added, ran>>
      /\ fault' = IF IteratingBelow(Top.of, 1) THEN "listModified" ELSE fault
  BY DEF EndClose, historyVars
<1>2. fault' \in Faults
  BY <1>1 DEF Inv, Types, Faults
<1>3. CASE Top.dying
  <2>1. Gone(Top.of) /\ EndOfLife
    BY <1>3 DEF EndClose
  <2>2. status[Top.of] # "Started" /\ Top.of \in Objects
    BY <1>1, <1>3, TopClose DEF FrameOK
  <2>3. /\ DutyOK' /\ Kept'
        /\ status' \in [Objects -> Status]
        /\ request' \in [Objects -> Requests \cup {NoRequest}]
        /\ closers' \in [Objects -> Seq(Actions)]
    BY <1>1, <2>1, <2>2, GoneDuty DEF Inv
  <2>4. Stays
    BY <1>1, <2>1, <2>2, GoneStays
  <2>5. \A p \in Objects : p # Top.of => closers'[p] = closers[p]
    BY <2>1 DEF Gone, Inv, Types
  <2>6. Room(1)
    BY <1>1, <2>5, ClearedRoom
  <2>7. stack' \in Seq(Frame) /\ StackOK' /\ LoopsOK'
    <3>1. CASE Top.of \in Requests
      <4>1. stack' = Tail(Tail(stack))
        BY <2>1, <3>1 DEF EndOfLife
      <4>2. Len(stack) > 1
        <5>1. Len(stack) - 1 > 0
          BY <1>1, <1>3, <3>1, TopClose DEF FrameOK
        <5>2. Len(stack) \in Nat
          BY DEF Inv, Types
        <5> QED BY <5>1, <5>2
      <4> QED BY <2>3, <2>4, <2>6, <4>1, <4>2, PopTwo DEF Inv
    <3>2. CASE Top.of \notin Requests
      <4>1. Pop /\ stack # <<>>
        BY <1>1, <2>1, <3>2, TopClose DEF EndOfLife
      <4> QED BY <2>3, <2>4, <2>6, <4>1, PopStack DEF Inv
    <3> QED BY <3>1, <3>2
  <2>8. Types'
    BY <1>1, <1>2, <2>3, <2>7 DEF Inv, Types
  <2> QED BY <2>3, <2>7, <2>8 DEF Inv
<1>4. CASE ~Top.dying
  <2>1. /\ closers' = [closers EXCEPT ![Top.of] = <<>>]
        /\ Pop /\ UNCHANGED <<status, request>>
    BY <1>4 DEF EndClose
  <2>2. <<>> \in Seq(Actions)
    OBVIOUS
  <2>3. /\ closers' \in [Objects -> Seq(Actions)]
        /\ \A p \in Objects : p # Top.of => closers'[p] = closers[p]
    BY <2>1, <2>2 DEF Inv, Types
  <2>4. Stays
    BY <1>1, <2>1, FrameAt DEF Inv, Stays
  <2>5. Room(1)
    BY <1>1, <2>3, ClearedRoom
  <2>6. stack' \in Seq(Frame) /\ StackOK' /\ LoopsOK'
    BY <1>1, <2>1, <2>3, <2>4, <2>5, TopClose, PopStack DEF Inv
  <2>7. DutyOK' /\ Kept'
    BY <1>1, <2>1, SameDuty DEF Inv
  <2>8. Types'
    BY <1>1, <1>2, <2>1, <2>3, <2>6 DEF Inv, Types
  <2> QED BY <2>6, <2>7, <2>8 DEF Inv
<1> QED BY <1>3, <1>4

\* Only frames of loops are dying.
LEMMA DyingClose ==
  ASSUME Inv, NEW i \in 1..Len(stack), stack[i].dying
  PROVE  stack[i].kind = "close"
  BY FrameAt DEF Inv, FrameOK, Frame

LEMMA SendStep ==
  ASSUME Inv, NEW o \in Objects, NEW s \in Sent, Send(o, s)
  PROVE  Inv'
<1>1. status[o] = "Started" /\ Answer(o, s, FALSE) /\ UNCHANGED fault
  BY DEF Send
<1>2. fault' \in Faults
  BY <1>1 DEF Inv, Types
<1> QED BY <1>1, <1>2, AnswerStep

LEMMA AddStep ==
  ASSUME Inv, NEW o \in Objects, NEW a \in Actions, AddOnCloseAction(o, a)
  PROVE  Inv'
<1>1. UNCHANGED <<status, request, stack, arrived, answers>>
  BY DEF AddOnCloseAction
<1>2. request[o] \in Requests \cup {NoRequest} /\ status[o] \in Status
      /\ closers[o] \in Seq(Actions)
  BY DEF Inv, Types
<1>3. added' \in [Actions -> Requests \cup {NoRequest}] /\ fault' \in Faults
  BY <1>2 DEF AddOnCloseAction, AddOrRun, RunInvalid, Inv, Types, Faults
<1>4. DutyOK' /\ Kept'
  BY <1>1, SameDuty DEF Inv
<1>5. Stays
  BY <1>1, FrameAt DEF Inv, Stays
<1>6. CASE status[o] = "Started"
  <2>1. /\ closers' = [closers EXCEPT ![o] = Append(closers[o], a)]
        /\ fault' = IF IteratingBelow(o, 0) THEN "listModified" ELSE fault
        /\ UNCHANGED ran
    BY <1>6 DEF AddOnCloseAction, AddOrRun
  <2>2. Append(closers[o], a) \in Seq(Actions)
    BY <1>2
  <2>3. /\ closers' \in [Objects -> Seq(Actions)]
        /\ \A p \in Objects : p # o => closers'[p] = closers[p]
    BY <2>1, <2>2 DEF Inv, Types
  <2>4. Room(0)
    <3> SUFFICES ASSUME fault' = "none", NEW i \in (0 + 1)..Len(stack),
                        stack[i].kind = "close", stack[i].last > 0
                 PROVE  /\ fault = "none"
                        /\ stack[i].last <= Len(closers'[stack[i].of])
      BY <2>1 DEF Room, AddOnCloseAction, InUser
    <3>1. i \in 1..Len(stack) /\ fault = "none"
      BY DEF AddOnCloseAction, InUser
    <3>2. stack[i].of # o
      BY <2>1, <3>1 DEF IteratingBelow
    <3>3. LoopOK(stack[i]) /\ stack[i].of \in Objects
      BY <3>1, FrameAt DEF Inv, LoopsOK
    <3> QED BY <2>3, <3>1, <3>2, <3>3 DEF LoopOK
  <2>5. stack' \in Seq(Frame) /\ StackOK' /\ LoopsOK'
    BY <1>1, <1>5, <2>3, <2>4, SameStack DEF Inv
  <2>6. Types'
    BY <1>1, <1>3, <2>1, <2>3, <2>5 DEF Inv, Types
  <2> QED BY <1>4, <2>5, <2>6 DEF Inv
<1>7. CASE status[o] # "Started"
  <2>1. /\ UNCHANGED closers
        /\ fault' = "none" => fault = "none"
        /\ \/ UNCHANGED ran
           \/ ran' = Append(ran, [action |-> a, for |-> request[o],
                                  status |-> status[o]])
    BY <1>7 DEF AddOnCloseAction, AddOrRun, RunInvalid, Invoke, InUser
  <2>2. [action |-> a, for |-> request[o], status |-> status[o]]
          \in [action : Actions, for : Requests \cup {NoRequest},
              status : Status]
    BY <1>2
  <2>3. ran' \in Seq([action : Actions, for : Requests \cup {NoRequest},
                     status : Status])
    <3>1. CASE UNCHANGED ran
      BY <3>1 DEF Inv, Types
    <3>2. CASE ran' = Append(ran, [action |-> a, for |-> request[o],
                                   status |-> status[o]])
      BY <2>2, <3>2 DEF Inv, Types
    <3> QED BY <2>1, <3>1, <3>2
  <2>4. Room(0) /\ closers' \in [Objects -> Seq(Actions)]
    BY <1>1, <2>1, QuietStays
  <2>5. stack' \in Seq(Frame) /\ StackOK' /\ LoopsOK'
    BY <1>1, <1>5, <2>4, SameStack DEF Inv
  <2>6. Types'
    BY <1>1, <1>3, <2>1, <2>3, <2>4, <2>5 DEF Inv, Types
  <2> QED BY <1>4, <2>5, <2>6 DEF Inv
<1> QED BY <1>6, <1>7

LEMMA ReceiveStep ==
  ASSUME Inv, NEW n \in Requests, Receive(n)
  PROVE  Inv'
<1>1. /\ n \notin arrived /\ arrived' = arrived \cup {n}
      /\ status' = [status EXCEPT ![n] = "Started"]
      /\ request' = [request EXCEPT ![n] = n]
      /\ Push(HandlerFrame(n))
      /\ UNCHANGED <<closers, fault, answers, added, ran>>
  BY DEF Receive
<1>2. /\ DutyOK' /\ Kept'
      /\ status' \in [Objects -> Status]
      /\ request' \in [Objects -> Requests \cup {NoRequest}]
  BY <1>1, ReceiveDuty DEF Inv
<1>3. n \in Objects /\ closers' \in [Objects -> Seq(Actions)]
  BY <1>1 DEF Objects, Inv, Types
<1>4. Stays
  <2> SUFFICES ASSUME NEW i \in 1..Len(stack), stack[i].dying
               PROVE  status'[stack[i].of] # "Started"
    BY <1>1 DEF Stays
  <2>1. /\ stack[i].of \in Objects /\ status[stack[i].of] # "Started"
        /\ stack[i].of \in Requests => stack[i].of \in arrived
    BY FrameAt DEF Inv, FrameOK
  <2> QED BY <1>1, <2>1 DEF Inv, Types
<1>5. Room(0)
  BY <1>1 DEF Inv, LoopsOK, LoopOK, Room
<1>6. \A b \in Nat : b = Len(stack) => FrameOK(HandlerFrame(n), b)'
  BY <1>1 DEF FrameOK, HandlerFrame
<1>7. LoopOK(HandlerFrame(n))'
  BY DEF LoopOK, HandlerFrame
<1>8. Len(stack) \in Nat /\ HandlerFrame(n) \in Frame
  <2>1. HandlerFrame(n) \in Frame
    BY <1>3 DEF HandlerFrame, Frame
  <2> QED BY <2>1 DEF Inv, Types
<1>9. stack' \in Seq(Frame) /\ StackOK' /\ LoopsOK'
  BY <1>1, <1>3, <1>4, <1>5, <1>6, <1>7, <1>8, PushStack DEF Inv
<1>10. Types'
  BY <1>1, <1>2, <1>3, <1>9 DEF Inv, Types
<1> QED BY <1>2, <1>9, <1>10 DEF Inv

LEMMA MoveStep ==
  ASSUME Inv, NEW from \in Objects, NEW to \in Slots, Move(from, to)
  PROVE  Inv'
<1>1. /\ from \in Reachable /\ to \in Slots \ Dying /\ from # to
      /\ MayOverwrite \/ status[to] # "Started"
      /\ status' = [status EXCEPT ![to] = status[from], ![from] = MovedFrom]
      /\ request' = [request EXCEPT ![to] = request[from]]
      /\ UNCHANGED <<closers, stack, fault, arrived, answers, added, ran>>
  BY DEF Move, historyVars
<1>2. /\ DutyOK' /\ Kept'
      /\ status' \in [Objects -> Status]
      /\ request' \in [Objects -> Requests \cup {NoRequest}]
  BY <1>1, MoveDuty DEF Inv
<1>3. Stays
  <2> SUFFICES ASSUME NEW i \in 1..Len(stack), stack[i].dying
               PROVE  status'[stack[i].of] # "Started"
    BY <1>1 DEF Stays
  <2>1. /\ stack[i].of \in Objects /\ status[stack[i].of] # "Started"
        /\ stack[i].kind = "close"
    BY FrameAt, DyingClose DEF Inv
  <2>2. stack[i].of # to /\ to \in Objects
    BY <1>1, <2>1 DEF Dying, Frames, Objects
  <2> QED BY <1>1, <2>1, <2>2 DEF Inv, Types, MovedFrom
<1>4. Room(0) /\ closers' \in [Objects -> Seq(Actions)]
  BY <1>1 DEF Inv, Types, LoopsOK, LoopOK, Room
<1>5. stack' \in Seq(Frame) /\ StackOK' /\ LoopsOK'
  BY <1>1, <1>3, <1>4, SameStack DEF Inv
<1>6. Types'
  BY <1>1, <1>2, <1>4, <1>5 DEF Inv, Types
<1> QED BY <1>2, <1>5, <1>6 DEF Inv

LEMMA ReturnStep ==
  ASSUME Inv, Return
  PROVE  Inv'
<1>1. stack # <<>> /\ Destroy(Top.of)
  BY DEF Return
<1>2. stack \in Seq(Frame)
  BY DEF Inv, Types
<1>3. Len(stack) > 0 /\ Top \in Frame
  BY <1>1, <1>2, Uncons DEF Top
<1>4. Top.of \in Objects
  BY <1>3 DEF Frame
<1> QED BY <1>1, <1>3, <1>4, DestroyStep

LEMMA DropStep ==
  ASSUME Inv, NEW o \in Slots, Drop(o)
  PROVE  Inv'
<1>1. o \in Objects /\ o \notin Requests /\ Destroy(o)
  BY TypedResponseAssumption DEF Drop, Objects, TypedResponseAssumption
<1> QED BY <1>1, DestroyStep

LEMMA InitInv ==
  ASSUME Init
  PROVE  Inv
<1>1. Types
  <2>1. stack \in Seq(Frame) /\ answers \in Seq(Requests \X Sent)
    BY DEF Init
  <2>2. ran \in Seq([action : Actions, for : Requests \cup {NoRequest},
                    status : Status])
    BY DEF Init
  <2>3. <<>> \in Seq(Actions)
    OBVIOUS
  <2> QED BY <2>1, <2>2, <2>3 DEF Init, Types, Status, Faults
<1>2. Len(stack) = 0 /\ Len(answers) = 0 /\ arrived = {}
  BY DEF Init
<1>3. \A o \in Objects : status[o] # "Started"
  BY DEF Init
<1>4. DutyOK
  BY <1>2, <1>3 DEF DutyOK, Objects
<1> QED BY <1>1, <1>2, <1>4 DEF Inv, StackOK, LoopsOK, Kept

LEMMA NextInv ==
  ASSUME Inv, [Next]_vars
  PROVE  Inv'
<1>1. CASE Next
  <2>1. CASE Loop
    BY <2>1, BeginClosersStep, RunCloserStep, EndCloseStep DEF Loop
  <2>2. CASE Return
    BY <2>2, ReturnStep
  <2>3. CASE \E n \in Requests : Receive(n)
    BY <2>3, ReceiveStep
  <2>4. CASE \E o \in Objects : \E s \in Sent : Send(o, s)
    BY <2>4, SendStep
  <2>5. CASE \E o \in Objects : \E a \in Actions : AddOnCloseAction(o, a)
    BY <2>5, AddStep
  <2>6. CASE \E o \in Objects : \E to \in Slots : Move(o, to)
    BY <2>6, MoveStep
  <2>7. CASE \E o \in Slots : Drop(o)
    BY <2>7, DropStep
  <2> QED BY <1>1, <2>1, <2>2, <2>3, <2>4, <2>5, <2>6, <2>7 DEF Next
<1>2. CASE UNCHANGED vars
  <2>1. UNCHANGED <<status, request, closers, stack, fault, arrived, answers,
                    added, ran>>
    BY <1>2 DEF vars, objectVars, historyVars
  <2>2. DutyOK' /\ Kept'
    BY <2>1, SameDuty DEF Inv
  <2> QED BY <2>1, <2>2
          DEF Inv, Types, StackOK, LoopsOK, FrameOK, LoopOK
<1> QED BY <1>1, <1>2

\* The invariant holds for every number of requests, objects and actions, at
\* every depth, whatever the application may do.
THEOREM Invariance == Spec => []Inv
<1>1. Init => Inv
  BY InitInv
<1>2. Inv /\ [Next]_vars => Inv'
  BY NextInv
<1> QED BY <1>1, <1>2, PTL DEF Spec

\* Every variable has its type, and doOnCloseActions stays inside the list it
\* began with as long as no undefined behaviour has been met.
THEOREM TypeCorrect == Spec => []TypeOK
<1>1. Inv => TypeOK
  <2> SUFFICES ASSUME Inv
               PROVE  TypeOK
    OBVIOUS
  <2>1. stack \in Seq([kind : {"handler", "close"}, of : Objects, next : Nat,
                       last : Nat, dying : BOOLEAN])
    BY DEF Inv, Types, Frame
  <2>2. fault = "none" => \A i \in Frames("close") :
          /\ stack[i].next <= stack[i].last + 1
          /\ stack[i].last <= Len(closers[stack[i].of])
    BY DEF Inv, LoopsOK, LoopOK, Frames
  <2> QED BY <2>1, <2>2 DEF Inv, Types, TypeOK
<1> QED BY <1>1, Invariance, PTL

\* The responder that QJsonRpcProtocol hands out is called at most once for
\* each request, also when responses are overwritten, answered inside their
\* own on-close actions, or destroyed there.
THEOREM OneAnswer == Spec => []AnsweredOnce
<1>1. Inv => AnsweredOnce
  BY DEF Inv, DutyOK, AnsweredOnce, AnswersTo
<1> QED BY <1>1, Invariance, PTL

\* As long as the application assigns over no response that is still to be
\* answered, a request that was received is answered or exactly one object
\* has the duty to answer it.
THEOREM DutyIsHeld ==
  ASSUME ~MayOverwrite
  PROVE  Spec => []HeldOrAnswered
<1>1. Inv => HeldOrAnswered
  <2> SUFFICES ASSUME Inv, NEW n \in arrived
               PROVE  IF AnswersTo(n) = {}
                      THEN \E o \in Objects : Holders(n) = {o}
                      ELSE Holders(n) = {}
    BY DEF HeldOrAnswered
  <2>1. Answered(n) <=> AnswersTo(n) # {}
    BY DEF Answered, AnswersTo
  <2>2. CASE Answered(n)
    <3>1. Holders(n) = {}
      BY <2>2 DEF Holders, Inv, DutyOK
    <3> QED BY <2>1, <2>2, <3>1
  <2>3. CASE ~Answered(n)
    <3>1. PICK o \in Objects : Owes(o, n)
      BY <2>3 DEF Inv, Kept
    <3>2. Holders(n) = {o}
      BY <3>1 DEF Holders, Owes, Inv, DutyOK
    <3> QED BY <2>1, <2>3, <3>2
  <2> QED BY <2>2, <2>3
<1> QED BY <1>1, Invariance, PTL

---------------------------------------------------------------------------
\* The on-close actions.  Between the call that adds an action and the loop
\* that runs it there may be answers, moves, other loops and other actions,
\* so ClosersRun needs an invariant of its own: as long as no undefined
\* behaviour has been met and no response with actions is moved, an action
\* that has not run is in exactly one list, that of the object which has the
\* request it was added for; the actions of a list that have run are those the
\* loop over it has passed; and the object a loop is about is answered, has
\* its answer, and has one loop only.

\* A frame of the loop over the actions of o; whether there is one, and
\* whether one is past the k-th action.
Closes(f, o) == f.kind = "close" /\ f.of = o
ClosingIn(frames, o) == \E i \in 1..Len(frames) : Closes(frames[i], o)
PassedIn(frames, o, k) ==
  \E i \in 1..Len(frames) : Closes(frames[i], o) /\ k < frames[i].next

\* One loop at a time for an object, over the whole of its list, and a dying
\* parameter has the frame of its handler below it.
OneLoop(frames) ==
  \A i, j \in 1..Len(frames) :
    frames[i].kind = "close" /\ frames[j].kind = "close"
      /\ frames[i].of = frames[j].of => i = j
DyingOnHandler(frames) ==
  \A i \in 1..Len(frames) :
    frames[i].dying /\ frames[i].of \in Requests =>
      i < Len(frames) /\ frames[i + 1].kind = "handler"
FullLoops(frames, lists) ==
  \A i \in 1..Len(frames) :
    frames[i].kind = "close" /\ frames[i].next > 0 =>
      frames[i].last = Len(lists[frames[i].of])
FramesLive(frames, lists) ==
  OneLoop(frames) /\ DyingOnHandler(frames) /\ FullLoops(frames, lists)

HasRun(runs, a) == \E i \in 1..Len(runs) : runs[i].action = a
AnsweredWith(calls, n, s) == \E k \in 1..Len(calls) : calls[k] = <<n, s>>
Listed(lists, a) ==
  \E o \in Objects : \E i \in 1..Len(lists[o]) : lists[o][i] = a

\* What has run ran once.  It was added for that request, and ran with its
\* answer, or it was not added for any, and ran for an invalid object.
RunOK(run, adds, calls) ==
  IF run.status = "Invalid" THEN adds[run.action] \notin Requests
  ELSE /\ adds[run.action] = run.for /\ run.for \in Requests
       /\ AnsweredWith(calls, run.for, run.status)
RunsOK(runs, adds, calls) ==
  /\ \A i, j \in 1..Len(runs) : runs[i].action = runs[j].action => i = j
  /\ \A i \in 1..Len(runs) : RunOK(runs[i], adds, calls)

\* An object that is answered has a request and its answer, and only such an
\* object has a loop.
SentOK(st, rq, calls, frames) ==
  /\ \A o \in Objects : st[o] \in Sent =>
       rq[o] \in Requests /\ AnsweredWith(calls, rq[o], st[o])
  /\ \A o \in Objects : ClosingIn(frames, o) => st[o] \in Sent

\* The actions in a list are to run, or are being run.
ListOK(o, st, rq, lists, adds, runs, frames) ==
  /\ lists[o] # <<>> => st[o] = "Started" \/ ClosingIn(frames, o)
  /\ \A i \in 1..Len(lists[o]) :
       /\ adds[lists[o][i]] = rq[o]
       /\ HasRun(runs, lists[o][i]) <=> PassedIn(frames, o, i)
ListsOK(st, rq, lists, adds, runs, frames) ==
  \A o \in Objects : ListOK(o, st, rq, lists, adds, runs, frames)
OneList(lists) ==
  \A o, p \in Objects :
    \A i \in 1..Len(lists[o]), j \in 1..Len(lists[p]) :
      lists[o][i] = lists[p][j] => o = p /\ i = j

\* No action is lost.
NoneLost(adds, runs, lists) ==
  \A a \in Actions : adds[a] \in Requests => HasRun(runs, a) \/ Listed(lists, a)

Live == /\ FramesLive(stack, closers)
        /\ SentOK(status, request, answers, stack)
        /\ ListsOK(status, request, closers, added, ran, stack)
        /\ OneList(closers)
        /\ NoneLost(added, ran, closers)
ClosersInv == RunsOK(ran, added, answers) /\ (fault = "none" => Live)

---------------------------------------------------------------------------
\* The frames of a stack are its first one and the others.

LEMMA FirstFrame ==
  ASSUME NEW f \in Frame, NEW rest \in Seq(Frame)
  PROVE  /\ \A o : ClosingIn(<<f>> \o rest, o) <=>
                     Closes(f, o) \/ ClosingIn(rest, o)
         /\ \A o : \A k \in Nat : PassedIn(<<f>> \o rest, o, k) <=>
              (Closes(f, o) /\ k < f.next) \/ PassedIn(rest, o, k)
<1>1. /\ Len(<<f>> \o rest) = Len(rest) + 1
      /\ (<<f>> \o rest)[1] = f
      /\ \A k \in 2..(Len(rest) + 1) : (<<f>> \o rest)[k] = rest[k - 1]
      /\ Len(rest) \in Nat
  BY Cons
<1>2. /\ 1 \in 1..(Len(rest) + 1)
      /\ \A j \in 1..Len(rest) : /\ j + 1 \in 1..(Len(rest) + 1)
                                 /\ (<<f>> \o rest)[j + 1] = rest[j]
  BY <1>1
<1>3. \A i \in 1..(Len(rest) + 1) :
        i = 1 \/ (i - 1 \in 1..Len(rest)
                    /\ (<<f>> \o rest)[i] = rest[i - 1])
  BY <1>1
<1>. DEFINE all == <<f>> \o rest
<1>4. ASSUME NEW o
      PROVE  ClosingIn(all, o) <=> Closes(f, o) \/ ClosingIn(rest, o)
  <2>. HIDE DEF all
  <2>. QED
    BY <1>1, <1>2, <1>3 DEF ClosingIn, all
<1>5. ASSUME NEW o, NEW k \in Nat
      PROVE  PassedIn(all, o, k) <=>
               (Closes(f, o) /\ k < f.next) \/ PassedIn(rest, o, k)
  BY <1>1, <1>2, <1>3 DEF PassedIn
<1>. QED
  BY <1>4, <1>5

LEMMA FirstLive ==
  ASSUME NEW f \in Frame, NEW rest \in Seq(Frame), NEW lists
  PROVE  FramesLive(<<f>> \o rest, lists) <=>
           /\ FramesLive(rest, lists)
           /\ f.kind = "close" => ~ClosingIn(rest, f.of)
           /\ f.dying /\ f.of \in Requests =>
                Len(rest) > 0 /\ rest[1].kind = "handler"
           /\ f.kind = "close" /\ f.next > 0 => f.last = Len(lists[f.of])
<1>1. /\ Len(<<f>> \o rest) = Len(rest) + 1
      /\ (<<f>> \o rest)[1] = f
      /\ \A k \in 2..(Len(rest) + 1) : (<<f>> \o rest)[k] = rest[k - 1]
      /\ Len(rest) \in Nat
  BY Cons
<1>2. /\ 1 \in 1..(Len(rest) + 1)
      /\ \A j \in 1..Len(rest) : /\ j + 1 \in 1..(Len(rest) + 1)
                                 /\ (<<f>> \o rest)[j + 1] = rest[j]
  BY <1>1
<1>3. \A i \in 1..(Len(rest) + 1) :
        i = 1 \/ (i - 1 \in 1..Len(rest)
                    /\ (<<f>> \o rest)[i] = rest[i - 1])
  BY <1>1
<1>. DEFINE all == <<f>> \o rest
<1>4. OneLoop(all) <=> /\ OneLoop(rest)
                       /\ f.kind = "close" => ~ClosingIn(rest, f.of)
  <2>1. ASSUME OneLoop(all) PROVE OneLoop(rest)
    <3>. SUFFICES ASSUME NEW i \in 1..Len(rest), NEW j \in 1..Len(rest),
                         rest[i].kind = "close", rest[j].kind = "close",
                         rest[i].of = rest[j].of
                  PROVE  i = j
      BY DEF OneLoop
    <3>1. i + 1 = j + 1
      BY <1>1, <1>2, <2>1 DEF OneLoop
    <3>. QED
      BY <3>1
  <2>2. ASSUME OneLoop(all), f.kind = "close" PROVE ~ClosingIn(rest, f.of)
    <3>. SUFFICES ASSUME NEW j \in 1..Len(rest), Closes(rest[j], f.of)
                  PROVE  FALSE
      BY DEF ClosingIn
    <3>1. 1 = j + 1
      BY <1>1, <1>2, <2>2 DEF OneLoop, Closes
    <3>. QED
      BY <3>1
  <2>3. ASSUME OneLoop(rest), f.kind = "close" => ~ClosingIn(rest, f.of)
        PROVE  OneLoop(all)
    <3>. SUFFICES ASSUME NEW i \in 1..Len(all), NEW j \in 1..Len(all),
                         all[i].kind = "close", all[j].kind = "close",
                         all[i].of = all[j].of
                  PROVE  i = j
      BY DEF OneLoop
    <3>1. CASE i = 1 /\ j = 1
      BY <3>1
    <3>2. CASE i = 1 /\ j # 1
      BY <1>1, <1>3, <2>3, <3>2 DEF ClosingIn, Closes
    <3>3. CASE i # 1 /\ j = 1
      BY <1>1, <1>3, <2>3, <3>3 DEF ClosingIn, Closes
    <3>4. CASE i # 1 /\ j # 1
      <4>1. i - 1 = j - 1
        BY <1>1, <1>3, <2>3, <3>4 DEF OneLoop
      <4>. QED
        BY <1>1, <4>1
    <3>. QED
      BY <3>1, <3>2, <3>3, <3>4
  <2>. QED
    BY <2>1, <2>2, <2>3
<1>5. DyingOnHandler(all) <=>
        /\ DyingOnHandler(rest)
        /\ f.dying /\ f.of \in Requests =>
             Len(rest) > 0 /\ rest[1].kind = "handler"
  <2>1. ASSUME DyingOnHandler(all) PROVE DyingOnHandler(rest)
    <3>. SUFFICES ASSUME NEW i \in 1..Len(rest), rest[i].dying,
                         rest[i].of \in Requests
                  PROVE  i < Len(rest) /\ rest[i + 1].kind = "handler"
      BY DEF DyingOnHandler
    <3>1. i + 1 < Len(all) /\ all[i + 1 + 1].kind = "handler"
      BY <1>1, <1>2, <2>1 DEF DyingOnHandler
    <3>2. i + 1 \in 1..Len(rest)
      BY <1>1, <3>1
    <3>. QED
      BY <1>2, <3>1, <3>2
  <2>2. ASSUME DyingOnHandler(all), f.dying, f.of \in Requests
        PROVE  Len(rest) > 0 /\ rest[1].kind = "handler"
    <3>1. 1 < Len(all) /\ all[1 + 1].kind = "handler"
      BY <1>1, <1>2, <2>2 DEF DyingOnHandler
    <3>2. 1 \in 1..Len(rest)
      BY <1>1, <3>1
    <3>. QED
      BY <1>2, <3>1, <3>2
  <2>3. ASSUME DyingOnHandler(rest),
               f.dying /\ f.of \in Requests =>
                 Len(rest) > 0 /\ rest[1].kind = "handler"
        PROVE  DyingOnHandler(all)
    <3>. SUFFICES ASSUME NEW i \in 1..Len(all), all[i].dying,
                         all[i].of \in Requests
                  PROVE  i < Len(all) /\ all[i + 1].kind = "handler"
      BY DEF DyingOnHandler
    <3>1. CASE i = 1
      BY <1>1, <2>3, <3>1
    <3>2. CASE i # 1
      <4>1. i - 1 \in 1..Len(rest) /\ all[i] = rest[i - 1]
        BY <1>1, <1>3, <3>2
      <4>2. i - 1 < Len(rest) /\ rest[i - 1 + 1].kind = "handler"
        BY <2>3, <4>1 DEF DyingOnHandler
      <4>3. i \in 1..Len(rest) /\ i - 1 + 1 = i
        BY <1>1, <4>1, <4>2
      <4>. QED
        BY <1>1, <1>2, <4>2, <4>3
    <3>. QED
      BY <3>1, <3>2
  <2>. QED
    BY <2>1, <2>2, <2>3
<1>6. FullLoops(all, lists) <=>
        /\ FullLoops(rest, lists)
        /\ f.kind = "close" /\ f.next > 0 => f.last = Len(lists[f.of])
  <2>1. ASSUME FullLoops(all, lists)
        PROVE  /\ FullLoops(rest, lists)
               /\ f.kind = "close" /\ f.next > 0 => f.last = Len(lists[f.of])
    BY <1>1, <1>2, <2>1, ZenonT(60) DEF FullLoops
  <2>2. ASSUME FullLoops(rest, lists),
               f.kind = "close" /\ f.next > 0 => f.last = Len(lists[f.of])
        PROVE  FullLoops(all, lists)
    BY <1>1, <1>3, <2>2 DEF FullLoops
  <2>. QED
    BY <2>1, <2>2
<1>. QED
  BY <1>4, <1>5, <1>6 DEF FramesLive

LEMMA Unfold ==
  ASSUME NEW frames \in Seq(Frame), frames # <<>>
  PROVE  /\ frames = <<Head(frames)>> \o Tail(frames)
         /\ Head(frames) \in Frame /\ Tail(frames) \in Seq(Frame)
  OBVIOUS

\* A list may change if no loop runs over it.
LEMMA ListsChange ==
  ASSUME NEW frames \in Seq(Frame), NEW lists, NEW next,
         FramesLive(frames, lists),
         \A o \in Objects : ClosingIn(frames, o) => next[o] = lists[o]
  PROVE  FramesLive(frames, next)
<1>. SUFFICES ASSUME NEW i \in 1..Len(frames), frames[i].kind = "close",
                     frames[i].next > 0
              PROVE  frames[i].last = Len(next[frames[i].of])
  BY DEF FramesLive, FullLoops
<1>1. frames[i] \in Frame
  OBVIOUS
<1>2. frames[i].of \in Objects
  BY <1>1 DEF Frame
<1>3. ClosingIn(frames, frames[i].of)
  BY DEF ClosingIn, Closes
<1>. QED
  BY <1>2, <1>3 DEF FramesLive, FullLoops

\* Histories that grow.
LEMMA OneMoreAnswer ==
  ASSUME NEW calls \in Seq(Requests \X Sent), NEW n \in Requests, NEW s \in Sent
  PROVE  \A m, t : AnsweredWith(Append(calls, <<n, s>>), m, t) <=>
                     AnsweredWith(calls, m, t) \/ (m = n /\ t = s)
<1>. DEFINE next == Append(calls, <<n, s>>)
<1>1. /\ Len(next) = Len(calls) + 1 /\ Len(calls) \in Nat
      /\ next[Len(calls) + 1] = <<n, s>>
      /\ \A i \in 1..Len(calls) : next[i] = calls[i]
  OBVIOUS
<1>. HIDE DEF next
<1>2. ASSUME NEW m, NEW t, AnsweredWith(next, m, t)
      PROVE  AnsweredWith(calls, m, t) \/ (m = n /\ t = s)
  <2>1. PICK k \in 1..Len(next) : next[k] = <<m, t>>
    BY <1>2 DEF AnsweredWith
  <2>2. CASE k = Len(calls) + 1
    BY <1>1, <2>1, <2>2
  <2>3. CASE k \in 1..Len(calls)
    BY <1>1, <2>1, <2>3 DEF AnsweredWith
  <2>. QED
    BY <1>1, <2>2, <2>3
<1>3. ASSUME NEW m, NEW t, AnsweredWith(calls, m, t) \/ (m = n /\ t = s)
      PROVE  AnsweredWith(next, m, t)
  BY <1>1, <1>3 DEF AnsweredWith
<1>. QED
  BY <1>2, <1>3 DEF next

Run == [action : Actions, for : Requests \cup {NoRequest}, status : Status]

LEMMA OneMoreRun ==
  ASSUME NEW runs \in Seq(Run), NEW r \in Run
  PROVE  \A a : HasRun(Append(runs, r), a) <=> HasRun(runs, a) \/ a = r.action
<1>. DEFINE next == Append(runs, r)
<1>1. /\ Len(next) = Len(runs) + 1 /\ Len(runs) \in Nat
      /\ next[Len(runs) + 1] = r
      /\ \A i \in 1..Len(runs) : next[i] = runs[i]
  OBVIOUS
<1>. HIDE DEF next
<1>2. ASSUME NEW a, HasRun(next, a)
      PROVE  HasRun(runs, a) \/ a = r.action
  <2>1. PICK k \in 1..Len(next) : next[k].action = a
    BY <1>2 DEF HasRun
  <2>2. CASE k = Len(runs) + 1
    BY <1>1, <2>1, <2>2
  <2>3. CASE k \in 1..Len(runs)
    BY <1>1, <2>1, <2>3 DEF HasRun
  <2>. QED
    BY <1>1, <2>2, <2>3
<1>3. ASSUME NEW a, HasRun(runs, a) \/ a = r.action
      PROVE  HasRun(next, a)
  BY <1>1, <1>3 DEF HasRun
<1>. QED
  BY <1>2, <1>3 DEF next

\* An action that runs, and has not run before.
LEMMA RunsGrow ==
  ASSUME NEW runs \in Seq(Run), NEW r \in Run, NEW adds, NEW calls,
         RunsOK(runs, adds, calls), ~HasRun(runs, r.action),
         RunOK(r, adds, calls)
  PROVE  RunsOK(Append(runs, r), adds, calls)
<1>. DEFINE next == Append(runs, r)
<1>1. /\ Len(next) = Len(runs) + 1 /\ Len(runs) \in Nat
      /\ next[Len(runs) + 1] = r
      /\ \A i \in 1..Len(runs) : next[i] = runs[i]
  OBVIOUS
<1>. HIDE DEF next
<1>2. \A i \in 1..Len(next) : i = Len(runs) + 1 \/ i \in 1..Len(runs)
  BY <1>1
<1>3. \A i \in 1..Len(next) : RunOK(next[i], adds, calls)
  BY <1>1, <1>2 DEF RunsOK
<1>4. \A i \in 1..Len(runs) : runs[i].action # r.action
  BY DEF HasRun
<1>5. \A i, j \in 1..Len(next) : next[i].action = next[j].action => i = j
  BY <1>1, <1>2, <1>4 DEF RunsOK
<1>. QED
  BY <1>3, <1>5 DEF RunsOK, next

\* What has run stays right when answers are added, and actions that have not.
LEMMA RunsStay ==
  ASSUME NEW runs \in Seq(Run), NEW adds, NEW calls, NEW adds2, NEW calls2,
         RunsOK(runs, adds, calls),
         \A a \in Actions : HasRun(runs, a) => adds2[a] = adds[a],
         \A n, s : AnsweredWith(calls, n, s) => AnsweredWith(calls2, n, s)
  PROVE  RunsOK(runs, adds2, calls2)
<1>1. ASSUME NEW i \in 1..Len(runs)
      PROVE  runs[i].action \in Actions /\ HasRun(runs, runs[i].action)
  <2>1. runs[i] \in Run
    OBVIOUS
  <2>. QED
    BY <2>1 DEF Run, HasRun
<1>2. \A i \in 1..Len(runs) : RunOK(runs[i], adds2, calls2)
  BY <1>1 DEF RunsOK, RunOK
<1>. QED
  BY <1>2 DEF RunsOK

---------------------------------------------------------------------------
\* What the steps do to the actions.

\* The frame of a loop, and what its object is.
LEMMA TopLive ==
  ASSUME Inv, ClosersInv, InClose
  PROVE  /\ Live
         /\ Top \in Frame /\ Top.kind = "close" /\ Top.of \in Objects
         /\ Closes(Top, Top.of)
         /\ Tail(stack) \in Seq(Frame) /\ stack = <<Top>> \o Tail(stack)
         /\ FramesLive(Tail(stack), closers)
         /\ ~ClosingIn(Tail(stack), Top.of)
         /\ \A o : ClosingIn(stack, o) <=>
                     Closes(Top, o) \/ ClosingIn(Tail(stack), o)
         /\ \A o : \A k \in Nat : PassedIn(stack, o, k) <=>
              (Closes(Top, o) /\ k < Top.next) \/ PassedIn(Tail(stack), o, k)
         /\ status[Top.of] \in Sent /\ request[Top.of] \in Requests
         /\ AnsweredWith(answers, request[Top.of], status[Top.of])
         /\ Top.next > 0 => Top.last = Len(closers[Top.of])
         /\ Top.dying /\ Top.of \in Requests =>
              Len(Tail(stack)) > 0 /\ Tail(stack)[1].kind = "handler"
<1>1. /\ fault = "none" /\ stack # <<>> /\ Top \in Frame
      /\ Top.kind = "close" /\ Top.of \in Objects
  BY TopClose
<1>2. Live
  BY <1>1 DEF ClosersInv
<1>3. Tail(stack) \in Seq(Frame) /\ stack = <<Top>> \o Tail(stack)
  BY <1>1, Unfold DEF Inv, Types, Top
<1>4. /\ \A o : ClosingIn(stack, o) <=>
                  Closes(Top, o) \/ ClosingIn(Tail(stack), o)
      /\ \A o : \A k \in Nat : PassedIn(stack, o, k) <=>
           (Closes(Top, o) /\ k < Top.next) \/ PassedIn(Tail(stack), o, k)
  <2>. DEFINE rest == Tail(stack)
  <2>1. rest \in Seq(Frame) /\ stack = <<Top>> \o rest
    BY <1>3
  <2>. HIDE DEF rest
  <2>2. /\ \A o : ClosingIn(stack, o) <=> Closes(Top, o) \/ ClosingIn(rest, o)
        /\ \A o : \A k \in Nat : PassedIn(stack, o, k) <=>
             (Closes(Top, o) /\ k < Top.next) \/ PassedIn(rest, o, k)
    BY <1>1, <2>1, FirstFrame
  <2>. QED
    BY <2>2 DEF rest
<1>5. FramesLive(<<Top>> \o Tail(stack), closers)
  BY <1>2, <1>3 DEF Live
<1>6. /\ FramesLive(Tail(stack), closers)
      /\ ~ClosingIn(Tail(stack), Top.of)
      /\ Top.dying /\ Top.of \in Requests =>
           Len(Tail(stack)) > 0 /\ Tail(stack)[1].kind = "handler"
      /\ Top.next > 0 => Top.last = Len(closers[Top.of])
  BY <1>1, <1>3, <1>5, FirstLive
<1>7. Closes(Top, Top.of)
  BY <1>1 DEF Closes
<1>8. status[Top.of] \in Sent
  BY <1>1, <1>2, <1>4, <1>7 DEF Live, SentOK
<1>9. request[Top.of] \in Requests
      /\ AnsweredWith(answers, request[Top.of], status[Top.of])
  BY <1>1, <1>2, <1>8 DEF Live, SentOK
<1>. QED
  BY <1>1, <1>2, <1>3, <1>4, <1>6, <1>7, <1>8, <1>9

\* The lists stay right if they, the actions and the loops do.
LEMMA ListsStay ==
  ASSUME NEW st, NEW rq, NEW lists, NEW adds, NEW runs, NEW frames,
         NEW st2, NEW rq2, NEW frames2,
         ListsOK(st, rq, lists, adds, runs, frames),
         \A o \in Objects : lists[o] \in Seq(Actions),
         \A o \in Objects : lists[o] # <<>> =>
           /\ rq2[o] = rq[o]
           /\ st[o] = "Started" \/ ClosingIn(frames, o) =>
                st2[o] = "Started" \/ ClosingIn(frames2, o)
           /\ \A k \in Nat : k > 0 =>
                (PassedIn(frames2, o, k) <=> PassedIn(frames, o, k))
  PROVE  ListsOK(st2, rq2, lists, adds, runs, frames2)
<1>. SUFFICES ASSUME NEW o \in Objects
              PROVE  ListOK(o, st2, rq2, lists, adds, runs, frames2)
  BY DEF ListsOK
<1>1. ListOK(o, st, rq, lists, adds, runs, frames) /\ lists[o] \in Seq(Actions)
  BY DEF ListsOK
<1>2. \A i \in 1..Len(lists[o]) : lists[o] # <<>> /\ i \in Nat /\ i > 0
  BY <1>1
<1>. QED
  BY <1>1, <1>2 DEF ListOK

LEMMA AnswerLive ==
  ASSUME Inv, ClosersInv, fault = "none",
         NEW o \in Objects, NEW s \in Sent, NEW d \in BOOLEAN,
         status[o] = "Started",
         d /\ o \in Requests => stack # <<>> /\ Top.kind = "handler",
         Answer(o, s, d)
  PROVE  RunsOK(ran', added', answers') /\ Live'
<1>1. /\ status' = [status EXCEPT ![o] = s]
      /\ answers' = Append(answers, <<request[o], s>>)
      /\ stack' = <<CloseFrame(o, d)>> \o stack
      /\ UNCHANGED <<request, closers, arrived, added, ran>>
  BY DEF Answer, Push
<1>2. Live /\ RunsOK(ran, added, answers)
  BY DEF ClosersInv
<1>3. /\ status \in [Objects -> Status] /\ answers \in Seq(Requests \X Sent)
      /\ stack \in Seq(Frame) /\ ran \in Seq(Run)
      /\ request[o] \in Requests
      /\ \A p \in Objects : closers[p] \in Seq(Actions)
  BY DEF Inv, Types, DutyOK, Run
<1>4. "Started" \notin Sent
  BY DEF Sent
<1>5. ~ClosingIn(stack, o)
  BY <1>2, <1>4 DEF Live, SentOK
<1>. DEFINE f == CloseFrame(o, d)
<1>6. /\ f \in Frame /\ f.kind = "close" /\ f.of = o /\ f.next = 0
      /\ f.dying = d
  BY NewCloseFrame DEF CloseFrame
<1>. HIDE DEF f
<1>7. \A p : Closes(f, p) <=> p = o
  BY <1>6 DEF Closes
<1>8. /\ \A p : ClosingIn(stack', p) <=> p = o \/ ClosingIn(stack, p)
      /\ \A p : \A k \in Nat : PassedIn(stack', p, k) <=> PassedIn(stack, p, k)
  <2>1. /\ \A p : ClosingIn(<<f>> \o stack, p) <=>
                    Closes(f, p) \/ ClosingIn(stack, p)
        /\ \A p : \A k \in Nat : PassedIn(<<f>> \o stack, p, k) <=>
             (Closes(f, p) /\ k < f.next) \/ PassedIn(stack, p, k)
    BY <1>3, <1>6, FirstFrame
  <2>2. stack' = <<f>> \o stack
    BY <1>1 DEF f
  <2>. QED
    BY <1>6, <1>7, <2>1, <2>2
<1>9. FramesLive(stack', closers')
  <2>1. FramesLive(stack, closers)
    BY <1>2 DEF Live
  <2>2. f.dying /\ f.of \in Requests =>
          Len(stack) > 0 /\ stack[1].kind = "handler"
    BY <1>3, <1>6 DEF Top
  <2>3. FramesLive(<<f>> \o stack, closers)
    BY <1>3, <1>5, <1>6, <2>1, <2>2, FirstLive
  <2>. QED
    BY <1>1, <2>3 DEF f
<1>10. \A n, t : AnsweredWith(answers', n, t) <=>
                   AnsweredWith(answers, n, t) \/ (n = request[o] /\ t = s)
  BY <1>1, <1>3, OneMoreAnswer
<1>11. \A p \in Objects : status'[p] = IF p = o THEN s ELSE status[p]
  BY <1>1, <1>3
<1>12. SentOK(status', request', answers', stack')
  BY <1>1, <1>2, <1>3, <1>8, <1>10, <1>11 DEF Live, SentOK
<1>13. ListsOK(status', request', closers', added', ran', stack')
  BY <1>1, <1>2, <1>3, <1>8, <1>11, ListsStay DEF Live
<1>14. RunsOK(ran', added', answers')
  BY <1>1, <1>2, <1>3, <1>10, RunsStay
<1>. QED
  BY <1>1, <1>2, <1>9, <1>12, <1>13, <1>14 DEF Live

LEMMA BeginClosersLive ==
  ASSUME Inv, ClosersInv, BeginClosers
  PROVE  RunsOK(ran', added', answers') /\ Live'
<1>1. /\ UNCHANGED <<status, request, closers, fault, arrived, answers, added,
                     ran>>
      /\ stack' = <<[Top EXCEPT !.next = 1, !.last = Len(closers[Top.of])]>>
                    \o Tail(stack)
      /\ InClose /\ Top.next = 0
  BY DEF BeginClosers, objectVars, historyVars
<1>2. PICK f : f = [Top EXCEPT !.next = 1, !.last = Len(closers[Top.of])]
  OBVIOUS
<1>3. Len(closers[Top.of]) \in Nat
      /\ \A p \in Objects : closers[p] \in Seq(Actions)
  BY <1>1, TopClose DEF Inv, Types
<1>4. /\ f \in Frame /\ f.kind = Top.kind /\ f.of = Top.of
      /\ f.dying = Top.dying /\ f.next = 1 /\ f.last = Len(closers[Top.of])
  BY <1>1, <1>2, <1>3, TopClose, NextFrames
<1>5. PICK rest : rest = Tail(stack)
  OBVIOUS
<1>6. /\ Live /\ rest \in Seq(Frame) /\ FramesLive(rest, closers)
      /\ Top.kind = "close"
      /\ ~ClosingIn(rest, Top.of)
      /\ \A o : ClosingIn(stack, o) <=> Closes(Top, o) \/ ClosingIn(rest, o)
      /\ \A o : \A k \in Nat : PassedIn(stack, o, k) <=>
              (Closes(Top, o) /\ k < Top.next) \/ PassedIn(rest, o, k)
      /\ Top.dying /\ Top.of \in Requests =>
           Len(rest) > 0 /\ rest[1].kind = "handler"
  BY <1>1, <1>5, TopLive
<1>7. stack' = <<f>> \o rest
  BY <1>1, <1>2, <1>5
<1>8. FramesLive(stack', closers')
  <2>1. FramesLive(<<f>> \o rest, closers)
    BY <1>4, <1>6, FirstLive
  <2>. QED
    BY <1>1, <1>7, <2>1
<1>9. \A o : Closes(f, o) <=> Closes(Top, o)
  BY <1>4 DEF Closes
<1>10. /\ \A o : ClosingIn(stack', o) <=> ClosingIn(stack, o)
       /\ \A o : \A k \in Nat : k > 0 =>
            (PassedIn(stack', o, k) <=> PassedIn(stack, o, k))
  <2>1. /\ \A o : ClosingIn(<<f>> \o rest, o) <=>
                    Closes(f, o) \/ ClosingIn(rest, o)
        /\ \A o : \A k \in Nat : PassedIn(<<f>> \o rest, o, k) <=>
             (Closes(f, o) /\ k < f.next) \/ PassedIn(rest, o, k)
    BY <1>4, <1>6, FirstFrame
  <2>2. \A k \in Nat : k > 0 => ~(k < f.next) /\ ~(k < Top.next)
    BY <1>1, <1>4
  <2>. QED
    BY <1>6, <1>7, <1>9, <2>1, <2>2
<1>11. SentOK(status', request', answers', stack')
  BY <1>1, <1>6, <1>10 DEF Live, SentOK
<1>12. ListsOK(status', request', closers', added', ran', stack')
  BY <1>1, <1>3, <1>6, <1>10, ListsStay DEF Live
<1>. QED
  BY <1>1, <1>6, <1>8, <1>11, <1>12 DEF Live, ClosersInv

\* The action that a loop comes to has not run: no other loop is about its
\* object, and it is in no other list.
LEMMA RunCloserLive ==
  ASSUME Inv, ClosersInv, RunCloser
  PROVE  RunsOK(ran', added', answers') /\ Live'
<1>1. /\ UNCHANGED <<status, request, closers, fault, arrived, answers, added>>
      /\ stack' = <<[Top EXCEPT !.next = @ + 1]>> \o Tail(stack)
      /\ InClose /\ Top.next > 0 /\ Top.next <= Top.last
      /\ ran' = Append(ran, [action |-> closers[Top.of][Top.next],
                             for |-> request[Top.of],
                             status |-> status[Top.of]])
  BY DEF RunCloser, Invoke, objectVars, More
<1>2. PICK f : f = [Top EXCEPT !.next = @ + 1]
  OBVIOUS
<1>3. /\ f \in Frame /\ f.kind = Top.kind /\ f.of = Top.of
      /\ f.dying = Top.dying /\ f.next = Top.next + 1 /\ f.last = Top.last
  <2>1. 0 \in Nat /\ Top \in Frame
    BY <1>1, TopClose
  <2>. QED
    BY <1>2, <2>1, NextFrames
<1>4. PICK rest : rest = Tail(stack)
  OBVIOUS
<1>5. /\ Live /\ rest \in Seq(Frame) /\ FramesLive(rest, closers)
      /\ Top.kind = "close" /\ Top.of \in Objects
      /\ ~ClosingIn(rest, Top.of)
      /\ \A o : ClosingIn(stack, o) <=> Closes(Top, o) \/ ClosingIn(rest, o)
      /\ \A o : \A k \in Nat : PassedIn(stack, o, k) <=>
              (Closes(Top, o) /\ k < Top.next) \/ PassedIn(rest, o, k)
      /\ status[Top.of] \in Sent /\ request[Top.of] \in Requests
      /\ AnsweredWith(answers, request[Top.of], status[Top.of])
      /\ Top.last = Len(closers[Top.of])
      /\ Top.dying /\ Top.of \in Requests =>
           Len(rest) > 0 /\ rest[1].kind = "handler"
  BY <1>1, <1>4, TopLive
<1>6. /\ Top.next \in Nat /\ ran \in Seq(Run)
      /\ \A p \in Objects : closers[p] \in Seq(Actions)
  BY <1>1, TopClose DEF Inv, Types, Run
<1>7. stack' = <<f>> \o rest
  BY <1>1, <1>2, <1>4
<1>8. FramesLive(stack', closers')
  <2>1. FramesLive(<<f>> \o rest, closers)
    BY <1>3, <1>5, FirstLive
  <2>. QED
    BY <1>1, <1>7, <2>1
<1>9. \A o : (Closes(f, o) <=> o = Top.of) /\ (Closes(Top, o) <=> o = Top.of)
  BY <1>3, <1>5 DEF Closes
<1>10. /\ \A o : ClosingIn(stack', o) <=> ClosingIn(stack, o)
       /\ \A o : \A k \in Nat : PassedIn(stack', o, k) <=>
            PassedIn(stack, o, k) \/ (o = Top.of /\ k = Top.next)
  <2>1. /\ \A o : ClosingIn(<<f>> \o rest, o) <=>
                    Closes(f, o) \/ ClosingIn(rest, o)
        /\ \A o : \A k \in Nat : PassedIn(<<f>> \o rest, o, k) <=>
             (Closes(f, o) /\ k < f.next) \/ PassedIn(rest, o, k)
    BY <1>3, <1>5, FirstFrame
  <2>2. \A k \in Nat : k < f.next <=> k < Top.next \/ k = Top.next
    BY <1>3, <1>6
  <2>. QED
    BY <1>5, <1>7, <1>9, <2>1, <2>2
<1>11. ~PassedIn(stack, Top.of, Top.next)
  <2>1. ~PassedIn(rest, Top.of, Top.next)
    BY <1>5 DEF PassedIn, ClosingIn
  <2>. QED
    BY <1>5, <1>6, <2>1
<1>12. PICK a : a = closers[Top.of][Top.next]
  OBVIOUS
<1>13. Top.next \in 1..Len(closers[Top.of])
  BY <1>1, <1>5, <1>6
<1>14. a \in Actions /\ added[a] = request[Top.of] /\ ~HasRun(ran, a)
  BY <1>5, <1>6, <1>11, <1>12, <1>13 DEF Live, ListsOK, ListOK
<1>15. PICK r : r = [action |-> a, for |-> request[Top.of],
                     status |-> status[Top.of]]
  OBVIOUS
<1>16. /\ r \in Run /\ r.action = a /\ r.for = request[Top.of]
       /\ r.status = status[Top.of]
  BY <1>5, <1>14, <1>15 DEF Run, Inv, Types
<1>17. ran' = Append(ran, r)
  BY <1>1, <1>12, <1>15
<1>18. \A b : HasRun(ran', b) <=> HasRun(ran, b) \/ b = a
  BY <1>6, <1>16, <1>17, OneMoreRun
<1>19. RunsOK(ran', added', answers')
  <2>1. RunOK(r, added, answers)
    BY <1>5, <1>14, <1>16 DEF RunOK, Sent
  <2>2. RunsOK(ran, added, answers)
    BY DEF ClosersInv
  <2>3. RunsOK(Append(ran, r), added, answers)
    BY <1>6, <1>14, <1>16, <2>1, <2>2, RunsGrow
  <2>. QED
    BY <1>1, <1>17, <2>3
<1>20. SentOK(status', request', answers', stack')
  BY <1>1, <1>5, <1>10 DEF Live, SentOK
<1>21. ListsOK(status', request', closers', added', ran', stack')
  <2>. SUFFICES ASSUME NEW o \in Objects
                PROVE  ListOK(o, status, request, closers, added, ran', stack')
    BY <1>1 DEF ListsOK
  <2>1. ListOK(o, status, request, closers, added, ran, stack)
    BY <1>5 DEF Live, ListsOK
  <2>2. \A i \in 1..Len(closers[o]) :
          closers[o][i] = a <=> o = Top.of /\ i = Top.next
    BY <1>5, <1>12, <1>13 DEF Live, OneList
  <2>3. \A i \in 1..Len(closers[o]) : i \in Nat
    OBVIOUS
  <2>. QED
    BY <1>10, <1>18, <2>1, <2>2, <2>3 DEF ListOK
<1>. QED
  BY <1>1, <1>5, <1>8, <1>18, <1>19, <1>20, <1>21 DEF Live, NoneLost

\* An object whose actions have all run is closed, or goes.
LEMMA Cleared ==
  ASSUME Inv, Live, stack' \in Seq(Frame), NEW o \in Objects,
         status[o] # "Started",
         closers' = [closers EXCEPT ![o] = <<>>],
         UNCHANGED <<answers, added, ran>>,
         \A p \in Objects : p # o \/ status'[p] # "Invalid" =>
           status'[p] = status[p] /\ request'[p] = request[p],
         \A p \in Objects : ClosingIn(stack', p) <=>
                              ClosingIn(stack, p) /\ p # o,
         \A p \in Objects : p # o => \A k \in Nat :
           (PassedIn(stack', p, k) <=> PassedIn(stack, p, k)),
         \A i \in 1..Len(closers[o]) : HasRun(ran, closers[o][i]),
         FramesLive(stack', closers)
  PROVE  Live'
<1>1. /\ closers'[o] = <<>> /\ Len(closers'[o]) = 0
      /\ \A p \in Objects : p # o => closers'[p] = closers[p]
  <2>1. /\ closers'[o] = <<>>
        /\ \A p \in Objects : p # o => closers'[p] = closers[p]
    BY DEF Inv, Types
  <2>2. Len(<<>>) = 0
    OBVIOUS
  <2>. QED
    BY <2>1, <2>2
<1>2. FramesLive(stack', closers')
  <2>1. \A p \in Objects : ClosingIn(stack', p) => closers'[p] = closers[p]
    BY <1>1
  <2>2. PICK next : next = closers'
    OBVIOUS
  <2>3. \A p \in Objects : ClosingIn(stack', p) => next[p] = closers[p]
    BY <2>1, <2>2
  <2>4. FramesLive(stack', next)
    BY <2>3, ListsChange
  <2>. QED
    BY <2>2, <2>4
<1>3. SentOK(status', request', answers', stack')
  <2>1. "Invalid" \notin Sent
    BY DEF Sent
  <2>. QED
    BY <2>1 DEF Live, SentOK
<1>4. ListsOK(status', request', closers', added', ran', stack')
  <2>. SUFFICES ASSUME NEW p \in Objects
                PROVE  ListOK(p, status', request', closers', added, ran,
                              stack')
    BY DEF ListsOK
  <2>1. CASE p = o
    BY <1>1, <2>1 DEF ListOK
  <2>2. CASE p # o
    <3>1. ListOK(p, status, request, closers, added, ran, stack)
      BY DEF Live, ListsOK
    <3>2. closers'[p] = closers[p] /\ \A i \in 1..Len(closers[p]) : i \in Nat
      BY <1>1, <2>2
    <3>. QED
      BY <2>2, <3>1, <3>2 DEF ListOK
  <2>. QED
    BY <2>1, <2>2
<1>5. OneList(closers')
  <2>1. \A p \in Objects : \A i \in 1..Len(closers'[p]) :
          i \in 1..Len(closers[p]) /\ closers'[p][i] = closers[p][i]
    BY <1>1
  <2>. QED
    BY <2>1 DEF Live, OneList
<1>6. NoneLost(added', ran', closers')
  <2>. SUFFICES ASSUME NEW a \in Actions, added[a] \in Requests, ~HasRun(ran, a)
                PROVE  Listed(closers', a)
    BY DEF NoneLost
  <2>1. PICK p \in Objects : \E i \in 1..Len(closers[p]) : closers[p][i] = a
    BY DEF Live, NoneLost, Listed
  <2>2. p # o
    BY <2>1
  <2>. QED
    BY <1>1, <2>1, <2>2 DEF Listed
<1>. QED
  BY <1>2, <1>3, <1>4, <1>5, <1>6 DEF Live

\* A handler frame on top is left.
LEMMA HandlerPopped ==
  ASSUME NEW frames \in Seq(Frame), frames # <<>>,
         Head(frames).kind = "handler", NEW lists, FramesLive(frames, lists)
  PROVE  /\ FramesLive(Tail(frames), lists)
         /\ Tail(frames) \in Seq(Frame)
         /\ \A o : ClosingIn(Tail(frames), o) <=> ClosingIn(frames, o)
         /\ \A o : \A k \in Nat :
              (PassedIn(Tail(frames), o, k) <=> PassedIn(frames, o, k))
<1>1. PICK f, rest : f = Head(frames) /\ rest = Tail(frames)
  OBVIOUS
<1>2. f \in Frame /\ rest \in Seq(Frame) /\ frames = <<f>> \o rest
  BY <1>1, Unfold
<1>3. \A o : ~Closes(f, o)
  BY <1>1 DEF Closes
<1>4. /\ \A o : ClosingIn(<<f>> \o rest, o) <=>
                  Closes(f, o) \/ ClosingIn(rest, o)
      /\ \A o : \A k \in Nat : PassedIn(<<f>> \o rest, o, k) <=>
           (Closes(f, o) /\ k < f.next) \/ PassedIn(rest, o, k)
  BY <1>2, FirstFrame
<1>5. FramesLive(<<f>> \o rest, lists)
  BY <1>2
<1>6. FramesLive(rest, lists)
  BY <1>2, <1>5, FirstLive
<1>. QED
  BY <1>1, <1>2, <1>3, <1>4, <1>6

LEMMA EndCloseLive ==
  ASSUME Inv, ClosersInv, EndClose
  PROVE  RunsOK(ran', added', answers') /\ Live'
<1>1. /\ InClose /\ UNCHANGED <<arrived, answers, added, ran>>
      /\ Top.next > 0 /\ ~(Top.next <= Top.last)
      /\ closers' = [closers EXCEPT ![Top.of] = <<>>]
  BY DEF EndClose, historyVars, Gone, More
<1>2. PICK rest : rest = Tail(stack)
  OBVIOUS
<1>3. PICK o : o = Top.of
  OBVIOUS
<1>4. /\ Live /\ rest \in Seq(Frame) /\ FramesLive(rest, closers)
      /\ o \in Objects /\ ~ClosingIn(rest, o)
      /\ \A p : Closes(Top, p) <=> p = o
      /\ \A p : ClosingIn(stack, p) <=> Closes(Top, p) \/ ClosingIn(rest, p)
      /\ \A p : \A k \in Nat : PassedIn(stack, p, k) <=>
              (Closes(Top, p) /\ k < Top.next) \/ PassedIn(rest, p, k)
      /\ status[o] \in Sent /\ Top.last = Len(closers[o])
      /\ Top.dying /\ o \in Requests =>
           Len(rest) > 0 /\ rest[1].kind = "handler"
  BY <1>1, <1>2, <1>3, TopLive DEF Closes
<1>5. status[o] # "Started"
  BY <1>4 DEF Sent
<1>6. \A i \in 1..Len(closers[o]) : HasRun(ran, closers[o][i])
  <2>. SUFFICES ASSUME NEW i \in 1..Len(closers[o])
                PROVE  HasRun(ran, closers[o][i])
    OBVIOUS
  <2>1. Top.next \in Nat /\ Top.last \in Nat
    BY <1>1, TopClose
  <2>2. i \in Nat /\ i < Top.next
    BY <1>1, <1>4, <2>1
  <2>3. PassedIn(stack, o, i)
    BY <1>4, <2>2
  <2>. QED
    BY <1>4, <2>3 DEF Live, ListsOK, ListOK
<1>7. /\ FramesLive(stack', closers) /\ stack' \in Seq(Frame)
      /\ \A p : ClosingIn(stack', p) <=> ClosingIn(rest, p)
      /\ \A p : \A k \in Nat : (PassedIn(stack', p, k) <=> PassedIn(rest, p, k))
  <2>1. CASE Top.dying /\ o \in Requests
    <3>1. stack' = Tail(rest)
      BY <1>2, <1>3, <2>1 DEF EndClose, EndOfLife
    <3>2. rest # <<>> /\ Head(rest).kind = "handler"
      BY <1>4, <2>1
    <3>. QED
      BY <1>4, <3>1, <3>2, HandlerPopped
  <2>2. CASE ~(Top.dying /\ o \in Requests)
    <3>1. stack' = rest
      BY <1>2, <1>3, <2>2 DEF EndClose, EndOfLife, Pop
    <3>. QED
      BY <1>4, <3>1
  <2>. QED
    BY <2>1, <2>2
<1>8. \A p \in Objects : p # o \/ status'[p] # "Invalid" =>
        status'[p] = status[p] /\ request'[p] = request[p]
  <2>1. CASE Top.dying
    BY <1>3, <1>4, <2>1 DEF EndClose, Gone, Inv, Types
  <2>2. CASE ~Top.dying
    BY <2>2 DEF EndClose
  <2>. QED
    BY <2>1, <2>2
<1>9. /\ \A p \in Objects : ClosingIn(stack', p) <=>
                              ClosingIn(stack, p) /\ p # o
      /\ \A p \in Objects : p # o => \A k \in Nat :
           (PassedIn(stack', p, k) <=> PassedIn(stack, p, k))
  BY <1>4, <1>7
<1>10. Live'
  BY <1>1, <1>3, <1>4, <1>5, <1>6, <1>7, <1>8, <1>9, Cleared
<1>. QED
  BY <1>1, <1>10 DEF ClosersInv

LEMMA Below ==
  ASSUME Inv, NEW o
  PROVE  ClosingBelow(o, 0) <=> ClosingIn(stack, o)
<1>1. 0 + 1 = 1
  OBVIOUS
<1>. QED
  BY <1>1 DEF ClosingBelow, ClosingIn, Closes

\* The destructor of an object that was answered, or never had a request: it
\* has no actions unless a loop over them is in progress.
LEMMA DestroyLive ==
  ASSUME Inv, ClosersInv, fault = "none", NEW o \in Objects,
         o \in Requests => stack # <<>> /\ Top.kind = "handler",
         Destroy(o)
  PROVE  RunsOK(ran', added', answers') /\ (fault' = "none" => Live')
<1>1. CASE status[o] = "Started"
  <2>1. Answer(o, "SentError", TRUE)
    BY <1>1 DEF Destroy
  <2>2. "SentError" \in Sent /\ TRUE \in BOOLEAN
    BY DEF Sent
  <2>. QED
    BY <1>1, <2>1, <2>2, AnswerLive
<1>2. CASE status[o] # "Started"
  <2>1. /\ Gone(o) /\ UNCHANGED <<arrived, answers, added, ran>>
        /\ o \in Requests => Pop
        /\ o \notin Requests => UNCHANGED stack
    BY <1>2 DEF Destroy, historyVars
  <2>2. RunsOK(ran', added', answers')
    BY <2>1 DEF ClosersInv
  <2>3. ASSUME fault' = "none" PROVE Live'
    <3>1. Live /\ stack \in Seq(Frame)
      BY DEF ClosersInv, Inv, Types
    <3>2. ~ClosingIn(stack, o)
      BY <2>3, Below DEF Destroy
    <3>3. closers[o] = <<>>
      BY <1>2, <3>1, <3>2 DEF Live, ListsOK, ListOK
    <3>4. closers' = [closers EXCEPT ![o] = <<>>]
      BY <2>1 DEF Gone
    <3>5. \A p \in Objects : p # o \/ status'[p] # "Invalid" =>
            status'[p] = status[p] /\ request'[p] = request[p]
      BY <2>1 DEF Gone, Inv, Types
    <3>6. \A i \in 1..Len(closers[o]) : HasRun(ran, closers[o][i])
      BY <3>3
    <3>7. /\ FramesLive(stack', closers) /\ stack' \in Seq(Frame)
          /\ \A p : ClosingIn(stack', p) <=> ClosingIn(stack, p)
          /\ \A p : \A k \in Nat :
               (PassedIn(stack', p, k) <=> PassedIn(stack, p, k))
      <4>1. CASE o \in Requests
        <5>1. /\ stack # <<>> /\ Head(stack).kind = "handler"
              /\ stack' = Tail(stack)
          BY <2>1, <4>1 DEF Top, Pop
        <5>2. FramesLive(stack, closers)
          BY <3>1 DEF Live
        <5>. QED
          BY <3>1, <5>1, <5>2, HandlerPopped
      <4>2. CASE o \notin Requests
        BY <2>1, <3>1, <4>2 DEF Live
      <4>. QED
        BY <4>1, <4>2
    <3>8. /\ \A p \in Objects : ClosingIn(stack', p) <=>
                                  ClosingIn(stack, p) /\ p # o
          /\ \A p \in Objects : p # o => \A k \in Nat :
               (PassedIn(stack', p, k) <=> PassedIn(stack, p, k))
      BY <3>2, <3>7
    <3>. QED
      BY <1>2, <2>1, <3>1, <3>4, <3>5, <3>6, <3>7, <3>8, Cleared
  <2>. QED
    BY <2>2, <2>3
<1>. QED
  BY <1>1, <1>2

\* What a list holds was added for a request.
LEMMA ListedAdded ==
  ASSUME Inv, Live, NEW o \in Objects, NEW i \in 1..Len(closers[o])
  PROVE  /\ closers[o][i] \in Actions
         /\ added[closers[o][i]] = request[o] /\ request[o] \in Requests
<1>1. closers[o] \in Seq(Actions) /\ closers[o] # <<>>
  BY DEF Inv, Types
<1>2. ListOK(o, status, request, closers, added, ran, stack)
  BY DEF Live, ListsOK
<1>3. CASE status[o] = "Started"
  <2>1. request[o] \in Requests
    BY <1>3 DEF Inv, Types, DutyOK
  <2>. QED
    BY <1>1, <1>2, <2>1 DEF ListOK
<1>4. CASE ClosingIn(stack, o)
  <2>1. request[o] \in Requests
    BY <1>4 DEF Live, SentOK
  <2>. QED
    BY <1>1, <1>2, <2>1 DEF ListOK
<1>. QED
  BY <1>1, <1>2, <1>3, <1>4 DEF ListOK

\* An action that is added has not run and is in no list.
LEMMA FreshAction ==
  ASSUME Inv, Live, NEW o \in Objects, NEW a \in Actions,
         AddOnCloseAction(o, a)
  PROVE  /\ added[a] = NoRequest /\ ~HasRun(ran, a)
         /\ \A p \in Objects : \A i \in 1..Len(closers[p]) : closers[p][i] # a
<1>1. NoRequest \notin Requests
  BY TypedResponseAssumption DEF TypedResponseAssumption
<1>2. added[a] = NoRequest /\ RunsOf(a) = {}
  BY DEF AddOnCloseAction
<1>3. ~HasRun(ran, a)
  BY <1>2 DEF RunsOf, HasRun
<1>. QED
  BY <1>1, <1>2, <1>3, ListedAdded

\* The action is kept until the loop.
LEMMA KeptLive ==
  ASSUME Inv, ClosersInv, NEW o \in Objects, NEW a \in Actions,
         AddOnCloseAction(o, a), status[o] = "Started"
  PROVE  RunsOK(ran', added', answers') /\ Live'
<1>1. /\ fault = "none"
      /\ added' = [added EXCEPT ![a] = request[o]]
      /\ closers' = [closers EXCEPT ![o] = Append(closers[o], a)]
      /\ UNCHANGED <<status, request, stack, arrived, answers, ran>>
  BY DEF AddOnCloseAction, AddOrRun, InUser
<1>2. Live /\ RunsOK(ran, added, answers)
  BY <1>1 DEF ClosersInv
<1>3. /\ closers[o] \in Seq(Actions) /\ request[o] \in Requests
      /\ ran \in Seq(Run) /\ stack \in Seq(Frame)
      /\ NoRequest \notin Requests
  BY TypedResponseAssumption
     DEF Inv, Types, DutyOK, Run, TypedResponseAssumption
<1>4. ~ClosingIn(stack, o)
  BY <1>2 DEF Live, SentOK, Sent
<1>5. /\ added'[a] = request[o]
      /\ \A b \in Actions : b # a => added'[b] = added[b]
  BY <1>1, <1>3 DEF Inv, Types
<1>6. PICK list : list = Append(closers[o], a)
  OBVIOUS
<1>7. /\ Len(list) = Len(closers[o]) + 1 /\ list[Len(closers[o]) + 1] = a
      /\ Len(closers[o]) \in Nat
      /\ \A i \in 1..Len(closers[o]) : list[i] = closers[o][i]
      /\ \A i \in 1..Len(list) :
           i = Len(closers[o]) + 1 \/ i \in 1..Len(closers[o])
      /\ Len(closers[o]) + 1 \in 1..Len(list)
      /\ \A i \in 1..Len(closers[o]) : i \in 1..Len(list)
  BY <1>3, <1>6
<1>8. /\ closers'[o] = list
      /\ \A p \in Objects : p # o => closers'[p] = closers[p]
  BY <1>1, <1>6 DEF Inv, Types
<1>9. /\ ~HasRun(ran, a)
      /\ \A p \in Objects : \A i \in 1..Len(closers[p]) : closers[p][i] # a
  BY <1>1, <1>2, FreshAction
<1>10. FramesLive(stack', closers')
  <2>1. FramesLive(stack, closers)
    BY <1>2 DEF Live
  <2>2. \A p \in Objects : ClosingIn(stack, p) => closers'[p] = closers[p]
    BY <1>4, <1>8
  <2>3. PICK next : next = closers'
    OBVIOUS
  <2>4. \A p \in Objects : ClosingIn(stack, p) => next[p] = closers[p]
    BY <2>2, <2>3
  <2>5. stack \in Seq(Frame) /\ stack' = stack
    BY <1>1, <1>3
  <2>6. FramesLive(stack, next)
    BY <2>1, <2>4, <2>5, ListsChange
  <2>. QED
    BY <2>3, <2>5, <2>6
<1>11. ListsOK(status', request', closers', added', ran', stack')
  <2>. SUFFICES ASSUME NEW p \in Objects
                PROVE  ListOK(p, status, request, closers', added', ran, stack)
    BY <1>1 DEF ListsOK
  <2>1. ListOK(p, status, request, closers, added, ran, stack)
    BY <1>2 DEF Live, ListsOK
  <2>2. \A i \in 1..Len(closers[p]) : added'[closers[p][i]] = request[p]
    BY <1>2, <1>5, <1>9, ListedAdded
  <2>3. CASE p # o
    BY <1>8, <2>1, <2>2, <2>3 DEF ListOK
  <2>4. CASE p = o
    <3>1. ~PassedIn(stack, o, Len(closers[o]) + 1)
      BY <1>4 DEF PassedIn, ClosingIn
    <3>2. ASSUME NEW i \in 1..Len(list)
          PROVE  /\ added'[list[i]] = request[o]
                 /\ HasRun(ran, list[i]) <=> PassedIn(stack, o, i)
      <4>1. CASE i = Len(closers[o]) + 1
        BY <1>5, <1>7, <1>9, <3>1, <4>1
      <4>2. CASE i \in 1..Len(closers[o])
        BY <1>7, <2>1, <2>2, <2>4, <4>2 DEF ListOK
      <4>. QED
        BY <1>7, <4>1, <4>2
    <3>. QED
      BY <1>8, <2>4, <3>2 DEF ListOK
  <2>. QED
    BY <2>3, <2>4
<1>12. OneList(closers')
  <2>. SUFFICES ASSUME NEW p \in Objects, NEW q \in Objects,
                       NEW i \in 1..Len(closers'[p]),
                       NEW j \in 1..Len(closers'[q]),
                       closers'[p][i] = closers'[q][j]
                PROVE  p = q /\ i = j
    BY DEF OneList
  <2>1. \/ p = o /\ i = Len(closers[o]) + 1 /\ closers'[p][i] = a
        \/ i \in 1..Len(closers[p]) /\ closers'[p][i] = closers[p][i]
    BY <1>7, <1>8
  <2>2. \/ q = o /\ j = Len(closers[o]) + 1 /\ closers'[q][j] = a
        \/ j \in 1..Len(closers[q]) /\ closers'[q][j] = closers[q][j]
    BY <1>7, <1>8
  <2>. QED
    BY <1>2, <1>9, <2>1, <2>2 DEF Live, OneList
<1>13. NoneLost(added', ran', closers')
  <2>. SUFFICES ASSUME NEW b \in Actions, added'[b] \in Requests,
                       ~HasRun(ran, b)
                PROVE  Listed(closers', b)
    BY <1>1 DEF NoneLost
  <2>1. CASE b = a
    BY <1>7, <1>8, <2>1 DEF Listed
  <2>2. CASE b # a
    <3>1. PICK p \in Objects : \E i \in 1..Len(closers[p]) : closers[p][i] = b
      BY <1>2, <1>5, <2>2 DEF Live, NoneLost, Listed
    <3>2. PICK i \in 1..Len(closers[p]) : closers[p][i] = b
      BY <3>1
    <3>3. i \in 1..Len(closers'[p]) /\ closers'[p][i] = b
      BY <1>7, <1>8, <3>2
    <3>. QED
      BY <3>3 DEF Listed
  <2>. QED
    BY <2>1, <2>2
<1>14. RunsOK(ran', added', answers')
  <2>1. \A b \in Actions : HasRun(ran, b) => added'[b] = added[b]
    BY <1>5, <1>9
  <2>. QED
    BY <1>1, <1>2, <1>3, <2>1, RunsStay
<1>. QED
  BY <1>1, <1>2, <1>10, <1>11, <1>12, <1>13, <1>14 DEF Live

\* The response is answered: the action is called at once.
LEMMA CalledLive ==
  ASSUME Inv, ClosersInv, NEW o \in Objects, NEW a \in Actions,
         AddOnCloseAction(o, a), status[o] \in Sent
  PROVE  RunsOK(ran', added', answers') /\ Live'
<1>1. /\ fault = "none"
      /\ added' = [added EXCEPT ![a] = request[o]]
      /\ ran' = Append(ran, [action |-> a, for |-> request[o],
                             status |-> status[o]])
      /\ UNCHANGED <<status, request, closers, stack, arrived, answers>>
  BY DEF AddOnCloseAction, AddOrRun, Invoke, InUser, Sent
<1>2. Live /\ RunsOK(ran, added, answers)
  BY <1>1 DEF ClosersInv
<1>3. status[o] # "Invalid"
  BY DEF Sent
<1>4. /\ request[o] \in Requests
      /\ AnsweredWith(answers, request[o], status[o])
  BY <1>2 DEF Live, SentOK
<1>5. ran \in Seq(Run) /\ NoRequest \notin Requests
  BY TypedResponseAssumption DEF Inv, Types, Run, TypedResponseAssumption
<1>6. /\ added'[a] = request[o]
      /\ \A b \in Actions : b # a => added'[b] = added[b]
  BY <1>1 DEF Inv, Types
<1>7. /\ ~HasRun(ran, a)
      /\ \A p \in Objects : \A i \in 1..Len(closers[p]) : closers[p][i] # a
  BY <1>1, <1>2, FreshAction
<1>8. PICK r : r = [action |-> a, for |-> request[o], status |-> status[o]]
  OBVIOUS
<1>9. /\ r \in Run /\ r.action = a /\ r.for = request[o]
      /\ r.status = status[o]
  BY <1>4, <1>8 DEF Run, Inv, Types
<1>10. ran' = Append(ran, r)
  BY <1>1, <1>8
<1>11. \A b : HasRun(ran', b) <=> HasRun(ran, b) \/ b = a
  BY <1>5, <1>9, <1>10, OneMoreRun
<1>12. RunsOK(ran', added', answers')
  <2>1. \A b \in Actions : HasRun(ran, b) => added'[b] = added[b]
    BY <1>6, <1>7
  <2>2. RunsOK(ran, added', answers)
    BY <1>2, <1>5, <2>1, RunsStay
  <2>3. RunOK(r, added', answers)
    BY <1>3, <1>4, <1>6, <1>9 DEF RunOK
  <2>4. RunsOK(Append(ran, r), added', answers)
    BY <1>5, <1>7, <1>9, <2>2, <2>3, RunsGrow
  <2>. QED
    BY <1>1, <1>10, <2>4
<1>13. ListsOK(status', request', closers', added', ran', stack')
  <2>. SUFFICES ASSUME NEW p \in Objects
                PROVE  ListOK(p, status, request, closers, added', ran', stack)
    BY <1>1 DEF ListsOK
  <2>1. ListOK(p, status, request, closers, added, ran, stack)
    BY <1>2 DEF Live, ListsOK
  <2>2. \A i \in 1..Len(closers[p]) :
          closers[p][i] # a /\ added'[closers[p][i]] = request[p]
    BY <1>2, <1>6, <1>7, ListedAdded
  <2>. QED
    BY <1>11, <2>1, <2>2 DEF ListOK
<1>14. NoneLost(added', ran', closers')
  BY <1>1, <1>2, <1>6, <1>11 DEF Live, NoneLost
<1>. QED
  BY <1>1, <1>2, <1>12, <1>13, <1>14 DEF Live

\* The response is not valid: the action is called too, if nothing stops.
LEMMA InvalidLive ==
  ASSUME Inv, ClosersInv, NEW o \in Objects, NEW a \in Actions,
         AddOnCloseAction(o, a), status[o] = "Invalid"
  PROVE  RunsOK(ran', added', answers') /\ (fault' = "none" => Live')
<1>1. /\ fault = "none"
      /\ UNCHANGED <<status, request, closers, stack, arrived, answers, added>>
      /\ \/ fault' # "none" /\ UNCHANGED ran
         \/ ran' = Append(ran, [action |-> a, for |-> request[o],
                                status |-> "Invalid"])
  BY DEF AddOnCloseAction, RunInvalid, Invoke, InUser
<1>2. Live /\ RunsOK(ran, added, answers)
  BY <1>1 DEF ClosersInv
<1>3. CASE fault' # "none" /\ UNCHANGED ran
  BY <1>1, <1>2, <1>3
<1>4. CASE ran' = Append(ran, [action |-> a, for |-> request[o],
                               status |-> "Invalid"])
  <2>1. /\ added[a] = NoRequest /\ ~HasRun(ran, a)
        /\ \A p \in Objects : \A i \in 1..Len(closers[p]) : closers[p][i] # a
    BY <1>2, FreshAction
  <2>2. ran \in Seq(Run) /\ NoRequest \notin Requests
    BY TypedResponseAssumption DEF Inv, Types, Run, TypedResponseAssumption
  <2>3. PICK r : r = [action |-> a, for |-> request[o], status |-> "Invalid"]
    OBVIOUS
  <2>4. r \in Run /\ r.action = a /\ r.status = "Invalid"
    BY <2>3 DEF Run, Status, Inv, Types
  <2>5. ran' = Append(ran, r)
    BY <1>4, <2>3
  <2>6. \A b : HasRun(ran', b) <=> HasRun(ran, b) \/ b = a
    BY <2>2, <2>4, <2>5, OneMoreRun
  <2>7. RunsOK(ran', added', answers')
    <3>1. RunOK(r, added, answers)
      BY <2>1, <2>2, <2>4 DEF RunOK
    <3>2. RunsOK(Append(ran, r), added, answers)
      BY <1>2, <2>1, <2>2, <2>4, <3>1, RunsGrow
    <3>. QED
      BY <1>1, <2>5, <3>2
  <2>8. ListsOK(status', request', closers', added', ran', stack')
    <3>. SUFFICES ASSUME NEW p \in Objects
                  PROVE  ListOK(p, status, request, closers, added, ran', stack)
      BY <1>1 DEF ListsOK
    <3>1. ListOK(p, status, request, closers, added, ran, stack)
      BY <1>2 DEF Live, ListsOK
    <3>. QED
      BY <2>1, <2>6, <3>1 DEF ListOK
  <2>9. NoneLost(added', ran', closers')
    BY <1>1, <1>2, <2>6 DEF Live, NoneLost
  <2>. QED
    BY <1>1, <1>2, <2>7, <2>8, <2>9 DEF Live
<1>. QED
  BY <1>1, <1>3, <1>4

LEMMA ReceiveLive ==
  ASSUME Inv, ClosersInv, NEW n \in Requests, Receive(n)
  PROVE  RunsOK(ran', added', answers') /\ Live'
<1>1. /\ fault = "none" /\ n \notin arrived
      /\ status' = [status EXCEPT ![n] = "Started"]
      /\ request' = [request EXCEPT ![n] = n]
      /\ stack' = <<HandlerFrame(n)>> \o stack
      /\ UNCHANGED <<closers, fault, answers, added, ran>>
  BY DEF Receive, InUser, Push
<1>2. Live
  BY <1>1 DEF ClosersInv
<1>3. /\ n \in Objects /\ stack \in Seq(Frame)
      /\ \A p \in Objects : closers[p] \in Seq(Actions)
  BY DEF Objects, Inv, Types
<1>4. /\ \A p \in Objects : p # n => status'[p] = status[p]
                                     /\ request'[p] = request[p]
      /\ status'[n] = "Started"
  BY <1>1, <1>3 DEF Inv, Types
<1>5. ~ClosingIn(stack, n)
  BY <1>1 DEF ClosingIn, Closes, Inv, StackOK, FrameOK
<1>6. closers[n] = <<>>
  <2>1. status[n] # "Started"
    BY <1>1 DEF Inv, DutyOK
  <2>. QED
    BY <1>2, <1>3, <1>5, <2>1 DEF Live, ListsOK, ListOK
<1>7. PICK f : f = HandlerFrame(n)
  OBVIOUS
<1>8. f \in Frame /\ f.kind = "handler" /\ f.dying = FALSE
  BY <1>3, <1>7 DEF HandlerFrame, Frame
<1>9. \A p : ~Closes(f, p)
  BY <1>8 DEF Closes
<1>10. /\ \A p : ClosingIn(stack', p) <=> ClosingIn(stack, p)
       /\ \A p : \A k \in Nat :
            (PassedIn(stack', p, k) <=> PassedIn(stack, p, k))
  <2>1. /\ \A p : ClosingIn(<<f>> \o stack, p) <=>
                    Closes(f, p) \/ ClosingIn(stack, p)
        /\ \A p : \A k \in Nat : PassedIn(<<f>> \o stack, p, k) <=>
             (Closes(f, p) /\ k < f.next) \/ PassedIn(stack, p, k)
    BY <1>3, <1>8, FirstFrame
  <2>. QED
    BY <1>1, <1>7, <1>9, <2>1
<1>11. FramesLive(stack', closers')
  <2>1. FramesLive(stack, closers)
    BY <1>2 DEF Live
  <2>2. FramesLive(<<f>> \o stack, closers)
    BY <1>3, <1>8, <2>1, FirstLive
  <2>. QED
    BY <1>1, <1>7, <2>2
<1>12. SentOK(status', request', answers', stack')
  <2>1. "Started" \notin Sent
    BY DEF Sent
  <2>. QED
    BY <1>1, <1>2, <1>4, <1>5, <1>10, <2>1 DEF Live, SentOK
<1>13. ListsOK(status', request', closers', added', ran', stack')
  <2>1. ListsOK(status, request, closers, added, ran, stack)
    BY <1>2 DEF Live
  <2>2. \A p \in Objects : closers[p] # <<>> =>
          /\ request'[p] = request[p]
          /\ status[p] = "Started" \/ ClosingIn(stack, p) =>
               status'[p] = "Started" \/ ClosingIn(stack', p)
          /\ \A k \in Nat : k > 0 =>
               (PassedIn(stack', p, k) <=> PassedIn(stack, p, k))
    BY <1>4, <1>6, <1>10
  <2>3. ListsOK(status', request', closers, added, ran, stack')
    BY <1>3, <2>1, <2>2, ListsStay
  <2>4. closers' = closers /\ added' = added /\ ran' = ran
    BY <1>1
  <2>. QED
    BY <2>3, <2>4
<1>. QED
  BY <1>1, <1>2, <1>11, <1>12, <1>13 DEF Live, ClosersInv

\* A response that has actions is not moved, nor assigned to.
LEMMA MoveLive ==
  ASSUME Inv, ClosersInv, ~MayMoveClosers,
         NEW from \in Objects, NEW to \in Slots, Move(from, to)
  PROVE  RunsOK(ran', added', answers') /\ Live'
<1>1. /\ fault = "none" /\ from # to
      /\ ~HasClosers(from) /\ ~HasClosers(to)
      /\ status' = [status EXCEPT ![to] = status[from], ![from] = MovedFrom]
      /\ request' = [request EXCEPT ![to] = request[from]]
      /\ UNCHANGED <<closers, stack, fault, arrived, answers, added, ran>>
  BY DEF Move, InUser, historyVars
<1>2. Live
  BY <1>1 DEF ClosersInv
<1>3. /\ to \in Objects /\ status \in [Objects -> Status]
      /\ request \in [Objects -> Requests \cup {NoRequest}]
      /\ \A p \in Objects : closers[p] \in Seq(Actions)
  BY DEF Objects, Inv, Types
<1>4. /\ status'[to] = status[from] /\ status'[from] = "Invalid"
      /\ request'[to] = request[from]
      /\ \A p \in Objects : p \notin {from, to} =>
           status'[p] = status[p] /\ request'[p] = request[p]
  BY <1>1, <1>3 DEF MovedFrom
<1>5. /\ closers[from] = <<>> /\ closers[to] = <<>>
      /\ ~ClosingIn(stack, from) /\ ~ClosingIn(stack, to)
  BY <1>1, Below DEF HasClosers
<1>6. SentOK(status', request', answers', stack')
  <2>1. "Invalid" \notin Sent
    BY DEF Sent
  <2>. QED
    BY <1>1, <1>2, <1>3, <1>4, <1>5, <2>1 DEF Live, SentOK
<1>7. ListsOK(status', request', closers', added', ran', stack')
  <2>1. \A p \in Objects : closers[p] # <<>> => p \notin {from, to}
    BY <1>5
  <2>2. stack' = stack /\ closers' = closers /\ added' = added /\ ran' = ran
    BY <1>1
  <2>3. ListsOK(status, request, closers, added, ran, stack)
    BY <1>2 DEF Live
  <2>4. \A p \in Objects : closers[p] # <<>> =>
          /\ request'[p] = request[p]
          /\ status[p] = "Started" \/ ClosingIn(stack, p) =>
               status'[p] = "Started" \/ ClosingIn(stack, p)
          /\ \A k \in Nat : k > 0 =>
               (PassedIn(stack, p, k) <=> PassedIn(stack, p, k))
    BY <1>4, <2>1
  <2>5. ListsOK(status', request', closers, added, ran, stack)
    BY <1>3, <2>3, <2>4, ListsStay
  <2>. QED
    BY <2>2, <2>5
<1>. QED
  BY <1>1, <1>2, <1>6, <1>7 DEF Live, ClosersInv

---------------------------------------------------------------------------
\* The theorem.

LEMMA InitClosers ==
  ASSUME Init
  PROVE  ClosersInv
<1>1. /\ Len(stack) = 0 /\ Len(ran) = 0
      /\ \A o \in Objects : closers[o] = <<>> /\ Len(closers[o]) = 0
      /\ \A o \in Objects : status[o] = "Invalid"
      /\ \A a \in Actions : added[a] = NoRequest
  BY DEF Init
<1>2. RunsOK(ran, added, answers)
  BY <1>1 DEF RunsOK
<1>3. FramesLive(stack, closers)
  BY <1>1 DEF FramesLive, OneLoop, DyingOnHandler, FullLoops
<1>4. SentOK(status, request, answers, stack)
  BY <1>1 DEF SentOK, ClosingIn, Sent
<1>5. ListsOK(status, request, closers, added, ran, stack) /\ OneList(closers)
  BY <1>1 DEF ListsOK, ListOK, OneList
<1>6. NoneLost(added, ran, closers)
  BY <1>1, TypedResponseAssumption DEF NoneLost, TypedResponseAssumption
<1>. QED
  BY <1>2, <1>3, <1>4, <1>5, <1>6 DEF ClosersInv, Live

LEMMA NextClosers ==
  ASSUME ~MayMoveClosers, Inv, ClosersInv, [Next]_vars
  PROVE  ClosersInv'
<1>1. CASE Loop
  BY <1>1, BeginClosersLive, RunCloserLive, EndCloseLive DEF Loop, ClosersInv
<1>2. CASE Return
  <2>1. /\ fault = "none" /\ stack # <<>> /\ Top.kind = "handler"
        /\ Destroy(Top.of)
    BY <1>2 DEF Return, InUser
  <2>2. Top.of \in Objects
    <3>1. stack \in Seq(Frame)
      BY DEF Inv, Types
    <3>2. Top \in Frame
      BY <2>1, <3>1, Uncons DEF Top
    <3>. QED
      BY <3>2 DEF Frame
  <2>. QED
    BY <2>1, <2>2, DestroyLive DEF ClosersInv
<1>3. CASE \E n \in Requests : Receive(n)
  BY <1>3, ReceiveLive DEF ClosersInv
<1>4. CASE \E o \in Objects : \E s \in Sent : Send(o, s)
  <2>1. PICK o \in Objects : \E s \in Sent : Send(o, s)
    BY <1>4
  <2>2. PICK s \in Sent : Send(o, s)
    BY <2>1
  <2>3. /\ fault = "none" /\ status[o] = "Started" /\ Answer(o, s, FALSE)
        /\ FALSE \in BOOLEAN
    BY <2>2 DEF Send, InUser
  <2>. QED
    BY <2>3, AnswerLive DEF ClosersInv
<1>5. CASE \E o \in Objects : \E a \in Actions : AddOnCloseAction(o, a)
  <2>1. PICK o \in Objects : \E a \in Actions : AddOnCloseAction(o, a)
    BY <1>5
  <2>2. status[o] \in Sent \/ status[o] \in {"Started", "Invalid"}
    BY DEF Inv, Types, Status
  <2>. QED
    BY <2>1, <2>2, KeptLive, CalledLive, InvalidLive DEF ClosersInv
<1>6. CASE \E o \in Objects : \E to \in Slots : Move(o, to)
  BY <1>6, MoveLive DEF ClosersInv
<1>7. CASE \E o \in Slots : Drop(o)
  <2>1. PICK o \in Slots : Drop(o)
    BY <1>7
  <2>2. /\ fault = "none" /\ Destroy(o) /\ o \in Objects /\ o \notin Requests
    BY <2>1, TypedResponseAssumption
       DEF Drop, InUser, Objects, TypedResponseAssumption
  <2>. QED
    BY <2>2, DestroyLive DEF ClosersInv
<1>8. CASE UNCHANGED vars
  BY <1>8 DEF vars, objectVars, historyVars, ClosersInv, Live
<1>. QED
  BY <1>1, <1>2, <1>3, <1>4, <1>5, <1>6, <1>7, <1>8 DEF Next

\* Unless responses with on-close actions are moved, what has been added to a
\* response and not yet run is in the list of the object that has its request,
\* and no two loops are about one object.
THEOREM ClosersInvariance ==
  ASSUME ~MayMoveClosers
  PROVE  Spec => []ClosersInv
<1>1. Init => ClosersInv
  BY InitClosers
<1>2. Inv /\ ClosersInv /\ [Next]_vars => ClosersInv'
  BY NextClosers
<1>. QED
  BY <1>1, <1>2, Invariance, PTL DEF Spec

\* Then each on-close action is called at most once, for the request it was
\* added for and with the status of its answer, and has been called when the
\* loop that the answer began is over: in every order of answers, loops,
\* nested handlers, moves and destructions.
THEOREM ClosersAreRun ==
  ASSUME ~MayMoveClosers
  PROVE  Spec => []ClosersRun
<1>1. Inv /\ ClosersInv => ClosersRun
  <2>. SUFFICES ASSUME Inv, ClosersInv, NEW a \in Actions, NEW n \in Requests,
                       added[a] = n
                PROVE  /\ \A i \in RunsOf(a) :
                            /\ \A j \in RunsOf(a) : i = j
                            /\ ran[i].for = n
                            /\ \E k \in AnswersTo(n) :
                                 answers[k][2] = ran[i].status
                       /\ fault = "none" /\ AnswersTo(n) # {} /\ stack = <<>>
                            => RunsOf(a) # {}
    BY DEF ClosersRun
  <2>1. ASSUME NEW i \in RunsOf(a)
        PROVE  /\ \A j \in RunsOf(a) : i = j
               /\ ran[i].for = n
               /\ \E k \in AnswersTo(n) : answers[k][2] = ran[i].status
    <3>1. i \in 1..Len(ran) /\ ran[i].action = a
      BY DEF RunsOf
    <3>2. RunOK(ran[i], added, answers)
          /\ \A j \in RunsOf(a) : i = j
      BY <3>1 DEF ClosersInv, RunsOK, RunsOf
    <3>3. ran[i].for = n /\ AnsweredWith(answers, n, ran[i].status)
      BY <3>1, <3>2 DEF RunOK
    <3>4. PICK k \in 1..Len(answers) : answers[k] = <<n, ran[i].status>>
      BY <3>3 DEF AnsweredWith
    <3>. QED
      BY <3>2, <3>3, <3>4 DEF AnswersTo
  <2>2. ASSUME fault = "none", AnswersTo(n) # {}, stack = <<>>,
               RunsOf(a) = {}
        PROVE  FALSE
    <3>1. Live /\ ~HasRun(ran, a)
      BY <2>2 DEF ClosersInv, RunsOf, HasRun
    <3>2. PICK o \in Objects : \E i \in 1..Len(closers[o]) : closers[o][i] = a
      BY <3>1 DEF Live, NoneLost, Listed
    <3>3. PICK i \in 1..Len(closers[o]) : closers[o][i] = a
      BY <3>2
    <3>4. request[o] = n /\ closers[o] # <<>>
      BY <3>1, <3>3, ListedAdded DEF Inv, Types
    <3>5. ~ClosingIn(stack, o)
      BY <2>2 DEF ClosingIn
    <3>6. status[o] = "Started"
      BY <3>1, <3>4, <3>5 DEF Live, ListsOK, ListOK
    <3>. QED
      BY <2>2, <3>4, <3>6 DEF Inv, DutyOK, Answered, AnswersTo
  <2>. QED
    BY <2>1, <2>2
<1>. QED
  BY <1>1, Invariance, ClosersInvariance, PTL
=============================================================================
