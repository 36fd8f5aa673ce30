------------------------ MODULE LspSessionProperties ------------------------
EXTENDS LspSession

Places == {Nothing, "handler", "other", "nobody"}

\* Every variable holds values of its type; only methods with a signal have
\* its handler, and what is registered for a method fits it.
TypeOK ==
  /\ handlers \in [Peers -> [Methods -> {"none", "request", "notification",
                                         "signal", "null"}]]
  /\ \A p \in Peers, m \in Methods :
       /\ handlers[p][m] = "signal" => m \in Signals
       /\ handlers[p][m] \in {"request", "notification"} => m \in Registrable
       /\ handlers[p][m] = "request" => HandlerShape[m] \in Shapes
  /\ undispatched \in [Peers -> SUBSET {"request", "notification"}]
  /\ connected \in [Peers -> SUBSET Signals]
  /\ lastId \in [Peers -> 0 .. IdCount - 1]
  /\ pending \in [Peers -> [Ids -> 0 .. Len(sent)]]
  /\ Len(sent) <= MaxSent
  /\ \A k \in DOMAIN sent :
       sent[k] \in [from : Peers, kind : {"request", "notification"},
                    id : Ids \cup {NoId}, method : Methods, by : Places,
                    answer : Data \cup ErrorCodes \cup {Nothing},
                    outcome : {"result", Nothing} \cup ErrorCodes]
  /\ garbled \subseteq DOMAIN sent

----------------------------------------------------------------------------

InTransit(p, kind, k) ==
  {i \in DOMAIN wire[p] : wire[p][i].kind = kind /\ wire[p][i].number = k}

\* A response that is on its way finds the entry of its own request in the
\* map, although ids are used again, whether they were counted or given, and
\* both ends use the same numbers: neither another request with the id nor an
\* earlier answer has taken its place.
AnswerFindsItsCall ==
  \A p \in Peers : \A i \in DOMAIN wire[p] :
    wire[p][i].kind = "response" =>
      LET k == wire[p][i].number IN
      /\ sent[k].from = p /\ sent[k].kind = "request"
      /\ wire[p][i].id = sent[k].id /\ pending[p][wire[p][i].id] = k

\* Until its sender has been told something, a request that was accepted is
\* in the map, and in one place: on its way, with a handler that has not
\* answered, or answered and on its way back, unless its bytes were spoiled.
\* After that it is nowhere, and the id is free for another.
CallsAccounted ==
  \A k \in DOMAIN sent :
    LET call == sent[k]
        underway == Cardinality(InTransit(Other(call.from), "request", k))
        held == IF Held(Other(call.from), k) THEN 1 ELSE 0
        back == Cardinality(InTransit(call.from, "response", k))
        waiting == call.outcome = Nothing
    IN  call.kind = "request" =>
          /\ waiting = (pending[call.from][call.id] = k)
          /\ underway + held + back =
               IF waiting /\ k \notin garbled THEN 1 ELSE 0

Waits(k) ==
  /\ k \in DOMAIN sent /\ sent[k].kind = "request"
  /\ sent[k].outcome = Nothing /\ k \notin garbled

\* The sender of each request is told something in the end, whether or not
\* there is a handler for it and whatever the handler does, unless the bytes
\* of the request or of its answer are spoiled.
CallsComplete == \A k \in 1..MaxSent : Waits(k) ~> ~Waits(k)

----------------------------------------------------------------------------
(* The refinement. *)

Phase(k) ==
  CASE sent[k].outcome # Nothing -> "done"
    [] sent[k].outcome = Nothing /\ sent[k].answer # Nothing -> "answered"
    [] sent[k].by # Nothing /\ sent[k].answer = Nothing
         /\ sent[k].outcome = Nothing -> "taken"
    [] OTHER -> "underway"

CallItem(k) ==
  IF k \in DOMAIN sent
  THEN [phase |-> Phase(k), from |-> sent[k].from,
        request |-> sent[k].kind = "request", by |-> sent[k].by,
        answer |-> sent[k].answer, outcome |-> sent[k].outcome]
  ELSE [phase |-> "unsent", from |-> Nothing, request |-> FALSE,
        by |-> Nothing, answer |-> Nothing, outcome |-> Nothing]
CallItems == [k \in 1..MaxSent |-> CallItem(k)]

Calls ==
  INSTANCE RemoteCalls
  WITH Items <- 1..MaxSent, Errors <- ErrorCodes, Values <- Data,
       item <- CallItems

\* The session implements RemoteCalls: a request or notification is taken at
\* most once, after all that its sender sent before and only in that order,
\* and the sender of a request is told what its own handler answered, or why
\* there is no answer.
ImplementsRemoteCalls == Calls!Spec
=============================================================================
