----------------------------- MODULE RemoteCalls -----------------------------
(***************************************************************************)
(* What a session of the Language Server Protocol promises its two users:  *)
(* a message is taken at the other end at most once and not before those   *)
(* that its sender sent earlier; a request is answered at most once, and   *)
(* its sender is told that answer and no other.                            *)
(*                                                                         *)
(* Nothing is said of ids, handlers and messages on their way.             *)
(***************************************************************************)
EXTENDS Naturals

CONSTANTS
  Items,     \* the numbers of messages, in the order in which they are sent
  Peers,
  Errors,    \* the codes of errors
  Values     \* the results that are no errors

VARIABLE item

Nothing == "nothing"

Item == [phase : {"unsent", "underway", "taken", "answered", "done"},
         from : Peers \cup {Nothing}, request : BOOLEAN,
         by : {Nothing, "handler", "other", "nobody"},
         answer : Errors \cup Values \cup {Nothing},
         outcome : Errors \cup {"result", Nothing}]

Unsent == [phase |-> "unsent", from |-> Nothing, request |-> FALSE,
           by |-> Nothing, answer |-> Nothing, outcome |-> Nothing]

Init == item = [k \in Items |-> Unsent]

Send(k) ==
  /\ item[k] = Unsent
  /\ \A j \in Items : j < k => item[j].phase # "unsent"
  /\ \E p \in Peers, request \in BOOLEAN :
       item' = [item EXCEPT ![k] = [Unsent EXCEPT !.phase = "underway",
                                                  !.from = p,
                                                  !.request = request]]

\* A request that is not sent: its sender is told so at once.
Reject(k) ==
  /\ item[k] = Unsent
  /\ \A j \in Items : j < k => item[j].phase # "unsent"
  /\ \E p \in Peers :
       item' = [item EXCEPT ![k] = [Unsent EXCEPT !.phase = "done",
                                                  !.from = p,
                                                  !.request = TRUE,
                                                  !.outcome = "InvalidRequest"]]

InTurn(k) ==
  \A j \in Items : j > k /\ item[j].from = item[k].from =>
                     item[j].by = Nothing

Take(k) ==
  /\ item[k].phase = "underway" /\ InTurn(k)
  /\ \E by \in {"handler", "other", "nobody"} :
       item' = [item EXCEPT ![k].phase = "taken", ![k].by = by]

\* A request that nobody handles.
Refuse(k) ==
  /\ item[k].phase = "underway" /\ item[k].request /\ InTurn(k)
  /\ \E error \in Errors :
       item' = [item EXCEPT ![k].phase = "answered", ![k].by = "nobody",
                            ![k].answer = error]

Answer(k) ==
  /\ item[k].phase = "taken" /\ item[k].request
  /\ \E answer \in Errors \cup Values :
       item' = [item EXCEPT ![k].phase = "answered", ![k].answer = answer]

\* What a handler gives is understood.  What is sent without the help of the
\* types may fail to be.
Told(by, answer) ==
  CASE answer \in Errors -> {answer}
    [] answer \notin Errors /\ by = "handler" -> {"result"}
    [] OTHER -> {"result", "ParseError"}

Complete(k) ==
  /\ item[k].phase = "answered"
  /\ \E outcome \in Told(item[k].by, item[k].answer) :
       item' = [item EXCEPT ![k].phase = "done", ![k].outcome = outcome]

Next ==
  \E k \in Items :
    Send(k) \/ Reject(k) \/ Take(k) \/ Refuse(k) \/ Answer(k) \/ Complete(k)

Spec == Init /\ [][Next]_item
=============================================================================
