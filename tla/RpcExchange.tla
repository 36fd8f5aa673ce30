---------------------------- MODULE RpcExchange ----------------------------
(***************************************************************************)
(* What an endpoint of JSON-RPC promises, to its peer and to the           *)
(* application: a document that calls for an answer is answered by one     *)
(* message and no more, and the handler of a request is called once, either*)
(* with the response or, when the request is not accepted, with a          *)
(* rejection.  JsonRpcProtocol implements it.                              *)
(***************************************************************************)
CONSTANTS Arrivals,  \* the documents that may be received
          Calls      \* the requests the application may send

VARIABLES document,  \* what has become of each document
          call       \* what has become of each request

vars == <<document, call>>

TypeOK ==
  /\ document \in [Arrivals -> {"new", "nothing owed", "owed", "answered"}]
  /\ call \in [Calls -> {"new", "waiting", "answered", "rejected"}]

Init == /\ document = [n \in Arrivals |-> "new"]
        /\ call = [c \in Calls |-> "new"]

Receive(n) ==
  /\ document[n] = "new"
  /\ \E status \in {"nothing owed", "owed", "answered"} :
       document' = [document EXCEPT ![n] = status]
  /\ UNCHANGED call

Answer(n) ==
  /\ document[n] = "owed"
  /\ document' = [document EXCEPT ![n] = "answered"]
  /\ UNCHANGED call

Request(c) ==
  /\ call[c] = "new"
  /\ \E status \in {"waiting", "rejected"} :
       call' = [call EXCEPT ![c] = status]
  /\ UNCHANGED document

Complete(c) ==
  /\ call[c] = "waiting"
  /\ call' = [call EXCEPT ![c] = "answered"]
  /\ UNCHANGED document

\* A response that is a document of its own completes its request on arrival.
ReceiveResponse(n, c) ==
  /\ document[n] = "new" /\ call[c] = "waiting"
  /\ document' = [document EXCEPT ![n] = "nothing owed"]
  /\ call' = [call EXCEPT ![c] = "answered"]

Next == \/ \E n \in Arrivals : Receive(n) \/ Answer(n)
        \/ \E n \in Arrivals, c \in Calls : ReceiveResponse(n, c)
        \/ \E c \in Calls : Request(c) \/ Complete(c)

Spec == Init /\ [][Next]_vars

\* An owed answer is given eventually.  Whether a response ever comes is up
\* to the peer.
FairSpec == Spec /\ \A n \in Arrivals : WF_vars(Answer(n))
=============================================================================
