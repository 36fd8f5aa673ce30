--------------------------- MODULE MessageChannel ---------------------------
(***************************************************************************)
(* What a pair of transports promises to the protocols at its ends: the    *)
(* messages one of them writes are delivered to the other, each once, in   *)
(* the order they were written in, and each as soon as it is there.        *)
(* HttpStreamParser implements it.                                         *)
(***************************************************************************)
EXTENDS Naturals, Sequences

VARIABLES messages,  \* what the sender has to say
          written,   \* how many of its messages have been written
          delivered  \* the messages the receiver has got

vars == <<messages, written, delivered>>

Init == written = 0 /\ delivered = <<>>

Write ==
  /\ written' \in (written + 1)..Len(messages)
  /\ UNCHANGED <<messages, delivered>>

Deliver ==
  /\ Len(delivered) < written
  /\ delivered' = Append(delivered, messages[Len(delivered) + 1])
  /\ UNCHANGED <<messages, written>>

Next == Write \/ Deliver

Spec == Init /\ [][Next]_vars

\* Nothing that has been written is held back.
Fairness == WF_vars(Deliver)
=============================================================================
