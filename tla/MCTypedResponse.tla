-------------------------- MODULE MCTypedResponse --------------------------
(***************************************************************************)
(* Small instances of TypedResponse.                                       *)
(***************************************************************************)
EXTENDS TypedResponse, TLC

CONSTANTS n1, n2, s1, s2

\* Symmetric sets; used only where no temporal property is checked.
Symmetry == Permutations(Requests) \cup Permutations(Slots)
=============================================================================
