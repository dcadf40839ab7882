------------------------- MODULE MCGroupSenderKeys -------------------------
(* Instances of GroupSenderKeys for TLC. *)
EXTENDS GroupSenderKeys, TLC

\* The members are interchangeable.
Symmetry == Permutations(Members)
=============================================================================
