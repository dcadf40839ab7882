-------------------------- MODULE MCContextStorage --------------------------
(* Instances of ContextStorage for TLC. *)
EXTENDS ContextStorage, TLC

\* The threads are interchangeable.
Symmetry == Permutations(Threads)
=============================================================================
