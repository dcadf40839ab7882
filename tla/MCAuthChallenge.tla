-------------------------- MODULE MCAuthChallenge --------------------------
(* Instances of AuthChallenge for TLC. *)
EXTENDS AuthChallenge, TLC

\* Users, random challenges and handlers are interchangeable.
Symmetry == Permutations(Users) \cup Permutations(Challenges) \cup Permutations(Handlers)
=============================================================================
