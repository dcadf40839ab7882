--------------------------- MODULE MCPrekeyServer ---------------------------
(* An instance of PrekeyServer for TLC: a device with two one-time bundles, *)
(* and one with a one-time and a last-resort bundle.                        *)
EXTENDS PrekeyServer, TLC

CONSTANTS b1, b2, b3, b4, d1, d2

MCOwner == (b1 :> d1) @@ (b2 :> d1) @@ (b3 :> d2) @@ (b4 :> d2)

\* The one-time bundles of one device, and handlers, are interchangeable.
Symmetry == Permutations({b1, b2}) \cup Permutations(Handlers)
=============================================================================
