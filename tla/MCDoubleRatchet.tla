-------------------------- MODULE MCDoubleRatchet --------------------------
(* DoubleRatchet for TLC: two peers, a handful of messages. *)
EXTENDS DoubleRatchet
=============================================================================
