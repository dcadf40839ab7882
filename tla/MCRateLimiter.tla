--------------------------- MODULE MCRateLimiter ---------------------------
(* RateLimiter with a slow and strict and a quick operation.               *)
EXTENDS RateLimiter, TLC

WindowLength == [second |-> 3]

ContextLimits ==
    [decrypt |-> [max |-> [second |-> 1], cooldown |-> 3, burst_size |-> 1]]

RelayLimits ==
    [message_send |-> [max |-> [second |-> 2], cooldown |-> 1, burst_size |-> 2]]

Symmetry == Permutations(Threads)
=============================================================================
