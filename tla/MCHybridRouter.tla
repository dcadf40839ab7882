--------------------------- MODULE MCHybridRouter ---------------------------
(* HybridRouter for TLC: one responder that is advertised once or twice,   *)
(* one more accepted peer than the table admits even when one task passes  *)
(* the cap late, and two messages.                                         *)
EXTENDS HybridRouter

CONSTANTS c1, c2, m1, m2, x1, x2, x3

MCConns == {c1, c2}
MCMsgs == {m1, m2}
MCAccepted == {x1, x2, x3}
MCVersions == {3, 4}
MCExpectations == {None, 0, 1}

Usage(conns, msgs, accepted, may) ==
    [conns |-> conns, msgs |-> msgs, accepted |-> accepted, may |-> may]

\* Identities and bundles that change under a handshake; a network that
\* breaks under messages; messages and answers; a table that fills up.
MCUsages == {Usage({c1, c2}, {}, {}, {"identity", "expiry"}),
             Usage({c1, c2}, {m1}, {}, {"cut"}),
             Usage({c1}, {m1, m2}, {}, {"cut", "stop"}),
             Usage({c1}, {m1}, MCAccepted, {"stop"})}

=============================================================================
