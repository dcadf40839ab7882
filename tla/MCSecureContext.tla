--------------------------- MODULE MCSecureContext ---------------------------
(* SecureContext for TLC: two identities, a handful of prekeys and one     *)
(* restart; two threads and a peer with two keys.  The padding of          *)
(* encrypt_message and decrypt_message is evaluated on its own.            *)
EXTENDS SecureContext, Padding

CONSTANTS t1, t2, k1, k2

MCThreads == {t1, t2}
MCPeerKeys == {k1, k2}
MCUsages == {"signed", "onetime", "peer"}

MCNoise == {[i \in 1..n |-> (7 * i) % 256] : n \in 1..MAX_PREFIX}
MCText(n) == [i \in 1..n |-> (11 * i) % 256]

(* For the smallest block and texts of up to two blocks, and every draw:   *)
(* the padded message is whole blocks and unpads to the text.              *)
ASSUME PaddingRoundTrip ==
    \A n \in 0..128, noise \in MCNoise, extra \in 0..MAX_EXTRA_BLOCKS :
        Draw(noise, extra, n, 64) =>
            LET fill == MCText(PadLen(MinTotal(Len(noise), n), 64, extra))
                out  == PadMessage(MCText(n), noise, fill)
            IN  Len(out) % 64 = 0 /\ UnpadMessage(out) = MCText(n)

(* No draw of a built-in mode overflows the length field: the cap works.   *)
ASSUME PaddingFits ==
    \A block \in {256, 1024, 4096, 16384, 65536}, noise \in MCNoise, n \in 0..300,
       extra \in 0..MAX_EXTRA_BLOCKS :
        Draw(noise, extra, n, block) => Fits(noise, extra, n, block)

=============================================================================
