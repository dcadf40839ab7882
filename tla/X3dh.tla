-------------------------------- MODULE X3dh --------------------------------
(***************************************************************************)
(* The X3DH key agreement (core/src/handshake/x3dh.rs) over symbolic keys. *)
(* A key pair is one value: its public half is what is sent, its secret    *)
(* half what is multiplied, and the product of two key pairs is the set of *)
(* the two, whichever side computes it.  Hashes and HKDF are injective, so *)
(* a derived secret is the record of everything that goes into it.         *)
(***************************************************************************)

CONSTANT None       \* an Option that is empty

\* x25519 scalar multiplication: commutative.
Dh(a, b) == {a, b}

\* ML-KEM-768: what encapsulating for a public key with fresh randomness
\* makes, and what the holder of a secret key reads out of a ciphertext.  A
\* wrong secret key does not fail: it yields an unrelated secret.
Encaps(pk, coins) == [for |-> pk, coins |-> coins]

Decaps(sk, ct) == IF ct.for = sk THEN ct ELSE [for |-> sk, coins |-> ct]

\* X3dhKdf::derive_shared_secret and derive_pq_shared_secret: which of the
\* two it was shows in pq.
Derive(dhs, pq, transcript, ext) ==
    [dh |-> dhs, pq |-> pq, transcript |-> transcript, ext |-> ext]

\* x3dh_initiator_v3: the initiator's own identity and ephemeral key pairs
\* against the peer's published halves.  A peer without a post-quantum key
\* gets the classical derivation.
X3dhInitiator(id, eph, peerId, peerSpk, peerOpk, ct, dev, peerDev, ext) ==
    Derive(<<Dh(id, peerSpk), Dh(eph, peerId), Dh(eph, peerSpk),
             IF peerOpk = None THEN None ELSE Dh(eph, peerOpk)>>,
           ct,
           <<id, eph, peerId, peerSpk, peerOpk, dev, peerDev>>,
           ext)

\* Mutant: the transcript in each side's own order.
X3dhResponder_OwnDeviceFirst(id, spk, opk, peerId, peerEph, pqSk, ct, dev, peerDev, ext) ==
    Derive(<<Dh(spk, peerId), Dh(id, peerEph), Dh(spk, peerEph),
             IF opk = None THEN None ELSE Dh(opk, peerEph)>>,
           IF pqSk # None /\ ct # None THEN Decaps(pqSk, ct) ELSE None,
           <<peerId, peerEph, id, spk, opk, dev, peerDev>>,
           ext)

\* x3dh_responder_v3: the same products from the other halves, the transcript
\* in the initiator's order.
X3dhResponder(id, spk, opk, peerId, peerEph, pqSk, ct, dev, peerDev, ext) ==
    Derive(<<Dh(spk, peerId), Dh(id, peerEph), Dh(spk, peerEph),
             IF opk = None THEN None ELSE Dh(opk, peerEph)>>,
           IF pqSk # None /\ ct # None THEN Decaps(pqSk, ct) ELSE None,
           <<peerId, peerEph, id, spk, opk, peerDev, dev>>,
           ext)

=============================================================================
