---------------------------- MODULE PreKeyBundle ----------------------------
(***************************************************************************)
(* Prekey bundles (PreKeyBundle in core/src/handshake/mod.rs), built with  *)
(* the default features (post-quantum keys included).  A signature is the  *)
(* pair of the signing key and what it covers; a payload is a tuple that   *)
(* starts with its kind.                                                   *)
(***************************************************************************)
EXTENDS Naturals, X3dh

CONSTANT BundleLife     \* how long a bundle is valid: 30 days

Sign(key, payload) == [by |-> key, over |-> payload]

Verify(key, payload, sig) == sig = Sign(key, payload)

\* What SignedPreKey::generate signs: the bytes of the public key alone.
SpkPayload(spk) == <<"spk", spk>>

DevicePayload(id, device) == <<"device", id, device>>

PqPayload(pq) == <<"pq", pq>>

\* PreKeyBundle::signing_bytes: every field but the bundle's own signature.
SigningBytes(b) ==
    <<"bundle", b.identity_key, b.signed_prekey, b.signature, b.onetime_prekey,
      b.expiration, b.device_id, b.root_identity_key, b.device_signature,
      b.pq_signed_prekey, b.pq_signature>>

\* PreKeyBundle::new, with_pq_prekey and sign_bundle at time `now`: signer is
\* the identity key pair that is used to sign.
NewBundle(signer, spk, sig, opk, device, root, deviceSig, pq, now) ==
    LET unsigned == [identity_key |-> signer, signed_prekey |-> spk, signature |-> sig,
                     onetime_prekey |-> opk, expiration |-> now + BundleLife,
                     device_id |-> device, root_identity_key |-> root,
                     device_signature |-> deviceSig, pq_signed_prekey |-> pq,
                     pq_signature |-> IF pq = None THEN None ELSE Sign(signer, PqPayload(pq)),
                     bundle_signature |-> None]
    IN [unsigned EXCEPT !.bundle_signature = Sign(signer, SigningBytes(unsigned))]

\* PreKeyBundle::from_bytes, on the bytes of a bundle: a build with
\* post-quantum keys refuses a bundle without one.
FromBytes(b) == b.pq_signed_prekey # None

\* PreKeyBundle::validate at time `now`.
Valid(b, now) ==
    /\ Verify(b.identity_key, SpkPayload(b.signed_prekey), b.signature)
    /\ Verify(b.identity_key, SigningBytes(b), b.bundle_signature)
    /\ Verify(b.root_identity_key, DevicePayload(b.identity_key, b.device_id),
              b.device_signature)
    /\ b.pq_signed_prekey # None =>
           Verify(b.identity_key, PqPayload(b.pq_signed_prekey), b.pq_signature)
    /\ now <= b.expiration

=============================================================================
