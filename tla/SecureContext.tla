--------------------------- MODULE SecureContext ----------------------------
(***************************************************************************)
(* The handshakes and messages of one context with one peer                *)
(* (SecureContext in core/src/lib.rs, HandshakeBuilder in                  *)
(* handshake/builder.rs), called from several threads over one KeyStore    *)
(* and one session table.  Every call locks the store and the table        *)
(* several times, and other calls run in between.  The peer re-registers:  *)
(* it has had more than one identity key.                                  *)
(*                                                                         *)
(* Left out: the rate limiter's refusals (RateLimiter) and the ratchet     *)
(* inside a session (DoubleRatchet).                                       *)
(***************************************************************************)
EXTENDS KeyStore

CONSTANTS
    Threads,        \* threads that call the context
    PeerKeys,       \* identity keys the peer has had
    Usages          \* what an application does: "signed" (identities, links and
                    \* signed prekeys), "onetime" (one-time prekeys), or "peer"
                    \* (handshakes and messages)

ASSUME PeerAssumption ==
    /\ None \notin PeerKeys
    /\ None \notin [key : PeerKeys \cup {None}, unpinned : BOOLEAN]
    /\ None \notin [key : PeerKeys, verified : BOOLEAN]

VARIABLES
    usage,      \* which of Usages this behaviour is under (never changes)
    strict,     \* Config::require_safety_numbers
    session,    \* the session in the table, or None
    call        \* where each thread's call is, and what its last one returned

peervars == <<usage, strict, session, call>>
vars == <<ksvars, peervars>>

PeerSpk == <<"spk", "peer">>

\* What perform_handshake expects to be signed.
SignedPayload(spk) == <<"SibnaSignedPreKey_v3", spk>>

\* What the peer's key store signs (SignedPreKey::generate).
BundleSignature(key) == Sign(key, SpkPayload(PeerSpk))

\* The signatures a caller may hand over: none, the one in the peer's bundle,
\* or one over the payload above.
Signatures(key) == {None, BundleSignature(key), Sign(key, SignedPayload(PeerSpk))}

\* A session is as good as its key; `unpinned` tells that the peer's pin was
\* removed since the handshake pinned the key (history).
Session(key, unpinned) == [key |-> key, unpinned |-> unpinned]

Idle(result, honest) ==
    [pc |-> "idle", key |-> None, session |-> None, unpinned |-> FALSE,
     result |-> result, honest |-> honest]

Verified == IF ks.pins = None THEN FALSE ELSE ks.pins.verified

NewPin(key) == [key |-> key, verified |-> FALSE]

OnlyPins(pins) ==
    /\ ks' = [ks EXCEPT !.pins = pins]
    /\ UNCHANGED <<disk, time, drawn, rotation, advertised, rolledBack, restored>>

-----------------------------------------------------------------------------
(* perform_handshake *)

\* Everything before the pin, in the order of the code: the strict-mode check,
\* the signature, then the builder and X3DH.  An initiator has no way to pass
\* on a post-quantum key, which strict mode requires, and a responder none to
\* pass on the initiator's ephemeral key.
Outcome(role, key, sig) ==
    IF strict /\ ~Verified THEN "VerificationRequired"
    ELSE IF role = "initiator" /\ sig = None THEN "HandshakeFailed"
    ELSE IF role = "initiator" /\ ~Verify(key, SignedPayload(PeerSpk), sig)
      THEN "InvalidSignature"
    ELSE IF ks.identity = None \/ (role = "responder" /\ ks.spk = None) THEN "KeyNotFound"
    ELSE IF role = "responder" THEN "InvalidState"
    ELSE IF strict THEN "HandshakeFailed" ELSE "Derived"

BeginHandshake(t, role, key, sig) ==
    LET outcome == Outcome(role, key, sig)
        honest == sig = BundleSignature(key)
    IN /\ call[t].pc = "idle"
       /\ call' = [call EXCEPT ![t] =
              IF outcome = "Derived" THEN [Idle(None, honest) EXCEPT !.pc = "pin", !.key = key]
                                     ELSE Idle(outcome, honest)]
       /\ UNCHANGED <<ksvars, usage, strict, session>>

\* Mutant: the newest key is pinned.
VerifyOrPin_Replaces(t) ==
    /\ call[t].pc = "pin"
    /\ OnlyPins(NewPin(call[t].key))
    /\ call' = [call EXCEPT ![t].pc = "insert"]
    /\ UNCHANGED <<usage, strict, session>>

\* verify_or_pin_peer_key: the first key is pinned, another one refused.
VerifyOrPin(t) ==
    /\ call[t].pc = "pin"
    /\ \/ /\ ks.pins = None
          /\ OnlyPins(NewPin(call[t].key))
          /\ call' = [call EXCEPT ![t].pc = "insert", ![t].unpinned = FALSE]
       \/ /\ ks.pins # None /\ ks.pins.key = call[t].key
          /\ call' = [call EXCEPT ![t].pc = "insert", ![t].unpinned = FALSE]
          /\ UNCHANGED ksvars
       \/ /\ ks.pins # None /\ ks.pins.key # call[t].key
          /\ call' = [call EXCEPT ![t] = Idle("KeyMismatch", @.honest)]
          /\ UNCHANGED ksvars
    /\ UNCHANGED <<usage, strict, session>>

\* The ratchet session is built and put into the table in place of another.
InsertSession(t) ==
    /\ call[t].pc = "insert"
    /\ session' = Session(call[t].key, call[t].unpinned)
    /\ call' = [call EXCEPT ![t] = Idle("Ok", @.honest)]
    /\ UNCHANGED <<ksvars, usage, strict>>

-----------------------------------------------------------------------------
(* create_session, encrypt_message, delete_session *)

\* create_session: one without keys, in place of another.
CreateSession(t) ==
    /\ call[t].pc = "idle"
    /\ strict => Verified
    /\ session' = Session(None, FALSE)
    /\ UNCHANGED <<ksvars, usage, strict, call>>

\* encrypt_message: the strict-mode check, then a handle on the session.
BeginEncrypt(t) ==
    /\ call[t].pc = "idle"
    /\ strict => Verified
    /\ session # None
    /\ call' = [call EXCEPT ![t] = [Idle(None, FALSE) EXCEPT !.pc = "encrypt", !.session = session]]
    /\ UNCHANGED <<ksvars, usage, strict, session>>

\* The session's own lock: it may be another's, or gone, in the table by now.
Encrypt(t) ==
    /\ call[t].pc = "encrypt"
    /\ call' = [call EXCEPT ![t] =
           Idle(IF call[t].session.key = None THEN "InvalidState" ELSE "Ok", FALSE)]
    /\ UNCHANGED <<ksvars, usage, strict, session>>

DeleteSession ==
    /\ session # None /\ session' = None
    /\ UNCHANGED <<ksvars, usage, strict, call>>

-----------------------------------------------------------------------------
(* Pins, by the application *)

\* pin_peer_key, through the public key store.
PinPeerKey(key) ==
    /\ ks.pins = None
    /\ OnlyPins(NewPin(key))
    /\ UNCHANGED peervars

\* verify_peer.
VerifyPeer ==
    /\ ks.pins # None /\ ~Verified
    /\ OnlyPins([ks.pins EXCEPT !.verified = TRUE])
    /\ UNCHANGED peervars

\* remove_peer_pin: sessions and calls go on with what they have.
RemovePeerPin ==
    LET Unpinned(s) == IF s = None THEN None ELSE [s EXCEPT !.unpinned = TRUE]
    IN /\ ks.pins # None
       /\ OnlyPins(None)
       /\ session' = Unpinned(session)
       /\ call' = [t \in Threads |-> [call[t] EXCEPT !.unpinned = (call[t].pc = "insert"),
                                                    !.session = Unpinned(call[t].session)]]
       /\ UNCHANGED <<usage, strict>>

-----------------------------------------------------------------------------

Init ==
    /\ KeyStoreInit
    /\ usage \in Usages /\ strict \in BOOLEAN
    /\ strict => usage = "peer"
    /\ ks = IF usage = "signed" THEN Empty ELSE Ready
    /\ session = None /\ call = [t \in Threads |-> Idle(None, FALSE)]

Handshake(t) ==
    \/ \E role \in {"initiator", "responder"}, key \in PeerKeys : \E sig \in Signatures(key) :
           BeginHandshake(t, role, key, sig)
    \/ VerifyOrPin(t) \/ InsertSession(t)

Next ==
    \/ usage = "signed" /\ (SignedStep \/ RotationStep \/ DiskStep) /\ UNCHANGED peervars
    \/ usage = "onetime" /\ (OnetimeStep \/ DiskStep) /\ UNCHANGED peervars
    \/ /\ usage = "peer"
       /\ \/ \E t \in Threads : Handshake(t) \/ CreateSession(t) \/ BeginEncrypt(t) \/ Encrypt(t)
          \/ DeleteSession \/ VerifyPeer \/ RemovePeerPin
          \/ \E key \in PeerKeys : PinPeerKey(key)

Spec == Init /\ [][Next]_vars

\* The rotation loop is a spawned task with a ticker.
FairSpec ==
    /\ Spec
    /\ WF_vars(usage = "signed" /\ RotationCheck /\ UNCHANGED peervars)
    /\ WF_vars(usage = "signed" /\ (Rotate \/ RotateFails) /\ UNCHANGED peervars)

-----------------------------------------------------------------------------
(* Properties *)

Handles == {session} \cup {call[t].session : t \in Threads}

\* A session with keys, in the table or in the hands of a call, is with the
\* identity key that is pinned for the peer, whichever calls raced to make it,
\* unless the application removed the pin after it was checked
\* (perform_handshake pins before it inserts, and locks in between).
SessionKeyIsPinned ==
    \A s \in Handles : (IF s = None THEN FALSE ELSE s.key # None /\ ~s.unpinned) =>
        ks.pins # None /\ ks.pins.key = s.key

\* A store with an identity does not stay without a signed prekey, nor with an
\* expired one, while the rotation loop runs, whatever restarts and other
\* operations come in between its check and its rotation (until the bound on
\* keys is met).
RotationRenews ==
    (/\ usage = "signed" /\ ks.identity # None
     /\ IF ks.spk = None THEN TRUE ELSE SpkExpired(ks.spk))
    ~> (\/ drawn.keys = MaxKeys \/ ks.identity = None
        \/ IF ks.spk = None THEN FALSE ELSE ~SpkExpired(ks.spk))

\* A handshake with the signature of the peer's own bundle is not refused for
\* that signature (what the comment on the signed payload promises).
HonestSignatureAccepted ==
    \A t \in Threads : call[t].honest => call[t].result # "InvalidSignature"

=============================================================================
