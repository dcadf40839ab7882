---------------------------- MODULE P2pHandshake ----------------------------
(***************************************************************************)
(* The four-message handshake of two P2P nodes (core/src/p2p/handshake.rs, *)
(* node.rs and transport.rs): the initiator dials, the responder accepts,  *)
(* frames travel in order over one TCP connection, either side may run     *)
(* into its timeout or lose the connection, and each that gets through     *)
(* leaves with a session secret and the identity of the other.             *)
(*                                                                         *)
(* An end that fails drops its stream, which closes its end: what it sent  *)
(* before still arrives.  Cut is the network's doing: what is under way is *)
(* lost, and an end learns of it only if it is told (no keep-alive is set).*)
(* A write to a connection that is gone may still be accepted by the local *)
(* kernel, or may fail.  Nothing in src/ sends P2pMsg::Error.              *)
(***************************************************************************)
EXTENDS PreKeyBundle, Sequences

CONSTANTS
    Conns,          \* connections the initiator dials
    Versions,       \* wire versions an initiator may speak
    MaxIdentity,    \* how often the responder's context draws a new identity
    Expectations    \* whom the initiator may expect: generations, or None

ASSUME BundleLifeAssumption == BundleLife \in Nat /\ MaxIdentity \in Nat

P2P_PROTOCOL_VERSION == 4

VARIABLES
    expected,   \* P2pConfig.expected_peer_identity of the initiator
    identity,   \* the identity the responder's context holds, as a generation
    now,        \* the clock bundles expire by
    ini,        \* initiator_handshake per connection, and what it returned
    res,        \* responder_handshake per connection, and what it returned
    toRes,      \* frames on their way to the responder
    toIni,      \* frames on their way to the initiator
    closed,     \* the ends of each connection whose stream was dropped
    cut         \* has the network dropped the connection?

node == <<expected, identity, now>>
tcp == <<toRes, toIni, closed, cut>>

Ed(gen) == <<"ed25519", gen>>           \* the responder's identity keys
Xk(gen) == <<"x25519", gen>>
AliceEd == <<"initiator", "ed25519">>   \* the initiator's
AliceX == <<"initiator", "x25519">>
Eph(side, c) == <<"ephemeral", side, c>>
SpkKey == <<"spk", "node">>
PqKey == <<"pq", "node">>

\* A ciphertext is not the empty Option.
ASSUME CiphertextAssumption == \A c \in Conns : Encaps(PqKey, Eph("ini", c)) # None

Started == [phase |-> "idle", id |-> None, peer |-> None, secret |-> None]

-----------------------------------------------------------------------------
(* P2pNode *)

\* P2pNode::new: one signed prekey and one signed bundle, without a one-time
\* prekey, for the node's lifetime, under the identity of that moment.
NodeBundle == NewBundle(Ed(0), SpkKey, Sign(Ed(0), SpkPayload(SpkKey)), None, 0, Ed(0),
                        Sign(Ed(0), DevicePayload(Ed(0), 0)), PqKey, 0)

\* The application gives the responder's context a new identity.  The node's
\* bundle stays.
GenerateIdentity ==
    /\ identity < MaxIdentity
    /\ identity' = identity + 1
    /\ UNCHANGED <<expected, now, ini, res, tcp>>

\* The node outlives its bundle.
Expire ==
    /\ now <= BundleLife
    /\ now' = BundleLife + 1
    /\ UNCHANGED <<expected, identity, ini, res, tcp>>

-----------------------------------------------------------------------------
(* The connection *)

\* Is the far end of connection c, seen from the other one, gone?
Gone(c, far) == cut[c] \/ far \in closed[c]

\* A write that the local kernel accepts.
Written(wire, c, far, frame) ==
    IF Gone(c, far) THEN wire ELSE [wire EXCEPT ![c] = Append(@, frame)]

Close(c, side) == closed' = [closed EXCEPT ![c] = @ \cup {side}]

Cut(c) ==
    /\ ini[c].phase \notin {"idle", "failed"} \/ res[c].phase \notin {"idle", "failed"}
    /\ ~cut[c]
    /\ cut' = [cut EXCEPT ![c] = TRUE]
    /\ toRes' = [toRes EXCEPT ![c] = <<>>]
    /\ toIni' = [toIni EXCEPT ![c] = <<>>]
    /\ UNCHANGED <<node, ini, res, closed>>

\* derive_handshake_key: both ephemeral keys, each side from its own half.
HandshakeKey(c) == Dh(Eph("ini", c), Eph("res", c))

\* build_transcript, the same on both sides if they saw the same keys.
Transcript(iniEd, c, resEd, bundle, dev, peerDev) ==
    <<iniEd, Eph("ini", c), resEd, bundle.signed_prekey, bundle.onetime_prekey, dev, peerDev>>

-----------------------------------------------------------------------------
(* The messages: what is under a key can be read by whoever has the key *)

Hello(v, c) == [type |-> "Hello", version |-> v, eph |-> Eph("ini", c), dev |-> "devI"]

Bundle(key, gen) == [type |-> "Bundle", key |-> key, ed |-> Ed(gen), x |-> Xk(gen),
                     dev |-> "devR", bundle |-> NodeBundle]

Envelope(key, ct) ==
    [type |-> "Envelope", key |-> key, ed |-> AliceEd, x |-> AliceX, dev |-> "devI", ct |-> ct]

Ok(key) == [type |-> "Ok", key |-> key]

-----------------------------------------------------------------------------
(* The initiator: P2pNode::connect and initiator_handshake *)

\* Mutant: the stream outlives the failure.
IniFail_KeepsStream(c) ==
    /\ ini' = [ini EXCEPT ![c].phase = "failed"]
    /\ UNCHANGED closed

\* connect returns an error and drops the stream.
IniFail(c) ==
    /\ ini' = [ini EXCEPT ![c].phase = "failed"]
    /\ Close(c, "ini")

\* The dial succeeds and Hello is sent.
Dial(c) ==
    /\ ini[c].phase = "idle"
    /\ \E v \in Versions : toRes' = [toRes EXCEPT ![c] = <<Hello(v, c)>>]
    /\ ini' = [ini EXCEPT ![c].phase = "hello"]
    /\ UNCHANGED <<node, res, toIni, closed, cut>>

\* connect_with_optional_proxy returns an error.
DialFails(c) ==
    /\ ini[c].phase = "idle"
    /\ IniFail(c)
    /\ UNCHANGED <<node, res, toRes, toIni, cut>>

BundleAccepted(m, c) ==
    /\ m.type = "Bundle"
    /\ m.key = HandshakeKey(c)
    /\ FromBytes(m.bundle) /\ Valid(m.bundle, now)
    /\ expected # None /\ m.ed = expected

\* The bundle is decrypted, validated and matched with the expected identity;
\* X3DH is run and the envelope sent.
RecvBundle(c) ==
    LET m == Head(toIni[c])
        ct == Encaps(m.bundle.pq_signed_prekey, Eph("ini", c))
        secret == X3dhInitiator(AliceX, Eph("ini", c), m.x, m.bundle.signed_prekey,
                                m.bundle.onetime_prekey, ct, "devI", m.dev,
                                Transcript(AliceEd, c, m.ed, m.bundle, "devI", m.dev))
    IN /\ ini[c].phase = "hello"
       /\ toIni[c] # <<>> /\ BundleAccepted(m, c)
       /\ toIni' = [toIni EXCEPT ![c] = Tail(@)]
       /\ toRes' = Written(toRes, c, "res", Envelope(HandshakeKey(c), ct))
       /\ ini' = [ini EXCEPT ![c].phase = "envelope", ![c].peer = m.ed, ![c].secret = secret]
       /\ UNCHANGED <<node, res, closed, cut>>

RefuseBundle(c) ==
    /\ ini[c].phase = "hello"
    /\ toIni[c] # <<>> /\ ~BundleAccepted(Head(toIni[c]), c)
    /\ IniFail(c)
    /\ UNCHANGED <<node, res, toRes, toIni, cut>>

RecvOk(c) ==
    /\ ini[c].phase = "envelope"
    /\ toIni[c] # <<>> /\ Head(toIni[c]).type = "Ok" /\ Head(toIni[c]).key = HandshakeKey(c)
    /\ toIni' = [toIni EXCEPT ![c] = Tail(@)]
    /\ ini' = [ini EXCEPT ![c].phase = "done"]
    /\ UNCHANGED <<node, res, toRes, closed, cut>>

\* The stream ends while a frame is awaited, or the envelope cannot be sent.
IniDisconnected(c) ==
    /\ ini[c].phase \in {"hello", "envelope"}
    /\ Gone(c, "res")
    /\ ini[c].phase = "envelope" => toIni[c] = <<>>
    /\ IniFail(c)
    /\ UNCHANGED <<node, res, toRes, toIni, cut>>

\* Mutant: only the wait for the last frame is timed.
IniTimeout_LastFrameOnly(c) ==
    /\ ini[c].phase = "envelope"
    /\ IniFail(c)
    /\ UNCHANGED <<node, res, toRes, toIni, cut>>

\* tokio::time::timeout around the whole handshake.
IniTimeout(c) ==
    /\ ini[c].phase \in {"hello", "envelope"}
    /\ IniFail(c)
    /\ UNCHANGED <<node, res, toRes, toIni, cut>>

-----------------------------------------------------------------------------
(* The responder: P2pNode::accept and responder_handshake *)

ResFail(c) ==
    /\ res' = [res EXCEPT ![c].phase = "failed"]
    /\ Close(c, "res")

\* The identity is read when the connection is accepted.
Accept(c) ==
    /\ res[c].phase = "idle" /\ ini[c].phase # "idle" /\ toRes[c] # <<>>
    /\ res' = [res EXCEPT ![c].phase = "listening", ![c].id = identity]
    /\ UNCHANGED <<node, ini, tcp>>

RecvHello(c) ==
    LET m == Head(toRes[c])
    IN /\ res[c].phase = "listening"
       /\ toRes[c] # <<>> /\ m.type = "Hello" /\ m.version = P2P_PROTOCOL_VERSION
       /\ toRes' = [toRes EXCEPT ![c] = Tail(@)]
       /\ toIni' = Written(toIni, c, "ini", Bundle(Dh(m.eph, Eph("res", c)), res[c].id))
       /\ res' = [res EXCEPT ![c].phase = "bundle"]
       /\ UNCHANGED <<node, ini, closed, cut>>

RefuseHello(c) ==
    /\ res[c].phase = "listening"
    /\ toRes[c] # <<>> /\ Head(toRes[c]).version # P2P_PROTOCOL_VERSION
    /\ ResFail(c)
    /\ UNCHANGED <<node, ini, toRes, toIni, cut>>

\* The envelope is decrypted, X3DH is run with the node's keys, Ok is sent and
\* the session built: the responder does not learn whether Ok arrives.
RecvEnvelope(c) ==
    LET m == Head(toRes[c])
        secret == X3dhResponder(Xk(res[c].id), SpkKey, None, m.x, Eph("ini", c), PqKey, m.ct,
                                "devR", "devI",
                                Transcript(m.ed, c, Ed(res[c].id), NodeBundle, "devI", "devR"))
    IN /\ res[c].phase = "bundle"
       /\ toRes[c] # <<>> /\ m.type = "Envelope" /\ m.key = HandshakeKey(c)
       /\ toRes' = [toRes EXCEPT ![c] = Tail(@)]
       /\ toIni' = Written(toIni, c, "ini", Ok(HandshakeKey(c)))
       /\ res' = [res EXCEPT ![c].phase = "done", ![c].peer = m.ed, ![c].secret = secret]
       /\ UNCHANGED <<node, ini, closed, cut>>

\* The stream ends while a frame is awaited, or the answer cannot be sent.
ResDisconnected(c) ==
    /\ res[c].phase \in {"listening", "bundle"}
    /\ Gone(c, "ini")
    /\ ResFail(c)
    /\ UNCHANGED <<node, ini, toRes, toIni, cut>>

ResTimeout(c) ==
    /\ res[c].phase \in {"listening", "bundle"}
    /\ ResFail(c)
    /\ UNCHANGED <<node, ini, toRes, toIni, cut>>

-----------------------------------------------------------------------------

HandshakeInit ==
    /\ expected \in {IF e = None THEN None ELSE Ed(e) : e \in Expectations}
    /\ identity = 0 /\ now = 0
    /\ ini = [c \in Conns |-> Started] /\ res = [c \in Conns |-> Started]
    /\ toRes = [c \in Conns |-> <<>>] /\ toIni = [c \in Conns |-> <<>>]
    /\ closed = [c \in Conns |-> {}] /\ cut = [c \in Conns |-> FALSE]

\* The steps of a handshake once it was dialled.
IniStep(c) == RecvBundle(c) \/ RefuseBundle(c) \/ RecvOk(c) \/ IniDisconnected(c) \/ IniTimeout(c)

ResStep(c) == \/ RecvHello(c) \/ RefuseHello(c) \/ RecvEnvelope(c)
              \/ ResDisconnected(c) \/ ResTimeout(c)

=============================================================================
