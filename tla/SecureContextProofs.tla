------------------------ MODULE SecureContextProofs -------------------------
(***************************************************************************)
(* Proofs about SecureContext for any number of threads and keys: a        *)
(* session is with the pinned key; an id of a one-time prekey names one    *)
(* key for ever, a published one keeps its secret until it is used, and a  *)
(* bundle passes PreKeyBundle::validate.  And about the padding that       *)
(* encrypt_message puts around a text: it comes off again.                 *)
(***************************************************************************)
EXTENDS SecureContext, Padding, FiniteSetTheorems, TLAPS

SessionT == [key : PeerKeys \cup {None}, unpinned : BOOLEAN]
PinT == [key : PeerKeys, verified : BOOLEAN]
CallT == [pc : {"idle", "pin", "insert", "encrypt"}, key : PeerKeys \cup {None},
          session : SessionT \cup {None}, unpinned : BOOLEAN,
          result : {None, "Ok", "KeyMismatch", "InvalidState", "VerificationRequired",
                    "HandshakeFailed", "InvalidSignature", "KeyNotFound"},
          honest : BOOLEAN]

\* What the handshakes and messages work on, where an application has peers.
PeerTypes ==
    /\ session \in SessionT \cup {None}
    /\ call \in [Threads -> CallT]
    /\ usage = "peer" => "pins" \in DOMAIN ks /\ ks.pins \in PinT \cup {None}

\* Where it has none there is no session.
NoPeers ==
    usage # "peer" => session = None /\ \A t \in Threads : call[t].session = None

\* s is with the pinned key, unless it has none or was unpinned.
Pinned(s) ==
    s # None /\ s.key # None /\ ~s.unpinned => ks.pins # None /\ ks.pins.key = s.key

\* A call that is about to insert its session holds the pinned key: it was
\* pinned, or compared with the pin, before the lock was given back.
Inserting(t) ==
    /\ call[t].pc \in {"pin", "insert"} => call[t].key \in PeerKeys
    /\ call[t].pc = "insert" /\ ~call[t].unpinned =>
           ks.pins # None /\ ks.pins.key = call[t].key

PinInv ==
    /\ PeerTypes /\ NoPeers
    /\ Pinned(session)
    /\ \A t \in Threads : Pinned(call[t].session)
    /\ usage = "peer" => \A t \in Threads : Inserting(t)

\* No session holds before the first call.
LEMMA PinInvInit == Init => PinInv
  <1> SUFFICES ASSUME Init PROVE PinInv
    OBVIOUS
  <1>1. Idle(None, FALSE) \in CallT
    BY PeerAssumption DEF Idle, CallT
  <1>2. call = [t \in Threads |-> Idle(None, FALSE)] /\ session = None
    BY DEF Init
  <1>3. \A t \in Threads : call[t].session = None /\ call[t].pc = "idle"
    BY <1>2 DEF Idle
  <1>4. usage = "peer" => "pins" \in DOMAIN ks /\ ks.pins = None
    BY DEF Init, Ready, Empty
  <1>5. PeerTypes
    BY <1>1, <1>2, <1>4, Zenon DEF PeerTypes
  <1>6. NoPeers
    BY <1>2, <1>3, Zenon DEF NoPeers
  <1>7. Pinned(session) /\ \A t \in Threads : Pinned(call[t].session)
    BY <1>2, <1>3, Zenon DEF Pinned
  <1>8. \A t \in Threads : Inserting(t)
    BY <1>3 DEF Inserting
  <1> QED
    BY <1>5, <1>6, <1>7, <1>8, Zenon DEF PinInv

\* What a new value of one call must meet for the invariant to go on, where the
\* store and the session stay.
LEMMA CallStep ==
    ASSUME PinInv, usage = "peer", NEW t \in Threads, NEW c \in CallT,
           call' = [call EXCEPT ![t] = c], UNCHANGED <<ks, usage, session>>,
           Pinned(c.session), c.pc \in {"pin", "insert"} => c.key \in PeerKeys,
           c.pc = "insert" /\ ~c.unpinned => ks.pins # None /\ ks.pins.key = c.key
    PROVE  PinInv'
  <1>1. PeerTypes'
    BY DEF PinInv, PeerTypes
  <1>2. NoPeers' /\ usage' = "peer"
    BY Zenon DEF NoPeers
  <1>3. Pinned(session)'
    BY DEF PinInv, Pinned
  <1>4. \A u \in Threads : call'[u] = IF u = t THEN c ELSE call[u]
    BY Zenon DEF PinInv, PeerTypes
  <1>5. ASSUME NEW u \in Threads PROVE Pinned(call[u].session)'
    <2>1. Pinned(call'[u].session)
      BY <1>4, <1>5, ZenonT(60) DEF PinInv
    <2> QED
      BY <2>1 DEF Pinned
  <1>6. ASSUME NEW u \in Threads PROVE Inserting(u)'
    BY <1>4, <1>6 DEF PinInv, Inserting
  <1> QED
    BY <1>1, <1>2, <1>3, <1>5, <1>6, Zenon DEF PinInv

\* What new pins must meet, where the calls and the session stay: a pin that is
\* there keeps its key.
LEMMA PinStep ==
    ASSUME PinInv, usage = "peer", NEW p \in PinT, OnlyPins(p),
           UNCHANGED <<usage, session, call>>,
           ks.pins # None => p.key = ks.pins.key
    PROVE  PinInv'
  <1>1. ks'.pins = p /\ "pins" \in DOMAIN ks' /\ p # None
    BY PeerAssumption, Zenon DEF PinInv, PeerTypes, OnlyPins, PinT
  <1>2. PeerTypes'
    BY <1>1 DEF PinInv, PeerTypes
  <1>3. NoPeers' /\ usage' = "peer"
    BY Zenon DEF NoPeers
  <1>4. Pinned(session)'
    BY <1>1, Zenon DEF PinInv, Pinned
  <1>5. ASSUME NEW u \in Threads PROVE Pinned(call[u].session)'
    <2>1. Pinned(call[u].session)
      BY Zenon DEF PinInv
    <2> QED
      BY <1>1, <2>1, Zenon DEF Pinned
  <1>6. ASSUME NEW u \in Threads PROVE Inserting(u)'
    <2>1. Inserting(u)
      BY DEF PinInv
    <2> QED
      BY <1>1, <2>1, Zenon DEF Inserting
  <1> QED
    BY <1>2, <1>3, <1>4, <1>5, <1>6, Zenon DEF PinInv

\* PinnedKey::new.
LEMMA NewPinIs ==
    ASSUME NEW k \in PeerKeys
    PROVE  NewPin(k) \in PinT /\ NewPin(k) # None /\ NewPin(k).key = k
  <1>1. NewPin(k) \in PinT /\ NewPin(k).key = k
    BY DEF NewPin, PinT
  <1>2. None \notin PinT
    BY PeerAssumption, Zenon DEF PinT
  <1> QED
    BY <1>1, <1>2, Zenon

\* A call that has ended holds nothing.
LEMMA IdleCall ==
    ASSUME NEW r \in {None, "Ok", "KeyMismatch", "InvalidState", "VerificationRequired",
                      "HandshakeFailed", "InvalidSignature", "KeyNotFound"},
           NEW h \in BOOLEAN
    PROVE  /\ Idle(r, h) \in CallT
           /\ Idle(r, h).session = None /\ Idle(r, h).pc = "idle" /\ Pinned(None)
  <1>1. Pinned(None)
    BY DEF Pinned
  <1> QED
    BY <1>1 DEF Idle, CallT

\* perform_handshake, up to the pin.
LEMMA BeginHandshakeStep ==
    ASSUME PinInv, usage = "peer", NEW t \in Threads, NEW role, NEW key \in PeerKeys, NEW sig,
           BeginHandshake(t, role, key, sig)
    PROVE  PinInv'
  <1> DEFINE o == Outcome(role, key, sig)
             h == (sig = BundleSignature(key))
  <1>1. h \in BOOLEAN
    OBVIOUS
  <1>2. o = "Derived" \/ o \in {"InvalidState", "VerificationRequired", "HandshakeFailed",
                               "InvalidSignature", "KeyNotFound"}
    BY DEF Outcome
  <1>3. /\ call' = [call EXCEPT ![t] =
               IF o = "Derived" THEN [Idle(None, h) EXCEPT !.pc = "pin", !.key = key]
                                ELSE Idle(o, h)]
        /\ UNCHANGED <<ks, usage, session>>
    BY DEF BeginHandshake, ksvars
  <1> HIDE DEF o, h
  <1>4. CASE o = "Derived"
    <2> DEFINE r == [Idle(None, h) EXCEPT !.pc = "pin", !.key = key]
    <2>1. PICK i \in CallT : i = Idle(None, h) /\ i.session = None /\ Pinned(None)
      BY <1>1, IdleCall, Zenon
    <2>2. r \in CallT /\ r.pc = "pin" /\ r.key = key /\ r.session = None
      BY <2>1, Zenon DEF CallT
    <2> HIDE DEF r
    <2>3. call' = [call EXCEPT ![t] = r]
      BY <1>3, <1>4, Zenon DEF r
    <2> QED
      BY <1>3, <2>1, <2>2, <2>3, CallStep, Zenon
  <1>5. CASE o # "Derived"
    <2>1. o \in {None, "Ok", "KeyMismatch", "InvalidState", "VerificationRequired",
                "HandshakeFailed", "InvalidSignature", "KeyNotFound"}
      BY <1>2, <1>5, Zenon
    <2>2. /\ Idle(o, h) \in CallT /\ Idle(o, h).session = None /\ Idle(o, h).pc = "idle"
          /\ Pinned(None)
      BY <1>1, <2>1, IdleCall, Zenon
    <2>3. call' = [call EXCEPT ![t] = Idle(o, h)]
      BY <1>3, <1>5, Zenon
    <2> QED
      BY <1>3, <2>2, <2>3, CallStep, Zenon
  <1> QED
    BY <1>4, <1>5, Zenon

\* verify_or_pin_peer_key: three outcomes under one lock.
LEMMA VerifyOrPinStep ==
    ASSUME PinInv, usage = "peer", NEW t \in Threads, VerifyOrPin(t)
    PROVE  PinInv'
  <1> DEFINE c == [call[t] EXCEPT !.pc = "insert", !.unpinned = FALSE]
  <1>1. call \in [Threads -> CallT] /\ call[t] \in CallT /\ call[t].pc = "pin"
    BY DEF PinInv, PeerTypes, VerifyOrPin
  <1>2. c \in CallT /\ c.pc = "insert" /\ c.key = call[t].key /\ c.session = call[t].session
    BY <1>1, Zenon DEF CallT
  <1>3. Pinned(call[t].session) /\ call[t].key \in PeerKeys
    BY <1>1, Zenon DEF PinInv, Inserting
  <1> HIDE DEF c
  <1>4. CASE ks.pins # None /\ ks.pins.key = call[t].key
    <2>1. call' = [call EXCEPT ![t] = c] /\ UNCHANGED <<ks, usage, session>>
      BY <1>1, <1>4, Zenon DEF VerifyOrPin, ksvars, c
    <2> QED
      BY <1>2, <1>3, <1>4, <2>1, CallStep, Zenon
  <1>5. CASE ks.pins # None /\ ks.pins.key # call[t].key
    <2>1. call[t].honest \in BOOLEAN
      BY <1>1, Zenon DEF CallT
    <2>2. call' = [call EXCEPT ![t] = Idle("KeyMismatch", call[t].honest)]
          /\ UNCHANGED <<ks, usage, session>>
      BY <1>5, Zenon DEF VerifyOrPin, ksvars
    <2>3. PICK i \in CallT : /\ i = Idle("KeyMismatch", call[t].honest)
                             /\ i.session = None /\ i.pc = "idle" /\ Pinned(None)
      BY <2>1, IdleCall, Zenon
    <2> QED
      BY <2>2, <2>3, CallStep, Zenon
  <1>6. CASE ks.pins = None
    <2>1. /\ call' = [call EXCEPT ![t] = c] /\ UNCHANGED <<usage, session>>
          /\ ks' = [ks EXCEPT !.pins = NewPin(call[t].key)]
      BY <1>1, <1>6, Zenon DEF VerifyOrPin, OnlyPins, c
    <2>2. /\ NewPin(call[t].key) \in PinT /\ NewPin(call[t].key) # None
          /\ NewPin(call[t].key).key = call[t].key
      BY <1>3, NewPinIs, Zenon
    <2>3. ks'.pins = NewPin(call[t].key) /\ "pins" \in DOMAIN ks'
      BY <2>1, Zenon DEF PinInv, PeerTypes
    <2>4. \A u \in Threads : call'[u] = IF u = t THEN c ELSE call[u]
      BY <1>1, <2>1, Zenon
    <2>5. PeerTypes'
      BY <1>1, <1>2, <2>1, <2>2, <2>3, ZenonT(60) DEF PinInv, PeerTypes
    <2>6. NoPeers' /\ usage' = "peer"
      BY <2>1, Zenon DEF NoPeers
    <2>7. Pinned(session)'
      BY <1>6, <2>1, ZenonT(60) DEF PinInv, Pinned
    <2>8. ASSUME NEW u \in Threads PROVE Pinned(call[u].session)'
      <3>1. Pinned(call[u].session) /\ call'[u].session = call[u].session
        BY <1>2, <2>4, Zenon DEF PinInv
      <3> QED
        BY <1>6, <3>1, ZenonT(60) DEF Pinned
    <2>9. ASSUME NEW u \in Threads PROVE Inserting(u)'
      <3>1. Inserting(u)
        BY ZenonT(60) DEF PinInv
      <3> QED
        BY <1>2, <1>3, <1>6, <2>2, <2>3, <2>4, <3>1, ZenonT(60) DEF Inserting
    <2> QED
      BY <2>5, <2>6, <2>7, <2>8, <2>9, ZenonT(60) DEF PinInv
  <1> QED
    BY <1>4, <1>5, <1>6, ZenonT(60)

\* The session goes into the table: the pin was checked before.
LEMMA InsertSessionStep ==
    ASSUME PinInv, usage = "peer", NEW t \in Threads, InsertSession(t)
    PROVE  PinInv'
  <1> DEFINE n == Session(call[t].key, call[t].unpinned)
             c == Idle("Ok", call[t].honest)
  <1>1. call \in [Threads -> CallT] /\ call[t] \in CallT /\ call[t].pc = "insert"
    BY Zenon DEF PinInv, PeerTypes, InsertSession
  <1>2. /\ n \in SessionT /\ n.key = call[t].key /\ n.unpinned = call[t].unpinned
    BY <1>1, Zenon DEF Session, SessionT, CallT
  <1>3. c \in CallT /\ c.pc = "idle" /\ c.session = None /\ Pinned(None)
    <2>1. call[t].honest \in BOOLEAN
      BY <1>1, Zenon DEF CallT
    <2> QED
      BY <2>1, IdleCall, Zenon
  <1>4. Pinned(n)
    BY <1>1, <1>2, ZenonT(60) DEF PinInv, Inserting, Pinned
  <1>5. session' = n /\ call' = [call EXCEPT ![t] = c] /\ UNCHANGED <<ks, usage>>
    BY Zenon DEF InsertSession, ksvars
  <1> HIDE DEF n, c
  <1>6. \A u \in Threads : call'[u] = IF u = t THEN c ELSE call[u]
    BY <1>1, <1>5, ZenonT(60)
  <1>7. PeerTypes'
    BY <1>1, <1>2, <1>3, <1>5, ZenonT(60) DEF PinInv, PeerTypes
  <1>8. NoPeers' /\ usage' = "peer"
    BY <1>5, Zenon DEF NoPeers
  <1>9. Pinned(session)'
    BY <1>4, <1>5, Zenon DEF Pinned
  <1>10. ASSUME NEW u \in Threads PROVE Pinned(call[u].session)'
    <2>1. Pinned(call'[u].session)
      BY <1>3, <1>6, Zenon DEF PinInv
    <2> QED
      BY <1>5, <2>1, Zenon DEF Pinned
  <1>11. ASSUME NEW u \in Threads PROVE Inserting(u)'
    <2>1. Inserting(u)
      BY Zenon DEF PinInv
    <2> QED
      BY <1>3, <1>5, <1>6, <2>1, ZenonT(60) DEF Inserting
  <1> QED
    BY <1>7, <1>8, <1>9, <1>10, <1>11, Zenon DEF PinInv

\* create_session and delete_session put in a session without keys, or none.
LEMMA TableStep ==
    ASSUME PinInv, usage = "peer", session' \in {Session(None, FALSE), None},
           UNCHANGED <<ks, usage, call>>
    PROVE  PinInv'
  <1>1. Session(None, FALSE) \in SessionT /\ Session(None, FALSE).key = None
    BY DEF Session, SessionT
  <1>2. PeerTypes'
    BY <1>1, Zenon DEF PinInv, PeerTypes
  <1>3. NoPeers' /\ usage' = "peer"
    BY DEF NoPeers
  <1>4. Pinned(session)'
    BY <1>1, Zenon DEF Pinned
  <1>5. ASSUME NEW u \in Threads PROVE Pinned(call[u].session)' /\ Inserting(u)'
    <2>1. Pinned(call[u].session) /\ Inserting(u)
      BY Zenon DEF PinInv
    <2> QED
      BY <2>1, Zenon DEF Pinned, Inserting
  <1> QED
    BY <1>2, <1>3, <1>4, <1>5, Zenon DEF PinInv

\* encrypt_message: a handle on the session that is in the table.
LEMMA EncryptStep ==
    ASSUME PinInv, usage = "peer", NEW t \in Threads, BeginEncrypt(t) \/ Encrypt(t)
    PROVE  PinInv'
  <1>1. session \in SessionT \cup {None} /\ Pinned(session)
    BY Zenon DEF PinInv, PeerTypes
  <1>2. CASE BeginEncrypt(t)
    <2> DEFINE c == [Idle(None, FALSE) EXCEPT !.pc = "encrypt", !.session = session]
    <2>1. PICK i \in CallT : i = Idle(None, FALSE)
      BY IdleCall, Zenon
    <2>2. c \in CallT /\ c.pc = "encrypt" /\ c.session = session
      BY <1>1, <2>1, Zenon DEF CallT
    <2> HIDE DEF c
    <2>3. call' = [call EXCEPT ![t] = c] /\ UNCHANGED <<ks, usage, session>>
      BY <1>2, Zenon DEF BeginEncrypt, ksvars, c
    <2> QED
      BY <1>1, <2>2, <2>3, CallStep, Zenon
  <1>3. CASE Encrypt(t)
    <2> DEFINE r == IF call[t].session.key = None THEN "InvalidState" ELSE "Ok"
    <2>1. call' = [call EXCEPT ![t] = Idle(r, FALSE)] /\ UNCHANGED <<ks, usage, session>>
      BY <1>3, Zenon DEF Encrypt, ksvars
    <2>2. r \in {None, "Ok", "KeyMismatch", "InvalidState", "VerificationRequired",
                "HandshakeFailed", "InvalidSignature", "KeyNotFound"}
      BY Zenon
    <2> HIDE DEF r
    <2> QED
      BY <2>1, <2>2, IdleCall, CallStep, ZenonT(60)
  <1> QED
    BY <1>2, <1>3, Zenon

\* remove_peer_pin: whatever was made with the pin is unpinned from here on.
LEMMA RemovePeerPinStep ==
    ASSUME PinInv, usage = "peer", RemovePeerPin
    PROVE  PinInv'
  <1> DEFINE Un(s) == IF s = None THEN None ELSE [s EXCEPT !.unpinned = TRUE]
             c(t) == [call[t] EXCEPT !.unpinned = (call[t].pc = "insert"),
                                     !.session = Un(call[t].session)]
  <1>1. /\ session' = Un(session) /\ call' = [t \in Threads |-> c(t)]
        /\ usage' = usage /\ ks' = [ks EXCEPT !.pins = None]
    BY Zenon DEF RemovePeerPin, OnlyPins
  <1>2. ASSUME NEW s \in SessionT \cup {None}
        PROVE  Un(s) \in SessionT \cup {None} /\ (Un(s) # None => Un(s).unpinned = TRUE)
    BY Zenon DEF SessionT
  <1>3. ASSUME NEW t \in Threads
        PROVE  /\ c(t) \in CallT /\ c(t).pc = call[t].pc /\ c(t).key = call[t].key
               /\ c(t).session = Un(call[t].session)
               /\ c(t).pc = "insert" => c(t).unpinned = TRUE
    <2> HIDE DEF Un
    <2>1. call[t] \in CallT /\ Un(call[t].session) \in SessionT \cup {None}
      BY <1>2, ZenonT(60) DEF PinInv, PeerTypes, CallT
    <2> QED
      BY <2>1, ZenonT(60) DEF CallT
  <1>4. ks'.pins = None /\ "pins" \in DOMAIN ks'
    BY <1>1, Zenon DEF PinInv, PeerTypes
  <1>5. ASSUME NEW t \in Threads PROVE call'[t] = c(t)
    BY <1>1, Zenon
  <1> HIDE DEF Un, c
  <1>6. PeerTypes'
    BY <1>1, <1>2, <1>3, <1>4, ZenonT(60) DEF PinInv, PeerTypes
  <1>7. NoPeers' /\ usage' = "peer"
    BY <1>1, ZenonT(60) DEF NoPeers
  <1>8. Pinned(session)'
    BY <1>1, <1>2, Zenon DEF PinInv, PeerTypes, Pinned
  <1>9. ASSUME NEW u \in Threads PROVE Pinned(call[u].session)'
    <2>1. call[u].session \in SessionT \cup {None}
      BY Zenon DEF PinInv, PeerTypes, CallT
    <2>2. call'[u].session = Un(call[u].session)
      BY <1>3, <1>5, Zenon
    <2> QED
      BY <1>2, <2>1, <2>2, ZenonT(60) DEF Pinned
  <1>10. ASSUME NEW u \in Threads PROVE Inserting(u)'
    <2>1. Inserting(u)
      BY DEF PinInv
    <2> QED
      BY <1>3, <1>5, <2>1, ZenonT(60) DEF Inserting
  <1> QED
    BY <1>6, <1>7, <1>8, <1>9, <1>10, ZenonT(60) DEF PinInv

\* The application's own pins and verify_peer.
LEMMA AppPinStep ==
    ASSUME PinInv, usage = "peer", VerifyPeer \/ \E key \in PeerKeys : PinPeerKey(key)
    PROVE  PinInv'
  <1>1. CASE VerifyPeer
    <2> DEFINE p == [ks.pins EXCEPT !.verified = TRUE]
    <2>1. p \in PinT /\ p.key = ks.pins.key
      BY <1>1, Zenon DEF PinInv, PeerTypes, VerifyPeer, PinT
    <2>2. OnlyPins(p) /\ UNCHANGED <<usage, session, call>>
      BY <1>1, Zenon DEF VerifyPeer, peervars
    <2> HIDE DEF p
    <2> QED
      BY <2>1, <2>2, PinStep, ZenonT(60)
  <1>2. ASSUME NEW key \in PeerKeys, PinPeerKey(key) PROVE PinInv'
    <2>1. ks.pins = None /\ OnlyPins(NewPin(key)) /\ UNCHANGED <<usage, session, call>>
      BY <1>2, Zenon DEF PinPeerKey, peervars
    <2> QED
      BY <2>1, NewPinIs, PinStep, Zenon
  <1> QED
    BY <1>1, <1>2, Zenon

\* Every step keeps the invariant.
LEMMA PinInvNext == PinInv /\ [Next]_vars => PinInv'
  <1> SUFFICES ASSUME PinInv, [Next]_vars PROVE PinInv'
    OBVIOUS
  <1>1. CASE UNCHANGED <<ks, peervars>>
    <2>1. UNCHANGED <<ks, usage, session, call>>
      BY <1>1, Zenon DEF peervars
    <2>2. PeerTypes' /\ NoPeers' /\ Pinned(session)'
      BY <2>1, Zenon DEF PinInv, PeerTypes, NoPeers, Pinned
    <2>3. ASSUME NEW u \in Threads
          PROVE Pinned(call[u].session)' /\ (usage' = "peer" => Inserting(u)')
      <3>1. Pinned(call[u].session) /\ (usage = "peer" => Inserting(u))
        BY DEF PinInv
      <3> QED
        BY <2>1, <3>1, Zenon DEF Pinned, Inserting
    <2> QED
      BY <2>2, <2>3, Zenon DEF PinInv
  <1>2. CASE usage # "peer" /\ UNCHANGED peervars
    <2>1. UNCHANGED <<usage, session, call>>
      BY <1>2, Zenon DEF peervars
    <2>2. session = None /\ \A u \in Threads : call[u].session = None
      BY <1>2, Zenon DEF PinInv, NoPeers
    <2>3. PeerTypes' /\ NoPeers' /\ Pinned(session)'
      BY <1>2, <2>1, <2>2, Zenon DEF PinInv, PeerTypes, NoPeers, Pinned
    <2>4. ASSUME NEW u \in Threads PROVE Pinned(call[u].session)'
      BY <2>1, <2>2, Zenon DEF Pinned
    <2> QED
      BY <1>2, <2>1, <2>3, <2>4, Zenon DEF PinInv
  <1>3. CASE /\ usage = "peer"
             /\ \/ \E t \in Threads : Handshake(t) \/ CreateSession(t) \/ BeginEncrypt(t) \/ Encrypt(t)
                \/ DeleteSession \/ VerifyPeer \/ RemovePeerPin
                \/ \E key \in PeerKeys : PinPeerKey(key)
    <2>1. ASSUME NEW t \in Threads, Handshake(t) PROVE PinInv'
      BY <1>3, <2>1, BeginHandshakeStep, VerifyOrPinStep, InsertSessionStep, ZenonT(60) DEF Handshake
    <2>2. ASSUME NEW t \in Threads, CreateSession(t) PROVE PinInv'
      BY <1>3, <2>2, TableStep, Zenon DEF CreateSession, ksvars
    <2>3. ASSUME NEW t \in Threads, BeginEncrypt(t) \/ Encrypt(t) PROVE PinInv'
      BY <1>3, <2>3, EncryptStep, Zenon
    <2>4. CASE DeleteSession
      BY <1>3, <2>4, TableStep, Zenon DEF DeleteSession, ksvars
    <2>5. CASE RemovePeerPin
      BY <1>3, <2>5, RemovePeerPinStep, Zenon
    <2>6. CASE VerifyPeer \/ \E key \in PeerKeys : PinPeerKey(key)
      BY <1>3, <2>6, AppPinStep, Zenon
    <2> QED
      BY <1>3, <2>1, <2>2, <2>3, <2>4, <2>5, <2>6, ZenonT(60)
  <1>4. UNCHANGED vars => UNCHANGED <<ks, peervars>>
    BY DEF vars, ksvars
  <1> QED
    BY <1>1, <1>2, <1>3, <1>4, ZenonT(60) DEF Next

\* A session with keys is with the pinned key, for any number of threads that
\* call perform_handshake, create_session, encrypt_message and delete_session,
\* and any keys the peer has had, unless the application removed the pin since.
THEOREM PinsHold == Spec => []SessionKeyIsPinned
  <1>1. PinInv => SessionKeyIsPinned
    <2> SUFFICES ASSUME PinInv, NEW s \in Handles,
                        s # None, s.key # None, ~s.unpinned
                 PROVE  ks.pins # None /\ ks.pins.key = s.key
      BY DEF SessionKeyIsPinned
    <2>1. Pinned(s)
      BY Zenon DEF PinInv, Handles
    <2> QED
      BY <2>1, Zenon DEF Pinned
  <1> QED
    BY <1>1, PinInvInit, PinInvNext, PTL DEF Spec


-----------------------------------------------------------------------------
(* One-time prekeys and bundles *)

OpkT == [key : Nat, secret : BOOLEAN, used : BOOLEAN, born : Nat]

DrawnT == [ids : Nat, keys : Nat, loads : Nat]

\* A store, in memory or as an image: ids below the next one, and signatures
\* over what they ought to cover.
IsStore(s) ==
    /\ DOMAIN s = {"identity", "link", "spk", "opks", "next", "pins"}
    /\ s.next \in Nat \ {0}
    /\ DOMAIN s.opks \subseteq 1 .. (s.next - 1)
    /\ \A id \in DOMAIN s.opks : s.opks[id] \in OpkT
    /\ s.spk # None =>
           /\ s.spk.key \in 0 .. MaxKeys
           /\ s.spk.sig = Sign(s.spk.sig.by, SpkPayload(Spk(s.spk.key)))
    /\ s.link # None => s.link.sig = Sign(s.link.root, s.link.sig.over)

\* The store's own state and that of its image.
StoreInv ==
    /\ IsStore(ks)
    /\ disk # None => IsStore(disk)
    /\ drawn \in DrawnT
    /\ time \in Nat

\* A key without its secret is marked as used or came out of an image.
SecretInv ==
    \A id \in DOMAIN ks.opks :
        ks.opks[id].used \/ ks.opks[id].secret \/ ks.opks[id].key \in restored

\* The store has the advertised key under the advertised id.
Agrees(s) == \A a \in advertised : a[1] \in DOMAIN s.opks => s.opks[a[1]].key = a[2]

\* The two stores have the same key under an id that both have.
SameKeys(s, t) ==
    \A id \in DOMAIN s.opks : id \in DOMAIN t.opks => s.opks[id].key = t.opks[id].key

\* Until an older image is loaded, ids that were given out are below the next
\* one and are not used for another key.
IdInv ==
    /\ disk # None => disk.next <= ks.next /\ Agrees(disk) /\ SameKeys(disk, ks)
    /\ \A a \in advertised : a[1] \in 1 .. (ks.next - 1)
    /\ \A a \in advertised, b \in advertised : a[1] = b[1] => a[2] = b[2]
    /\ Agrees(ks)

KeyInv == StoreInv /\ SecretInv /\ (rolledBack \/ IdInv)

\* A store starts without one-time prekeys.
LEMMA KeyInit == Init => KeyInv
  <1> SUFFICES ASSUME Init PROVE KeyInv
    BY Zenon
  <1>1. /\ disk = None /\ time = 0 /\ drawn = [ids |-> 0, keys |-> 0, loads |-> 0]
        /\ advertised = {} /\ rolledBack = FALSE /\ restored = {}
        /\ ks = Empty \/ ks = Ready
    BY Zenon DEF Init, KeyStoreInit
  <1>2. DOMAIN Empty = {"identity", "link", "spk", "opks", "next", "pins"}
    BY DEF Empty
  <1>3. DOMAIN Ready = {"identity", "link", "spk", "opks", "next", "pins"}
    BY Zenon DEF Ready, Empty
  <1>4. Empty.opks = <<>> /\ Empty.next = 1 /\ Empty.spk = None /\ Empty.link = None
    BY Zenon DEF Empty
  <1>5. /\ Ready.opks = <<>> /\ Ready.next = 1 /\ Ready.link = None
        /\ Ready.spk = [key |-> 0, born |-> 0, sig |-> Sign(Identity(0), SpkPayload(Spk(0)))]
    BY DEF Ready, Empty
  <1>6. DOMAIN <<>> = {}
    OBVIOUS
  <1>7. IsStore(Empty)
    BY <1>2, <1>4, <1>6 DEF IsStore
  <1>8. IsStore(Ready)
    <2>1. 0 \in 0 .. MaxKeys
      BY KeyStoreAssumption
    <2>2. /\ Ready.spk.key = 0
          /\ Ready.spk.sig = Sign(Ready.spk.sig.by, SpkPayload(Spk(Ready.spk.key)))
      BY <1>5 DEF Sign
    <2> QED
      BY <1>3, <1>5, <1>6, <2>1, <2>2 DEF IsStore
  <1>9. IsStore(ks) /\ DOMAIN ks.opks = {}
    BY <1>1, <1>4, <1>5, <1>6, <1>7, <1>8, Zenon
  <1>10. drawn \in DrawnT
    BY <1>1 DEF DrawnT
  <1> QED
    BY <1>1, <1>9, <1>10, Zenon DEF KeyInv, StoreInv, SecretInv, IdInv, Agrees

\* A one-time prekey after a step is one from before, used perhaps, or a new one
\* with a new id.
Carried(id) ==
    /\ id \in DOMAIN ks.opks
    /\ ks'.opks[id].key = ks.opks[id].key
    /\ \/ ks'.opks[id].used
       \/ ks'.opks[id].secret = ks.opks[id].secret /\ ks'.opks[id].used = ks.opks[id].used

New(id) == id \in Nat /\ id >= ks.next /\ ks'.opks[id].secret

\* An operation on the store in memory keeps the invariant.
LEMMA StoreStep ==
    ASSUME KeyInv, IsStore(ks'), UNCHANGED <<disk, advertised, rolledBack, restored>>,
           drawn' \in DrawnT, time' \in Nat, ks'.next >= ks.next,
           \A id \in DOMAIN ks'.opks : Carried(id) \/ New(id)
    PROVE  KeyInv'
  <1>0. /\ ks.next \in Nat /\ ks'.next \in Nat
        /\ DOMAIN ks.opks \subseteq 1 .. (ks.next - 1)
        /\ disk # None => disk.next \in Nat /\ DOMAIN disk.opks \subseteq 1 .. (disk.next - 1)
    BY DEF KeyInv, StoreInv, IsStore
  <1>1. StoreInv'
    BY Zenon DEF KeyInv, StoreInv
  <1>2. SecretInv'
    BY DEF KeyInv, SecretInv, Carried, New
  <1>3. ASSUME IdInv PROVE IdInv'
    <2>1. \A a \in advertised : a[1] \in 1 .. (ks'.next - 1) /\ a[1] < ks.next
      BY <1>0, <1>3 DEF IdInv
    <2>2. Agrees(ks)'
      <3> SUFFICES ASSUME NEW a \in advertised, a[1] \in DOMAIN ks'.opks
                   PROVE  ks'.opks[a[1]].key = a[2]
        BY Zenon DEF Agrees
      <3>1. Carried(a[1])
        BY <1>0, <2>1 DEF New
      <3> QED
        BY <1>3, <3>1, Zenon DEF IdInv, Agrees, Carried
    <2>3. ASSUME disk # None
          PROVE  disk.next <= ks'.next /\ Agrees(disk)' /\ SameKeys(disk, ks)'
      <3>1. disk.next <= ks.next /\ Agrees(disk) /\ SameKeys(disk, ks)
        BY <1>3, <2>3, Zenon DEF IdInv
      <3>2. SameKeys(disk, ks)'
        <4> SUFFICES ASSUME NEW id \in DOMAIN disk.opks, id \in DOMAIN ks'.opks
                     PROVE  disk.opks[id].key = ks'.opks[id].key
          BY Zenon DEF SameKeys
        <4>1. id \in Nat /\ id < ks.next
          BY <1>0, <2>3, <3>1
        <4>2. Carried(id)
          BY <1>0, <4>1 DEF New
        <4> QED
          BY <3>1, <4>2, Zenon DEF SameKeys, Carried
      <3>3. Agrees(disk)'
        BY <3>1, Zenon DEF Agrees
      <3> QED
        BY <1>0, <2>3, <3>1, <3>2, <3>3
    <2> QED
      BY <1>3, <2>1, <2>2, <2>3, ZenonT(60) DEF IdInv
  <1> QED
    BY <1>1, <1>2, <1>3, ZenonT(60) DEF KeyInv

\* An operation that leaves the one-time prekeys alone keeps the invariant.
LEMMA SameOpksStep ==
    ASSUME KeyInv, IsStore(ks'), UNCHANGED <<disk, advertised, rolledBack, restored>>,
           drawn' \in DrawnT, time' \in Nat,
           ks'.next = ks.next, ks'.opks = ks.opks
    PROVE  KeyInv'
  <1>1. \A id \in DOMAIN ks'.opks : Carried(id)
    BY ZenonT(60) DEF Carried
  <1>2. ks'.next >= ks.next
    BY DEF KeyInv, StoreInv, IsStore
  <1> QED
    BY <1>1, <1>2, StoreStep, Zenon

\* set_identity, load_identity, set_device_link and the prekeys signed with the
\* identity.
LEMMA SignedKeep ==
    ASSUME KeyInv,
           \/ GenerateIdentity \/ SetDeviceLink \/ AppSignedPrekey \/ Rotate
           \/ \E n \in 1..MaxIdentities : LoadIdentity(n)
    PROVE  KeyInv'
  <1>0. IsStore(ks) /\ drawn \in DrawnT /\ time \in Nat
    BY DEF KeyInv, StoreInv
  <1>1. CASE GenerateIdentity \/ \E n \in 1..MaxIdentities : LoadIdentity(n)
    <2>1. PICK v : ks' = [ks EXCEPT !.identity = v]
      BY <1>1 DEF GenerateIdentity, LoadIdentity
    <2>2. IsStore(ks') /\ ks'.next = ks.next /\ ks'.opks = ks.opks
      BY <1>0, <2>1, Zenon DEF IsStore
    <2>3. drawn' \in DrawnT
      BY <1>0, <1>1 DEF GenerateIdentity, LoadIdentity, DrawnT
    <2>4. UNCHANGED <<disk, time, advertised, rolledBack, restored>>
      BY <1>1 DEF GenerateIdentity, LoadIdentity
    <2> QED
      BY <1>0, <2>2, <2>3, <2>4, SameOpksStep, ZenonT(60)
  <1>2. CASE SetDeviceLink
    <2> DEFINE l == [device |-> 1, root |-> Root,
                     sig |-> Sign(Root, DevicePayload(ks.identity, 1))]
    <2>1. ks' = [ks EXCEPT !.link = l]
          /\ UNCHANGED <<disk, time, drawn, advertised, rolledBack, restored>>
      BY <1>2, Zenon DEF SetDeviceLink
    <2>2. l.sig = Sign(l.root, l.sig.over)
      BY DEF Sign
    <2> HIDE DEF l
    <2>3. IsStore(ks') /\ ks'.next = ks.next /\ ks'.opks = ks.opks
      BY <1>0, <2>1, <2>2, ZenonT(60) DEF IsStore
    <2> QED
      BY <1>0, <2>1, <2>3, SameOpksStep, ZenonT(60)
  <1>3. CASE AppSignedPrekey \/ Rotate
    <2> DEFINE n == drawn.keys + 1
               p == NewSpk(n)
    <2>1. /\ ks' = [ks EXCEPT !.spk = p]
          /\ drawn.keys < MaxKeys
          /\ drawn' = [drawn EXCEPT !.keys = n]
          /\ UNCHANGED <<disk, time, advertised, rolledBack, restored>>
      BY <1>3, ZenonT(60) DEF AppSignedPrekey, Rotate, GenerateSignedPrekey
    <2>2. n \in 0 .. MaxKeys /\ n \in Nat
      BY <1>0, <2>1, KeyStoreAssumption DEF DrawnT
    <2>3. drawn' \in DrawnT
      <3> HIDE DEF n
      <3> QED
        BY <1>0, <2>1, <2>2, ZenonT(60) DEF DrawnT
    <2>4. p.key \in 0 .. MaxKeys /\ p.sig = Sign(p.sig.by, SpkPayload(Spk(p.key)))
      <3> HIDE DEF n
      <3> QED
        BY <2>2 DEF NewSpk, Sign
    <2> HIDE DEF p
    <2>5. IsStore(ks') /\ ks'.next = ks.next /\ ks'.opks = ks.opks
      BY <1>0, <2>1, <2>4, Zenon DEF IsStore
    <2> QED
      BY <1>0, <2>1, <2>3, <2>5, SameOpksStep, ZenonT(60)
  <1> QED
    BY <1>1, <1>2, <1>3, Zenon

\* generate_onetime_prekeys takes ids that were never given out.
LEMMA GenerateKeep ==
    ASSUME KeyInv, NEW n \in Nat, GenerateOnetimePrekeys(n)
    PROVE  KeyInv'
  <1>0. /\ IsStore(ks) /\ drawn \in DrawnT /\ time \in Nat
        /\ ks.next \in Nat /\ drawn.keys \in Nat
    BY DEF KeyInv, StoreInv, IsStore, DrawnT
  <1> DEFINE new == ks.next .. (ks.next + n - 1)
             opks == [id \in new \cup DOMAIN ks.opks |->
                         IF id \in new THEN NewOpk(drawn.keys + id - ks.next + 1)
                                       ELSE ks.opks[id]]
  <1>1. /\ ks' = [ks EXCEPT !.next = ks.next + n, !.opks = opks]
        /\ drawn' = [drawn EXCEPT !.keys = drawn.keys + n]
        /\ UNCHANGED <<disk, time, advertised, rolledBack, restored>>
    BY Zenon DEF GenerateOnetimePrekeys
  <1>2. \A id \in new : opks[id] \in OpkT /\ opks[id].secret
    <2> SUFFICES ASSUME NEW id \in new PROVE opks[id] \in OpkT /\ opks[id].secret
      BY Zenon
    <2>1. PICK k \in Nat : k = drawn.keys + id - ks.next + 1
      BY <1>0
    <2>2. opks[id] = NewOpk(k)
      BY <2>1
    <2>3. NewOpk(k) \in OpkT /\ NewOpk(k).secret
      BY <1>0, Zenon DEF NewOpk, OpkT
    <2> QED
      BY <2>2, <2>3, Zenon
  <1>3. \A id \in DOMAIN ks.opks : id \notin new /\ opks[id] = ks.opks[id]
    BY <1>0 DEF IsStore
  <1>4. DOMAIN opks = new \cup DOMAIN ks.opks
    OBVIOUS
  <1>5. /\ new \subseteq Nat
        /\ \A id \in new : id >= ks.next
        /\ 1 .. (ks.next - 1) \subseteq 1 .. (ks.next + n - 1)
        /\ new \subseteq 1 .. (ks.next + n - 1)
        /\ ks.next + n \in Nat /\ ks.next + n >= ks.next
    <2>1. ks.next >= 1
      BY <1>0 DEF IsStore
    <2> QED
      BY <1>0, <2>1
  <1> HIDE DEF new, opks
  <1>6. ks'.next = ks.next + n /\ ks'.opks = opks
    BY <1>0, <1>1, Zenon DEF IsStore
  <1>7. IsStore(ks')
    <2>1. DOMAIN opks \subseteq 1 .. (ks'.next - 1)
      <3>1. DOMAIN ks.opks \subseteq 1 .. (ks.next - 1)
        BY <1>0 DEF IsStore
      <3>2. DOMAIN opks \subseteq 1 .. (ks.next + n - 1)
        BY <1>4, <1>5, <3>1, ZenonT(60)
      <3>3. ks'.next - 1 = ks.next + n - 1
        BY <1>0, <1>6
      <3> QED
        BY <3>2, <3>3, Zenon
    <2>2. \A id \in DOMAIN opks : opks[id] \in OpkT
      BY <1>0, <1>2, <1>3, <1>4, ZenonT(60) DEF IsStore
    <2>3. ks.next + n \in Nat \ {0}
      BY <1>0, <1>5 DEF IsStore
    <2>4. /\ DOMAIN ks' = DOMAIN ks
          /\ ks'.spk = ks.spk /\ ks'.link = ks.link
      BY <1>0, <1>1, Zenon DEF IsStore
    <2> QED
      BY <1>0, <1>6, <2>1, <2>2, <2>3, <2>4, ZenonT(60) DEF IsStore
  <1>8. \A id \in DOMAIN ks'.opks : Carried(id) \/ New(id)
    BY <1>2, <1>3, <1>4, <1>5, <1>6, Zenon DEF Carried, New
  <1>9. drawn' \in DrawnT
    <2>1. PICK k \in Nat : k = drawn.keys + n
      BY <1>0
    <2> QED
      BY <1>0, <1>1, <2>1, ZenonT(60) DEF DrawnT
  <1> QED
    BY <1>0, <1>1, <1>5, <1>6, <1>7, <1>8, <1>9, StoreStep, ZenonT(60)

\* replenish_onetime_prekeys counts the usable ones, of which there are finitely
\* many.
LEMMA ReplenishKeep ==
    ASSUME KeyInv, NEW threshold \in Nat, NEW target \in Nat, Replenish(threshold, target)
    PROVE  KeyInv'
  <1>1. IsFiniteSet(UsableIds)
    <2>1. ks.next - 1 \in Int /\ UsableIds \in SUBSET (1 .. (ks.next - 1))
      BY DEF KeyInv, StoreInv, IsStore, UsableIds
    <2>2. IsFiniteSet(1 .. (ks.next - 1))
      BY <2>1, FS_Interval
    <2> QED
      BY <2>1, <2>2, FS_Subset, ZenonT(60)
  <1>2. Cardinality(UsableIds) \in Nat
    BY <1>1, FS_CardinalityType, ZenonT(60)
  <1>3. PICK n \in Nat : n = target - Cardinality(UsableIds)
    BY <1>2 DEF Replenish
  <1>4. GenerateOnetimePrekeys(n)
    BY <1>3 DEF Replenish
  <1> QED
    BY <1>4, GenerateKeep

\* mark_onetime_used and prune_keys leave what is left as it was.
LEMMA UseKeep ==
    ASSUME KeyInv, PruneKeys \/ \E id \in 1..MaxKeys : MarkOnetimeUsed(id)
    PROVE  KeyInv'
  <1>0. IsStore(ks) /\ drawn \in DrawnT /\ time \in Nat /\ ks.next \in Nat
    BY Zenon DEF KeyInv, StoreInv, IsStore
  <1>1. CASE PruneKeys
    <2>1. PICK p : /\ ks' = [ks EXCEPT !.opks = [id \in UsableIds |-> ks.opks[id]], !.spk = p]
                   /\ p = None \/ p = ks.spk
      BY <1>1, Zenon DEF PruneKeys
    <2>2. UNCHANGED <<disk, time, drawn, advertised, rolledBack, restored>>
      BY <1>1, Zenon DEF PruneKeys
    <2> DEFINE opks == [id \in UsableIds |-> ks.opks[id]]
    <2>3. /\ DOMAIN opks \subseteq DOMAIN ks.opks
          /\ \A id \in DOMAIN opks : opks[id] = ks.opks[id]
      BY DEF UsableIds
    <2> HIDE DEF opks
    <2>4. /\ ks'.opks = opks /\ ks'.spk = p
          /\ ks'.next = ks.next /\ ks'.link = ks.link
          /\ DOMAIN ks' = DOMAIN ks
      BY <1>0, <2>1, Zenon DEF IsStore, opks
    <2>5. IsStore(ks')
      BY <1>0, <2>1, <2>3, <2>4, ZenonT(60) DEF IsStore
    <2>6. \A id \in DOMAIN ks'.opks : Carried(id)
      BY <2>3, <2>4, Zenon DEF Carried
    <2>7. ks'.next >= ks.next
      BY <1>0, <2>4
    <2> QED
      BY <1>0, <2>2, <2>5, <2>6, <2>7, StoreStep, ZenonT(60)
  <1>2. ASSUME NEW id \in 1..MaxKeys, MarkOnetimeUsed(id) PROVE KeyInv'
    <2>1. /\ id \in DOMAIN ks.opks
          /\ UNCHANGED <<disk, time, drawn, advertised, rolledBack, restored>>
      BY <1>2, Zenon DEF MarkOnetimeUsed
    <2>2. ks.opks[id] \in OpkT
      BY <1>0, <2>1, Zenon DEF IsStore
    <2>3. ks' = [ks EXCEPT !.opks[id].used = TRUE, !.opks[id].secret = FALSE]
      BY <1>2, Zenon DEF MarkOnetimeUsed
    <2>4. /\ ks'.spk = ks.spk /\ ks'.next = ks.next /\ ks'.link = ks.link
          /\ DOMAIN ks' = DOMAIN ks /\ DOMAIN ks'.opks = DOMAIN ks.opks
      BY <1>0, <2>3 DEF IsStore
    <2>5. /\ ks'.opks[id] \in OpkT
          /\ ks'.opks[id].used /\ ks'.opks[id].key = ks.opks[id].key
      BY <1>0, <2>1, <2>2, <2>3, Zenon DEF IsStore, OpkT
    <2>6. \A i \in DOMAIN ks.opks : i # id => ks'.opks[i] = ks.opks[i]
      BY <1>0, <2>1, <2>3, ZenonT(60) DEF IsStore
    <2>7. \A i \in DOMAIN ks'.opks : ks'.opks[i] \in OpkT
      BY <1>0, <2>4, <2>5, <2>6, ZenonT(60) DEF IsStore
    <2>8. IsStore(ks')
      BY <1>0, <2>4, <2>7, ZenonT(60) DEF IsStore
    <2>9. \A i \in DOMAIN ks'.opks : Carried(i)
      BY <2>4, <2>5, <2>6, Zenon DEF Carried
    <2>10. ks'.next >= ks.next
      BY <1>0, <2>4
    <2> QED
      BY <1>0, <2>1, <2>8, <2>9, <2>10, StoreStep, ZenonT(60)
  <1> QED
    BY <1>1, <1>2, Zenon

\* A bundle advertises the key that the store has under the id.
LEMMA BundleKeep ==
    ASSUME KeyInv, GeneratePrekeyBundle
    PROVE  KeyInv'
  <1>0. UNCHANGED <<ks, disk, time, drawn, rolledBack, restored>>
    BY Zenon DEF GeneratePrekeyBundle
  <1>1. PICK id \in Offered \ {None} :
            advertised' = advertised \cup {<<id, BundleOf(id).onetime_prekey>>}
    BY DEF GeneratePrekeyBundle
  <1>2. id \in DOMAIN ks.opks
    BY <1>1 DEF Offered, UsableIds
  <1>3. BundleOf(id).onetime_prekey = ks.opks[id].key
    BY <1>1, Zenon DEF BundleOf, NewBundle
  <1> DEFINE a == <<id, ks.opks[id].key>>
  <1>4. advertised' = advertised \cup {a} /\ a[1] = id /\ a[2] = ks.opks[id].key
    BY <1>1, <1>3, ZenonT(60)
  <1> HIDE DEF a
  <1>5. StoreInv' /\ SecretInv'
    BY <1>0 DEF KeyInv, StoreInv, SecretInv
  <1>6. ASSUME IdInv PROVE IdInv'
    <2>1. Agrees(ks)'
      BY <1>0, <1>4, <1>6, Zenon DEF IdInv, Agrees
    <2>2. \A b \in advertised' : b[1] \in 1 .. (ks'.next - 1)
      <3>1. id \in 1 .. (ks.next - 1)
        BY <1>2, Zenon DEF KeyInv, StoreInv, IsStore
      <3> QED
        BY <1>0, <1>4, <1>6, <3>1, Zenon DEF IdInv
    <2>3. \A b \in advertised', c \in advertised' : b[1] = c[1] => b[2] = c[2]
      BY <1>2, <1>4, <1>6 DEF IdInv, Agrees
    <2>4. ASSUME disk # None
          PROVE  disk.next <= ks'.next /\ Agrees(disk)' /\ SameKeys(disk, ks)'
      BY <1>0, <1>2, <1>4, <1>6, <2>4, ZenonT(60) DEF IdInv, Agrees, SameKeys
    <2> QED
      BY <1>0, <2>1, <2>2, <2>3, <2>4, Zenon DEF IdInv
  <1> QED
    BY <1>0, <1>5, <1>6, Zenon DEF KeyInv

\* What an image says is what the store has, but for the secrets.
LEMMA SerializedIs ==
    ASSUME IsStore(ks)
    PROVE  /\ IsStore(Serialized(ks))
           /\ Serialized(ks).next = ks.next
           /\ DOMAIN Serialized(ks).opks = DOMAIN ks.opks
           /\ \A id \in DOMAIN ks.opks : Serialized(ks).opks[id].key = ks.opks[id].key
  <1> DEFINE opks == [id \in DOMAIN ks.opks |-> [ks.opks[id] EXCEPT !.secret = FALSE]]
             s == [ks EXCEPT !.opks = opks]
  <1>1. Serialized(ks) = s
    BY DEF Serialized
  <1>2. /\ DOMAIN opks = DOMAIN ks.opks
        /\ \A id \in DOMAIN ks.opks : opks[id] \in OpkT /\ opks[id].key = ks.opks[id].key
    BY Zenon DEF IsStore, OpkT
  <1> HIDE DEF opks
  <1>3. /\ s.opks = opks /\ s.next = ks.next /\ s.spk = ks.spk /\ s.link = ks.link
        /\ DOMAIN s = DOMAIN ks
    BY DEF IsStore
  <1> HIDE DEF s
  <1>4. IsStore(s)
    BY <1>2, <1>3, ZenonT(60) DEF IsStore
  <1> QED
    BY <1>1, <1>2, <1>3, <1>4, ZenonT(60)

\* save_to_disk and load_from_disk: an image that is not older has the next id
\* of the store, so nothing was given out that it does not know.
LEMMA DiskKeep ==
    ASSUME KeyInv, DiskStep
    PROVE  KeyInv'
  <1>0. IsStore(ks) /\ (disk # None => IsStore(disk)) /\ drawn \in DrawnT /\ time \in Nat
    BY DEF KeyInv, StoreInv
  <1>1. CASE SaveToDisk
    <2>1. disk' = Serialized(ks) /\ UNCHANGED <<ks, time, drawn, advertised, rolledBack, restored>>
      BY <1>1, Zenon DEF SaveToDisk
    <2>2. /\ IsStore(disk') /\ disk'.next = ks.next
          /\ DOMAIN disk'.opks = DOMAIN ks.opks
          /\ \A id \in DOMAIN ks.opks : disk'.opks[id].key = ks.opks[id].key
      BY <1>0, <2>1, SerializedIs, Zenon
    <2>3. StoreInv' /\ SecretInv'
      BY <1>0, <2>1, <2>2, ZenonT(60) DEF KeyInv, StoreInv, SecretInv
    <2>4. ASSUME IdInv PROVE IdInv'
      <3>1. Agrees(disk)' /\ SameKeys(disk, ks)' /\ Agrees(ks)'
        BY <2>1, <2>2, <2>4, ZenonT(60) DEF IdInv, Agrees, SameKeys
      <3>2. disk'.next <= ks'.next
        BY <1>0, <2>1, <2>2 DEF IsStore
      <3> QED
        BY <2>1, <2>4, <3>1, <3>2, Zenon DEF IdInv
    <2> QED
      BY <2>1, <2>3, <2>4, ZenonT(60) DEF KeyInv
  <1>2. CASE LoadFromDisk
    <2>1. /\ disk # None /\ ks' = disk
          /\ drawn' = [drawn EXCEPT !.loads = @ + 1]
          /\ rolledBack' = (rolledBack \/ disk.next < ks.next)
          /\ restored' = restored \cup {disk.opks[id].key : id \in DOMAIN disk.opks}
          /\ UNCHANGED <<disk, time, advertised>>
      BY <1>2 DEF LoadFromDisk
    <2>2. StoreInv'
      <3>1. drawn' \in DrawnT
        BY <1>0, <2>1 DEF DrawnT
      <3> QED
        BY <1>0, <2>1, <3>1, Zenon DEF StoreInv
    <2>3. SecretInv'
      BY <2>1 DEF SecretInv
    <2>4. ASSUME IdInv, ~(disk.next < ks.next) PROVE IdInv'
      <3>1. disk.next = ks.next
        BY <1>0, <2>1, <2>4 DEF IdInv, IsStore
      <3>2. Agrees(disk)' /\ SameKeys(disk, ks)' /\ Agrees(ks)'
        BY <2>1, <2>4, Zenon DEF IdInv, Agrees, SameKeys
      <3>3. disk'.next <= ks'.next
        BY <1>0, <2>1 DEF IsStore
      <3> QED
        BY <2>1, <2>4, <3>1, <3>2, <3>3, ZenonT(60) DEF IdInv
    <2> QED
      BY <2>1, <2>2, <2>3, <2>4, Zenon DEF KeyInv
  <1>3. CASE Tick
    <2>1. time' \in Nat /\ UNCHANGED <<ks, disk, drawn, advertised, rolledBack, restored>>
      BY <1>0, <1>3 DEF Tick
    <2> QED
      BY <1>0, <2>1, SameOpksStep, Zenon
  <1> QED
    BY <1>1, <1>2, <1>3, Zenon DEF DiskStep

\* Handshakes, messages and pins touch nothing of the store but its pins.
LEMMA PeerKeep ==
    ASSUME KeyInv, UNCHANGED ksvars \/ \E pins : OnlyPins(pins)
    PROVE  KeyInv'
  <1>0. IsStore(ks) /\ drawn \in DrawnT /\ time \in Nat
    BY DEF KeyInv, StoreInv
  <1>1. /\ UNCHANGED <<disk, time, drawn, advertised, rolledBack, restored>>
        /\ ks' = ks \/ \E pins : ks' = [ks EXCEPT !.pins = pins]
    BY DEF ksvars, OnlyPins
  <1>2. IsStore(ks') /\ ks'.next = ks.next /\ ks'.opks = ks.opks
    BY <1>0, <1>1, ZenonT(60) DEF IsStore
  <1> QED
    BY <1>0, <1>1, <1>2, SameOpksStep, ZenonT(60)

\* Every step keeps the invariant of the store.
LEMMA KeyNext == KeyInv /\ [Next]_vars => KeyInv'
  <1> SUFFICES ASSUME KeyInv, [Next]_vars PROVE KeyInv'
    BY Zenon
  <1>1. CASE SignedStep
    BY <1>1, SignedKeep, UseKeep, Zenon DEF SignedStep
  <1>2. CASE RotationStep
    <2>1. CASE Rotate
      BY <2>1, SignedKeep, Zenon
    <2>2. CASE RotationCheck \/ RotateFails
      BY <2>2, SameOpksStep DEF RotationCheck, RotateFails, KeyInv, StoreInv
    <2> QED
      BY <1>2, <2>1, <2>2 DEF RotationStep
  <1>3. CASE OnetimeStep
    <2>1. GenerateOnetimePrekeys(1) => KeyInv'
      BY GenerateKeep
    <2>2. Replenish(1, 2) => KeyInv'
      BY ReplenishKeep
    <2> QED
      BY <1>3, <2>1, <2>2, UseKeep, BundleKeep, Zenon DEF OnetimeStep
  <1>4. CASE DiskStep
    BY <1>4, DiskKeep
  <1>5. ASSUME NEW t \in Threads,
               Handshake(t) \/ CreateSession(t) \/ BeginEncrypt(t) \/ Encrypt(t)
        PROVE  UNCHANGED ksvars \/ \E pins : OnlyPins(pins)
    <2>1. CASE VerifyOrPin(t)
      BY <2>1, Zenon DEF VerifyOrPin
    <2>2. CASE ~VerifyOrPin(t)
      BY <1>5, <2>2, ZenonT(60) DEF Handshake, BeginHandshake, InsertSession, CreateSession,
                       BeginEncrypt, Encrypt
    <2> QED
      BY <2>1, <2>2
  <1>6. ASSUME DeleteSession \/ VerifyPeer \/ RemovePeerPin \/ \E key \in PeerKeys : PinPeerKey(key)
        PROVE  UNCHANGED ksvars \/ \E pins : OnlyPins(pins)
    BY <1>6, Zenon DEF DeleteSession, VerifyPeer, RemovePeerPin, PinPeerKey
  <1>7. CASE UNCHANGED vars
    BY <1>7, PeerKeep, Zenon DEF vars
  <1> QED
    BY <1>1, <1>2, <1>3, <1>4, <1>5, <1>6, <1>7, PeerKeep, ZenonT(60) DEF Next

\* What the store's signed parts and its time say about its bundles.
LEMMA KeySaysVerify == KeyInv => BundlesVerify
  <1> SUFFICES ASSUME KeyInv, ks.identity # None, ks.spk # None,
                      ks.spk.sig.by = ks.identity,
                      ks.link # None =>
                          ks.link.sig.over = DevicePayload(ks.identity, ks.link.device),
                      NEW id \in Offered
               PROVE  FromBytes(BundleOf(id)) /\ Valid(BundleOf(id), time)
    BY Zenon DEF BundlesVerify
  <1>1. /\ ks.spk.key \in 0 .. MaxKeys
        /\ ks.spk.sig = Sign(ks.identity, SpkPayload(Spk(ks.spk.key)))
        /\ ks.link # None =>
               ks.link.sig = Sign(ks.link.root, DevicePayload(ks.identity, ks.link.device))
        /\ time \in Nat
    BY Zenon DEF KeyInv, StoreInv, IsStore
  <1>2. Pq(ks.spk.key) # None
    BY <1>1, PqAssumption, Zenon
  <1>3. time <= time + BundleLife
    BY <1>1, KeyStoreAssumption
  <1> DEFINE linked == ks.link # None
  <1>4. PICK opk, device, root, dsig :
            /\ BundleOf(id) = NewBundle(ks.identity, Spk(ks.spk.key), ks.spk.sig, opk,
                                        device, root, dsig, Pq(ks.spk.key), time)
            /\ dsig = Sign(root, DevicePayload(ks.identity, device))
    <2>1. CASE linked
      BY <1>1, <2>1, ZenonT(60) DEF BundleOf
    <2>2. CASE ~linked
      BY <2>2, Zenon DEF BundleOf
    <2> QED
      BY <2>1, <2>2, Zenon
  <1>5. PICK key, spk, sig, pq, exp :
            /\ key = ks.identity /\ spk = Spk(ks.spk.key) /\ sig = ks.spk.sig
            /\ pq = Pq(ks.spk.key) /\ exp = time + BundleLife
    OBVIOUS
  <1> DEFINE u == [identity_key |-> key, signed_prekey |-> spk, signature |-> sig,
                   onetime_prekey |-> opk, expiration |-> exp,
                   device_id |-> device, root_identity_key |-> root,
                   device_signature |-> dsig, pq_signed_prekey |-> pq,
                   pq_signature |-> Sign(key, PqPayload(pq)),
                   bundle_signature |-> None]
             b == [u EXCEPT !.bundle_signature = Sign(key, SigningBytes(u))]
  <1>6. BundleOf(id) = b
    BY <1>2, <1>4, <1>5, Zenon DEF NewBundle
  <1>7. /\ b.identity_key = key /\ b.signed_prekey = spk /\ b.signature = sig
        /\ b.device_id = device /\ b.root_identity_key = root
        /\ b.device_signature = dsig /\ b.pq_signed_prekey = pq
        /\ b.pq_signature = Sign(key, PqPayload(pq)) /\ b.expiration = exp
        /\ b.bundle_signature = Sign(key, SigningBytes(u))
    BY ZenonT(60)
  <1>8. SigningBytes(b) = SigningBytes(u)
    BY DEF SigningBytes
  <1> HIDE DEF u, b
  <1> QED
    BY <1>1, <1>2, <1>3, <1>4, <1>5, <1>6, <1>7, <1>8, ZenonT(60) DEF FromBytes, Valid, Verify

\* The invariant says that ids are not reused and offers have their secrets.
LEMMA KeySays == KeyInv => OneKeyPerId /\ OfferedHasSecret
  <1> SUFFICES ASSUME KeyInv PROVE OneKeyPerId /\ OfferedHasSecret
    OBVIOUS
  <1>1. OneKeyPerId
    BY Zenon DEF KeyInv, IdInv, OneKeyPerId
  <1>2. \A id \in Offered \ {None} : id \in DOMAIN ks.opks /\ ~ks.opks[id].used
    BY DEF Offered, UsableIds, Usable
  <1> QED
    BY <1>1, <1>2 DEF KeyInv, SecretInv, OfferedHasSecret

\* An id names one key: whatever is generated, marked, pruned, saved and loaded,
\* two one-time prekeys advertised under one id are the same key, unless an
\* image older than the store was loaded.
THEOREM IdsNotReused == Spec => []OneKeyPerId
  <1>1. KeyInv => OneKeyPerId
    BY KeySays, Zenon
  <1> QED
    BY <1>1, KeyInit, KeyNext, PTL DEF Spec

\* A one-time prekey that is offered has its secret in the store, or came out of
\* an image.
THEOREM OffersHaveSecrets == Spec => []OfferedHasSecret
  <1>1. KeyInv => OfferedHasSecret
    BY KeySays, ZenonT(60)
  <1> QED
    BY <1>1, KeyInit, KeyNext, PTL DEF Spec

\* The bundles that the store makes under one identity pass their readers'
\* checks.
THEOREM BundlesPass == Spec => []BundlesVerify
  <1> QED
    BY KeySaysVerify, KeyInit, KeyNext, PTL DEF Spec

-----------------------------------------------------------------------------
(* The padding of a message *)

\* What the two bytes of the length field hold is read back.
LEMMA LengthField ==
    ASSUME NEW n \in Nat, n <= MAX_PADDING_BYTES
    PROVE  (n % 256) + 256 * ((n \div 256) % 256) = n
  <1>1. PICK q \in Int, m \in 0..255 : q = n \div 256 /\ m = n % 256 /\ n = 256 * q + m
    OBVIOUS
  <1>2. 0 <= q /\ q < 256
    BY <1>1 DEF MAX_PADDING_BYTES
  <1>3. q % 256 = q
    BY <1>2
  <1> QED
    BY <1>1, <1>3

\* The places of a padded message, counted from its parts' lengths.
LEMMA Places ==
    ASSUME NEW p \in Nat, NEW t \in Nat, NEW l \in Nat
    PROVE  /\ 1 \in 1..1 /\ 1 \in 1..(1 + p) /\ 1 \in 1..(1 + p + t)
           /\ 1 \in 1..(1 + p + t + l)
           /\ \A i \in 1..t : /\ 1 + p + i \in 1..(1 + p + t)
                             /\ 1 + p + i \in 1..(1 + p + t + l)
           /\ (1 + p + t + l + 2) - 1 = (1 + p + t + l) + 1
           /\ 1 + p + t + l + 2 = (1 + p + t + l) + 2
           /\ 1 \in 1..2 /\ 2 \in 1..2
           /\ 1 + p + t + l + 2 \in Nat
  OBVIOUS

\* A sequence over a set is one over any larger set.
LEMMA WiderSeq ==
    ASSUME NEW S, NEW T, S \subseteq T, NEW s \in Seq(S)
    PROVE  s \in Seq(T) /\ Len(s) \in Nat
  OBVIOUS

\* Bytes are numbers, so strings of bytes are strings of numbers.
LEMMA ByteSeq ==
    ASSUME NEW s \in Seq(Byte)
    PROVE  s \in Seq(Int) /\ Len(s) \in Nat
  <1>1. Byte \subseteq Int
    BY DEF Byte
  <1> QED
    BY <1>1, WiderSeq, Zenon

\* Where the parts of a concatenation lie.
LEMMA Cat ==
    ASSUME NEW s \in Seq(Int), NEW t \in Seq(Int)
    PROVE  \E u \in Seq(Int) :
               /\ u = s \o t
               /\ Len(u) = Len(s) + Len(t)
               /\ \A i \in 1..Len(s) : u[i] = s[i]
               /\ \A i \in 1..Len(t) : u[Len(s) + i] = t[i]
  <1>1. /\ s \o t \in Seq(Int) /\ Len(s \o t) = Len(s) + Len(t)
        /\ Len(s) \in Nat /\ Len(t) \in Nat
    OBVIOUS
  <1>2. \A i \in 1..Len(s) : (s \o t)[i] = s[i]
    OBVIOUS
  <1>3. \A i \in 1..Len(t) : (s \o t)[Len(s) + i] = t[i]
    OBVIOUS
  <1> QED
    BY <1>1, <1>2, <1>3, Zenon

\* Where the parts of a padded message lie.
Laid(out, text, prefix, fill) ==
    /\ out = PadMessage(text, prefix, fill)
    /\ Len(out) = 1 + Len(prefix) + Len(text) + Len(fill) + 2
    /\ out[1] = Len(prefix)
    /\ \A i \in 1..Len(text) : out[1 + Len(prefix) + i] = text[i]
    /\ out[Len(out) - 1] = Len(fill) % 256
    /\ out[Len(out)] = (Len(fill) \div 256) % 256

\* pad_message puts them there.
LEMMA Layout ==
    ASSUME NEW text \in Seq(Byte), NEW prefix \in Seq(Byte), NEW fill \in Seq(Byte)
    PROVE  \E out \in Seq(Int) : Laid(out, text, prefix, fill)
  <1> DEFINE h == <<Len(prefix)>>
             f == <<Len(fill) % 256, (Len(fill) \div 256) % 256>>
  <1>1. /\ text \in Seq(Int) /\ prefix \in Seq(Int) /\ fill \in Seq(Int)
        /\ Len(text) \in Nat /\ Len(prefix) \in Nat /\ Len(fill) \in Nat
    BY ByteSeq
  <1>2. PICK head \in Seq(Int) : head = h /\ Len(head) = 1 /\ head[1] = Len(prefix)
    <2>1. PICK p \in Int : p = Len(prefix)
      BY <1>1
    <2>2. <<p>> \in Seq(Int) /\ Len(<<p>>) = 1 /\ <<p>>[1] = p
      OBVIOUS
    <2> QED
      BY <2>1, <2>2, Zenon
  <1>3. PICK field \in Seq(Int) : /\ field = f /\ Len(field) = 2
                                  /\ field[1] = Len(fill) % 256
                                  /\ field[2] = (Len(fill) \div 256) % 256
    <2>1. PICK x \in Int, y \in Int :
              x = Len(fill) % 256 /\ y = (Len(fill) \div 256) % 256
      <3>1. PICK l \in Nat : l = Len(fill)
        BY <1>1
      <3>2. l % 256 \in Int /\ (l \div 256) % 256 \in Int
        OBVIOUS
      <3> QED
        BY <3>1, <3>2, ZenonT(60)
    <2>2. /\ <<x, y>> \in Seq(Int) /\ Len(<<x, y>>) = 2
          /\ <<x, y>>[1] = x /\ <<x, y>>[2] = y
      OBVIOUS
    <2> QED
      BY <2>1, <2>2, ZenonT(60)
  <1> HIDE DEF h, f
  <1>4. PICK a \in Seq(Int) : /\ a = head \o prefix
                              /\ Len(a) = Len(head) + Len(prefix)
                              /\ \A i \in 1..Len(head) : a[i] = head[i]
    BY <1>1, Cat, ZenonT(120)
  <1>5. PICK b \in Seq(Int) : /\ b = a \o text
                              /\ Len(b) = Len(a) + Len(text)
                              /\ \A i \in 1..Len(a) : b[i] = a[i]
                              /\ \A i \in 1..Len(text) : b[Len(a) + i] = text[i]
    BY <1>1, Cat, Zenon
  <1>6. PICK c \in Seq(Int) : /\ c = b \o fill
                              /\ Len(c) = Len(b) + Len(fill)
                              /\ \A i \in 1..Len(b) : c[i] = b[i]
    <2>1. fill \in Seq(Int)
      BY <1>1
    <2> QED
      BY <2>1, Cat, ZenonT(120)
  <1>7. PICK out \in Seq(Int) : /\ out = c \o field
                                /\ Len(out) = Len(c) + Len(field)
                                /\ \A i \in 1..Len(c) : out[i] = c[i]
                                /\ \A i \in 1..Len(field) : out[Len(c) + i] = field[i]
    BY Cat, Zenon
  <1>8. out = PadMessage(text, prefix, fill)
    BY <1>2, <1>3, <1>4, <1>5, <1>6, <1>7, Zenon DEF PadMessage, h, f
  <1>9. /\ Len(a) = 1 + Len(prefix)
        /\ Len(b) = 1 + Len(prefix) + Len(text)
        /\ Len(c) = 1 + Len(prefix) + Len(text) + Len(fill)
        /\ Len(out) = 1 + Len(prefix) + Len(text) + Len(fill) + 2
    <2> DEFINE la == Len(a)  lb == Len(b)  lc == Len(c)  lo == Len(out)
               p == Len(prefix)  t == Len(text)  l == Len(fill)
    <2>1. p \in Nat /\ t \in Nat /\ l \in Nat
      BY <1>1
    <2>2. la = 1 + p /\ lb = la + t /\ lc = lb + l /\ lo = lc + 2
      BY <1>2, <1>3, <1>4, <1>5, <1>6, <1>7
    <2> HIDE DEF la, lb, lc, lo, p, t, l
    <2>3. la = 1 + p /\ lb = 1 + p + t /\ lc = 1 + p + t + l /\ lo = 1 + p + t + l + 2
      BY <2>1, <2>2
    <2> QED
      BY <2>3 DEF la, lb, lc, lo, p, t, l
  <1>10. out[1] = Len(prefix)
    <2>1. 1 \in 1..Len(head) /\ 1 \in 1..Len(a) /\ 1 \in 1..Len(b) /\ 1 \in 1..Len(c)
      BY <1>1, <1>2, <1>9, Places, ZenonT(120)
    <2>2. a[1] = Len(prefix)
      BY <1>2, <1>4, <2>1, Zenon
    <2>3. b[1] = Len(prefix)
      BY <1>5, <2>1, <2>2, Zenon
    <2>4. c[1] = Len(prefix)
      BY <1>6, <2>1, <2>3, Zenon
    <2> QED
      BY <1>7, <2>1, <2>4, ZenonT(60)
  <1>11. ASSUME NEW i \in 1..Len(text) PROVE out[1 + Len(prefix) + i] = text[i]
    <2>1. 1 + Len(prefix) + i \in 1..Len(b) /\ 1 + Len(prefix) + i \in 1..Len(c)
      <3> DEFINE p == Len(prefix)  t == Len(text)  l == Len(fill)
      <3>1. p \in Nat /\ t \in Nat /\ l \in Nat /\ i \in 1..t
        BY <1>1, Zenon
      <3> HIDE DEF p, t, l
      <3>2. 1 + p + i \in 1..(1 + p + t) /\ 1 + p + i \in 1..(1 + p + t + l)
        BY <3>1
      <3> QED
        BY <1>9, <3>2, Zenon DEF p, t, l
    <2>2. b[1 + Len(prefix) + i] = text[i]
      BY <1>5, <1>9, <1>11, ZenonT(60)
    <2> QED
      BY <1>6, <1>7, <2>1, <2>2, Zenon
  <1>12. out[Len(out) - 1] = Len(fill) % 256 /\ out[Len(out)] = (Len(fill) \div 256) % 256
    <2>1. Len(out) - 1 = Len(c) + 1 /\ Len(out) = Len(c) + 2 /\ 1 \in 1..2 /\ 2 \in 1..2
      <3> DEFINE p == Len(prefix)  t == Len(text)  l == Len(fill)
      <3>1. p \in Nat /\ t \in Nat /\ l \in Nat
        BY <1>1, Zenon
      <3> HIDE DEF p, t, l
      <3>2. /\ (1 + p + t + l + 2) - 1 = (1 + p + t + l) + 1
            /\ 1 + p + t + l + 2 = (1 + p + t + l) + 2
            /\ 1 \in 1..2 /\ 2 \in 1..2
        BY <3>1
      <3> QED
        BY <1>9, <3>2, Zenon DEF p, t, l
    <2>2. out[Len(c) + 1] = field[1] /\ out[Len(c) + 2] = field[2]
      BY <1>3, <1>7, <2>1, ZenonT(120)
    <2> QED
      BY <1>3, <2>1, <2>2, ZenonT(60)
  <1> QED
    BY <1>8, <1>9, <1>10, <1>11, <1>12, ZenonT(60) DEF Laid

\* decrypt_message gets back what encrypt_message was given: for every text,
\* the empty one of cover traffic included, every noise and every fill that
\* the length field has room for.
THEOREM RoundTrip ==
    ASSUME NEW text \in Seq(Byte), NEW prefix \in Seq(Byte), NEW fill \in Seq(Byte),
           Len(prefix) \in 1..MAX_PREFIX, Len(fill) <= MAX_PADDING_BYTES
    PROVE  UnpadMessage(PadMessage(text, prefix, fill)) = text
  <1>1. PICK out \in Seq(Int) : Laid(out, text, prefix, fill)
    BY Layout, Zenon
  <1>2. PICK p \in Nat, t \in Nat, l \in Nat, n \in Nat :
            /\ p = Len(prefix) /\ t = Len(text) /\ l = Len(fill) /\ n = Len(out)
            /\ p \in 1..MAX_PREFIX /\ l <= MAX_PADDING_BYTES /\ n = 1 + p + t + l + 2
    <2>1. PICK p \in Nat, t \in Nat, l \in Nat :
              p = Len(prefix) /\ t = Len(text) /\ l = Len(fill)
      BY ByteSeq, Zenon
    <2>3. l <= MAX_PADDING_BYTES
      BY <2>1, Zenon
    <2>4. Len(out) = 1 + p + t + l + 2 /\ p \in 1..MAX_PREFIX
      BY <1>1, <2>1, Zenon DEF Laid
    <2>5. Len(out) \in Nat
      <3>1. 1 + p + t + l + 2 \in Nat
        OBVIOUS
      <3> QED
        BY <2>4, <3>1, Zenon
    <2> QED
      BY <2>1, <2>3, <2>4, <2>5, Zenon
  <1>3. out[n - 1] + 256 * out[n] = l
    <2>1. out[n - 1] = l % 256 /\ out[n] = (l \div 256) % 256
      BY <1>1, <1>2, ZenonT(60) DEF Laid
    <2>2. (l % 256) + 256 * ((l \div 256) % 256) = l
      BY <1>2, LengthField, ZenonT(120)
    <2> QED
      BY <2>1, <2>2, ZenonT(60)
  <1>4. UnpadMessage(out) = SubSeq(out, p + 2, p + 1 + t)
    <2>1. ~(n < 4) /\ ~(1 + p + 0 + 2 > n) /\ n - (1 + p + l + 2) = t /\ ~(t < 0)
      BY <1>2, SMTT(30) DEF MAX_PREFIX
    <2>2. Len(out) = n /\ out[1] = p
      BY <1>1, <1>2, Zenon DEF Laid
    <2> QED
      BY <1>2, <1>3, <2>1, <2>2, ZenonT(120) DEF UnpadMessage, MinTotal
  <1>5. SubSeq(out, p + 2, p + 1 + t) = text
    <2>1. p + 2 \in Int /\ p + 1 + t \in Int
      BY <1>2
    <2>2. \A i \in (p + 2)..(p + 1 + t) : i \in 1..Len(out)
      BY <1>1, <1>2 DEF Laid
    <2>3. \A i \in (p + 2)..(p + 1 + t) : out[i] \in Int
      BY <2>2
    <2>4. PICK sub \in Seq(Int) :
              /\ sub = SubSeq(out, p + 2, p + 1 + t)
              /\ Len(sub) = IF p + 2 <= p + 1 + t THEN (p + 1 + t) - (p + 2) + 1 ELSE 0
              /\ \A i \in 1..((p + 1 + t) - (p + 2) + 1) : sub[i] = out[(p + 2) + i - 1]
      <3> DEFINE lo == p + 2  hi == p + 1 + t
      <3>1. lo \in Int /\ hi \in Int /\ \A i \in lo..hi : out[i] \in Int
        BY <2>1, <2>3, Zenon
      <3> HIDE DEF lo, hi
      <3>2. /\ SubSeq(out, lo, hi) \in Seq(Int)
            /\ Len(SubSeq(out, lo, hi)) = IF lo <= hi THEN hi - lo + 1 ELSE 0
            /\ \A i \in 1..(hi - lo + 1) : SubSeq(out, lo, hi)[i] = out[lo + i - 1]
        BY <3>1
      <3> QED
        BY <3>2, Zenon DEF lo, hi
    <2>5. Len(sub) = t
      <3>1. (IF p + 2 <= p + 1 + t THEN (p + 1 + t) - (p + 2) + 1 ELSE 0) = t
        BY <1>2
      <3> QED
        BY <2>4, <3>1, Zenon
    <2>6. (p + 1 + t) - (p + 2) + 1 = t /\ \A i \in 1..t : (p + 2) + i - 1 = 1 + p + i
      BY <1>2
    <2>7. \A i \in 1..t : sub[i] = text[i]
      <3> SUFFICES ASSUME NEW i \in 1..t PROVE sub[i] = text[i]
        OBVIOUS
      <3>1. sub[i] = out[(p + 2) + i - 1]
        BY <2>4, <2>6, Zenon
      <3>2. out[1 + p + i] = text[i]
        BY <1>1, <1>2, ZenonT(60) DEF Laid
      <3> QED
        BY <2>6, <3>1, <3>2, ZenonT(60)
    <2>8. text \in Seq(Int) /\ Len(sub) = Len(text) /\ \A i \in 1..Len(sub) : sub[i] = text[i]
      BY <1>2, <2>5, <2>7, ByteSeq, Zenon
    <2> QED
      BY <2>4, <2>8
  <1> QED
    BY <1>1, <1>4, <1>5, Zenon DEF Laid
=============================================================================
