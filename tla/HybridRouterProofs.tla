------------------------- MODULE HybridRouterProofs -------------------------
(***************************************************************************)
(* Proofs about HybridRouter and the handshake of P2pHandshake for any     *)
(* number of connections, messages and peers: the two ends of a finished   *)
(* handshake agree, a message takes one path, and the peer table stays     *)
(* within one entry of its cap.                                            *)
(***************************************************************************)
EXTENDS HybridRouter, FiniteSetTheorems, TLAPS

-----------------------------------------------------------------------------
(* The state of one connection *)

\* What the initiator encapsulates, and what it sends.
Ciphertext(c) == Encaps(PqKey, Eph("ini", c))
Sent(c) == Envelope(HandshakeKey(c), Ciphertext(c))

\* What the responder derives when it reads that under identity g.
Secret(c, g) ==
    X3dhResponder(Xk(g), SpkKey, None, AliceX, Eph("ini", c), PqKey, Ciphertext(c),
                  "devR", "devI", Transcript(AliceEd, c, Ed(g), NodeBundle, "devI", "devR"))

\* What initiator_handshake and responder_handshake hold.
Phases == {"idle", "hello", "envelope", "listening", "bundle", "done", "failed"}
Ids == 0..MaxIdentity \cup {None}
Names == {Ed(g) : g \in 0..MaxIdentity} \cup {AliceEd, None}
Secrets == {None} \cup UNION {{Secret(c, g) : g \in 0..MaxIdentity} : c \in Conns}
Side == [phase : Phases, id : Ids, peer : Names, secret : Secrets]

Typed ==
    /\ ini \in [Conns -> Side] /\ res \in [Conns -> Side]
    /\ DOMAIN toRes = Conns /\ DOMAIN toIni = Conns /\ identity \in 0..MaxIdentity

Hellos(c) == {Hello(v, c) : v \in Versions}
Data(m) == [type |-> "Data", msg |-> m]
DataOf(msgs) == {Data(m) : m \in msgs}
Bundles(c, g) == {Bundle(HandshakeKey(c), g)}

\* Messages that were written to a stream and never given to the relay.
Streamed == {m \in Msgs : task[m].pc = "ok" /\ m \notin relayed}

\* i and r are the two ends of connection c, tr and ti what is under way to the
\* responder and to the initiator, and e whom the initiator expects.  How far
\* the one has got says how far the other can be and what is between them.
Link(c, i, r, tr, ti, e, msgs) ==
    /\ r.phase \in {"idle", "listening", "bundle", "done", "failed"}
    /\ r.phase # "idle" => r.id \in 0..MaxIdentity /\ i.phase # "idle"
    /\ r.phase \in {"idle", "listening"} =>
           /\ i.phase \in {"idle", "hello", "failed"}
           /\ ti = <<>> /\ tr \in Seq(Hellos(c)) /\ Len(tr) <= 1
    /\ r.phase = "bundle" =>
           /\ i.phase \in {"hello", "envelope", "failed"}
           /\ ti \in Seq(Bundles(c, r.id)) /\ tr \in Seq({Sent(c)}) /\ Len(tr) <= 1
           /\ i.phase = "hello" => tr = <<>>
    /\ r.phase = "done" =>
           /\ i.phase \in {"envelope", "done", "failed"}
           /\ ti \in Seq(Bundles(c, r.id) \cup {Ok(HandshakeKey(c))})
           /\ tr \in Seq(DataOf(msgs))
           /\ r.peer = AliceEd /\ r.secret = Secret(c, r.id)
    /\ r.phase = "failed" =>
           /\ i.phase \in {"hello", "envelope", "failed"}
           /\ ti \in Seq(Bundles(c, r.id))
    /\ i.phase \in {"envelope", "done"} =>
           i.peer = Ed(r.id) /\ i.peer = e /\ i.secret = Secret(c, r.id)

\* The connections, and what is on them.
LinkInv ==
    /\ Typed
    /\ \A c \in Conns : Link(c, ini[c], res[c], toRes[c], toIni[c], expected, Streamed)

\* A connection that carries messages is one whose handshake is done, and what
\* came out of it was not relayed.
PathInv ==
    /\ DOMAIN task = Msgs /\ DOMAIN active = PeerIds
    /\ DOMAIN got = Conns /\ DOMAIN lockq = Conns
    /\ relayed \subseteq {m \in Msgs : task[m].pc \in {"ok", "err"}}
    /\ \A c \in Conns :
           /\ got[c] \subseteq Streamed
           /\ got[c] # {} \/ lockq[c] # <<>> => res[c].phase = "done"
    /\ \A m \in Msgs : task[m].pc = "stream" /\ task[m].conn \in Conns =>
           ini[task[m].conn].phase = "done"
    /\ \A p \in PeerIds : active[p] \in Conns => ini[active[p]].phase = "done"

-----------------------------------------------------------------------------
(* The peer table *)

\* Tasks that have passed the cap and not yet made their entry.
Dialling == IF disc.pc \in {"dial", "handshake"} THEN 1 ELSE 0
Adding == IF adder.pc = "insert" THEN 1 ELSE 0

TableInv ==
    /\ DOMAIN active = PeerIds /\ "pc" \in DOMAIN adder /\ IsFiniteSet(Peers)
    /\ Cardinality(Peers) + Dialling + Adding <= MAX_ACTIVE_PEERS + 1


\* A step that makes no entry, and lets no task through that the cap was not
\* compared for.
LEMMA TableSame ==
    ASSUME TableInv, active' = active,
           \/ Dialling' \in {0, Dialling} /\ Adding' \in {0, Adding}
           \/ Cardinality(Peers) < MAX_ACTIVE_PEERS,
           "pc" \in DOMAIN adder'
    PROVE  TableInv'
  <1>1. Peers' = Peers /\ Cardinality(Peers) \in Nat
    BY FS_CardinalityType, Zenon DEF Peers, TableInv
  <1>2. Dialling' \in {0, 1} /\ Adding' \in {0, 1} /\ Dialling \in {0, 1} /\ Adding \in {0, 1}
    BY Zenon DEF Dialling, Adding
  <1>3. MAX_ACTIVE_PEERS \in Nat
    BY RouterAssumption
  <1>4. Cardinality(Peers) + Dialling' + Adding' <= MAX_ACTIVE_PEERS + 1
    <2> DEFINE x == Cardinality(Peers)  d == Dialling  a == Adding  e == Dialling'  b == Adding'
    <2>1. /\ x \in Nat /\ d \in {0, 1} /\ a \in {0, 1} /\ e \in {0, 1} /\ b \in {0, 1}
          /\ (e \in {0, d} /\ b \in {0, a}) \/ x < MAX_ACTIVE_PEERS
          /\ x + d + a <= MAX_ACTIVE_PEERS + 1
      BY <1>1, <1>2, Zenon DEF TableInv
    <2> HIDE DEF x, d, a, e, b
    <2>2. x + e + b <= MAX_ACTIVE_PEERS + 1
      BY <1>3, <2>1
    <2> QED
      BY <2>2, Zenon DEF x, e, b
  <1> QED
    BY <1>1, <1>4, Zenon DEF TableInv

\* A task that was let through makes its entry.
LEMMA TableInsert ==
    ASSUME TableInv, NEW p, NEW v, active' = [active EXCEPT ![p] = v],
           Dialling' + Adding' + 1 <= Dialling + Adding, "pc" \in DOMAIN adder'
    PROVE  TableInv'
  <1>1. DOMAIN active' = PeerIds
    BY DEF TableInv
  <1>2. Peers' \subseteq Peers \cup {p}
    BY Zenon DEF Peers, TableInv
  <1>3. /\ IsFiniteSet(Peers \cup {p}) /\ Cardinality(Peers) \in Nat
        /\ Cardinality(Peers \cup {p}) \in {Cardinality(Peers), Cardinality(Peers) + 1}
    <2>1. IsFiniteSet(Peers)
      BY DEF TableInv
    <2>2. /\ IsFiniteSet(Peers \cup {p})
          /\ Cardinality(Peers \cup {p}) =
                 IF p \in Peers THEN Cardinality(Peers) ELSE Cardinality(Peers) + 1
      BY <2>1, FS_AddElement, Zenon
    <2> QED
      BY <2>1, <2>2, FS_CardinalityType, ZenonT(60)
  <1>4. /\ IsFiniteSet(Peers') /\ Cardinality(Peers') \in Nat
        /\ Cardinality(Peers') <= Cardinality(Peers \cup {p})
    BY <1>2, <1>3, FS_Subset, FS_CardinalityType, ZenonT(60)
  <1>5. Dialling' \in {0, 1} /\ Adding' \in {0, 1} /\ Dialling \in {0, 1} /\ Adding \in {0, 1}
    BY Zenon DEF Dialling, Adding
  <1>6. MAX_ACTIVE_PEERS \in Nat
    BY RouterAssumption, Zenon
  <1>7. Cardinality(Peers') + Dialling' + Adding' <= MAX_ACTIVE_PEERS + 1
    <2> DEFINE x == Cardinality(Peers)  y == Cardinality(Peers')  z == Cardinality(Peers \cup {p})
               d == Dialling  a == Adding  e == Dialling'  b == Adding'
    <2>1. /\ x \in Nat /\ y \in Nat /\ z \in {x, x + 1} /\ y <= z
          /\ d \in {0, 1} /\ a \in {0, 1} /\ e \in {0, 1} /\ b \in {0, 1}
          /\ e + b + 1 <= d + a /\ x + d + a <= MAX_ACTIVE_PEERS + 1
      BY <1>3, <1>4, <1>5, Zenon DEF TableInv
    <2> HIDE DEF x, y, z, d, a, e, b
    <2>2. y + e + b <= MAX_ACTIVE_PEERS + 1
      BY <1>6, <2>1
    <2> QED
      BY <2>2, Zenon DEF y, e, b
  <1> QED
    BY <1>1, <1>4, <1>7, Zenon DEF TableInv

\* The router starts with an empty table and nothing being added.
LEMMA TableInit == Init => TableInv
  <1> SUFFICES ASSUME Init PROVE TableInv
    BY Zenon
  <1>1. DOMAIN active = PeerIds /\ Peers = {}
    BY Zenon DEF Init, Peers
  <1>2. Dialling = 0 /\ Adding = 0
    BY Zenon DEF Init, Dialling, Adding, Loop
  <1>3. MAX_ACTIVE_PEERS \in Nat
    BY RouterAssumption, Zenon
  <1> QED
    <2>1. Cardinality(Peers) = 0 /\ IsFiniteSet(Peers)
      BY <1>1, FS_EmptySet, Zenon
    <2>2. 0 + 0 + 0 <= MAX_ACTIVE_PEERS + 1
      BY <1>3
    <2>3. "pc" \in DOMAIN adder
      BY Zenon DEF Init
    <2> QED
      BY <1>1, <1>2, <2>1, <2>2, <2>3, Zenon DEF TableInv

\* Each step of the router keeps the table within its bound, with the peer
\* being dialled or added counted in.
LEMMA TableNext == TableInv /\ [Next]_vars => TableInv'
  <1> SUFFICES ASSUME TableInv, [Next]_vars PROVE TableInv'
    BY Zenon
  <1>0. /\ Dialling \in {0, 1} /\ Adding \in {0, 1} /\ Dialling' \in {0, 1} /\ Adding' \in {0, 1}
        /\ Cardinality(Peers) \in Nat /\ MAX_ACTIVE_PEERS \in Nat
        /\ "pc" \in DOMAIN adder
    BY FS_CardinalityType, RouterAssumption, Zenon DEF Dialling, Adding, TableInv
  <1>1. CASE UNCHANGED <<active, disc, adder>>
    <2>1. Dialling' = Dialling /\ Adding' = Adding
      BY <1>1, Zenon DEF Dialling, Adding
    <2> QED
      BY <1>0, <1>1, <2>1, TableSame, Zenon
  <1>2. CASE UNCHANGED vars \/ Handshaking \/ Answering
    BY <1>1, <1>2, ZenonT(120) DEF vars, router, Handshaking, Answering, RecvCall, RecvMessage,
                      RecvDisconnected, ReplyWrite, Reply
  <1>3. CASE StopDiscovery
    BY <1>1, <1>3, Zenon DEF StopDiscovery
  <1>4. CASE TakeStop
    <2>1. Dialling' = 0 /\ Adding' = Adding /\ active' = active /\ adder' = adder
      BY <1>4, Zenon DEF TakeStop, Dialling, Adding, Loop
    <2> QED
      BY <1>0, <2>1, TableSame, Zenon
  <1>5. ASSUME NEW c, TakePeer(c) PROVE TableInv'
    <2>1. CASE UNCHANGED disc
      BY <1>1, <1>5, <2>1, ZenonT(60) DEF TakePeer
    <2>2. CASE Cardinality(Peers) < MAX_ACTIVE_PEERS
      BY <1>0, <1>5, <2>2, TableSame, Zenon DEF TakePeer
    <2>3. disc' = disc \/ ~(Cardinality(Peers) >= MAX_ACTIVE_PEERS)
      BY <1>5, Zenon DEF TakePeer
    <2>4. Cardinality(Peers) >= MAX_ACTIVE_PEERS \/ Cardinality(Peers) < MAX_ACTIVE_PEERS
      BY <1>0
    <2> QED
      BY <2>1, <2>2, <2>3, <2>4, Zenon
  <1>6. ASSUME NEW c \in Conns, Connect(c) PROVE TableInv'
    <2>1. Dialling' = Dialling /\ Adding' = Adding /\ active' = active /\ adder' = adder
      BY <1>6, Zenon DEF Connect, Dialling, Adding, Loop
    <2> QED
      BY <1>0, <2>1, TableSame, Zenon
  <1>7. ASSUME NEW c \in Conns, ConnectFailed(c) PROVE TableInv'
    <2>1. Dialling' = 0 /\ Adding' = Adding /\ active' = active /\ adder' = adder
      BY <1>7, Zenon DEF ConnectFailed, Dialling, Adding, Loop
    <2> QED
      BY <1>0, <2>1, TableSame, Zenon
  <1>8. ASSUME NEW c \in Conns, Connected(c) PROVE TableInv'
    <2>1. Dialling = 1 /\ Dialling' = 0 /\ Adding' = Adding /\ adder' = adder
      BY <1>8, Zenon DEF Connected, Dialling, Adding, Loop
    <2>2. CASE active' = active
      BY <1>0, <2>1, <2>2, TableSame, Zenon
    <2>3. CASE active' = [active EXCEPT ![ini[c].peer] = c]
      <3>1. Dialling' + Adding' + 1 <= Dialling + Adding
        BY <1>0, <2>1
      <3> QED
        BY <1>0, <2>1, <2>3, <3>1, TableInsert, Zenon
    <2> QED
      BY <1>8, <2>2, <2>3, Zenon DEF Connected
  <1>9. ASSUME NEW p, AddPeer(p) PROVE TableInv'
    <2>1. active' = active /\ disc' = disc /\ "pc" \in DOMAIN adder'
      BY <1>9, Zenon DEF AddPeer
    <2>2. CASE Cardinality(Peers) < MAX_ACTIVE_PEERS
      BY <2>1, <2>2, TableSame, ZenonT(60)
    <2>3. CASE ~(Cardinality(Peers) < MAX_ACTIVE_PEERS)
      <3>1. Cardinality(Peers) >= MAX_ACTIVE_PEERS
        BY <1>0, <2>3
      <3>2. Adding' = 0 /\ Dialling' = Dialling
        BY <1>9, <2>1, <3>1, Zenon DEF AddPeer, Adding, Dialling
      <3> QED
        BY <2>1, <3>2, TableSame, Zenon
    <2> QED
      BY <2>2, <2>3, Zenon
  <1>10. CASE InsertPeer
    <2>1. /\ active' = [active EXCEPT ![adder.id] = "accepted"] /\ disc' = disc
          /\ "pc" \in DOMAIN adder'
      BY <1>0, <1>10, ZenonT(60) DEF InsertPeer
    <2>2. Adding = 1 /\ Dialling' = Dialling
      BY <1>10, Zenon DEF InsertPeer, Adding, Dialling
    <2>3. Adding' = 0
      BY <1>0, <1>10, Zenon DEF InsertPeer, Adding
    <2>4. Dialling' + Adding' + 1 <= Dialling + Adding
      BY <1>0, <2>2, <2>3
    <2> QED
      BY <2>1, <2>4, TableInsert, Zenon
  <1>11. ASSUME NEW m, \/ SendMessage(m) \/ StreamWrite(m) \/ StreamFails(m)
                                \/ RelayRefused(m) \/ RelayTakes(m)
         PROVE  TableInv'
    BY <1>1, <1>11, Zenon DEF SendMessage, StreamWrite, StreamFails, RelayRefused, RelayTakes
  <1> QED
    BY <1>2, <1>3, <1>4, <1>5, <1>6, <1>7, <1>8, <1>9, <1>10, <1>11, ZenonT(60) DEF Next, Routing

\* The cap is compared and the entry made in two steps, by two tasks; however
\* they interleave, and whatever the cap, the table has at most one entry more.
THEOREM TableBounded == Spec => []PeersBounded
  <1>1. TableInv => PeersBounded
    <2> SUFFICES ASSUME TableInv PROVE PeersBounded
      OBVIOUS
    <2>1. /\ Dialling \in {0, 1} /\ Adding \in {0, 1} /\ Cardinality(Peers) \in Nat
          /\ MAX_ACTIVE_PEERS \in Nat
      BY FS_CardinalityType, RouterAssumption, Zenon DEF Dialling, Adding, TableInv
    <2> QED
      BY <2>1 DEF TableInv, PeersBounded
  <1> QED
    BY <1>1, TableInit, TableNext, PTL DEF Spec

-----------------------------------------------------------------------------
(* What a step does to a connection *)

\* The two ends derive the same secret: each Diffie-Hellman product from the
\* other half, the transcript in one order, and the ciphertext read back.
LEMMA SecretsMatch ==
    ASSUME NEW c \in Conns, NEW g, PqKey # None
    PROVE  X3dhInitiator(AliceX, Eph("ini", c), Xk(g), SpkKey, None, Ciphertext(c), "devI", "devR",
                         Transcript(AliceEd, c, Ed(g), NodeBundle, "devI", "devR"))
               = Secret(c, g)
  <1>1. Ciphertext(c) # None /\ Decaps(PqKey, Ciphertext(c)) = Ciphertext(c)
    BY CiphertextAssumption DEF Ciphertext, Decaps, Encaps
  <1>2. \A a, b : Dh(a, b) = Dh(b, a)
    BY Zenon DEF Dh
  <1> QED
    BY <1>1, <1>2, Zenon DEF Secret, X3dhInitiator, X3dhResponder, Derive

\* What a bundle of the node holds.
LEMMA NodeBundleFields ==
    /\ NodeBundle.signed_prekey = SpkKey /\ NodeBundle.onetime_prekey = None
    /\ NodeBundle.pq_signed_prekey = PqKey
  BY Zenon DEF NodeBundle, NewBundle

\* A frame on an empty wire.
LEMMA FirstFrame ==
    ASSUME NEW S, NEW b \in S
    PROVE  Append(<<>>, b) \in Seq(S) /\ Len(Append(<<>>, b)) <= 1
  <1>1. <<>> \in Seq(S) /\ Len(<<>>) = 0
    OBVIOUS
  <1>2. Append(<<>>, b) \in Seq(S) /\ Len(Append(<<>>, b)) = Len(<<>>) + 1
    BY <1>1
  <1> QED
    BY <1>1, <1>2

\* What is read from a wire is a frame that was under way on it; the rest still is.
LEMMA FrameTaken ==
    ASSUME NEW S, NEW w \in Seq(S), w # <<>>
    PROVE  Head(w) \in S /\ Tail(w) \in Seq(S) /\ (Len(w) <= 1 => Tail(w) = <<>>)
  OBVIOUS

\* The initiator gives up.
LEMMA LinkIniFails ==
    ASSUME NEW c, NEW i, NEW r, NEW tr, NEW ti, NEW e, NEW msgs,
           Link(c, i, r, tr, ti, e, msgs), NEW j, j.phase = "failed"
    PROVE  Link(c, j, r, tr, ti, e, msgs)
  BY Zenon DEF Link

\* The responder gives up.
LEMMA LinkResFails ==
    ASSUME NEW c, NEW i, NEW r, NEW tr, NEW ti, NEW e, NEW msgs,
           Link(c, i, r, tr, ti, e, msgs), r.phase \in {"listening", "bundle"},
           NEW q, q.phase = "failed", q.id = r.id
    PROVE  Link(c, i, q, tr, ti, e, msgs)
  <1>1. <<>> \in Seq(Bundles(c, q.id))
    OBVIOUS
  <1> QED
    BY <1>1, Zenon DEF Link

\* The network drops what is under way.
LEMMA LinkCut ==
    ASSUME NEW c, NEW i, NEW r, NEW tr, NEW ti, NEW e, NEW msgs, Link(c, i, r, tr, ti, e, msgs)
    PROVE  Link(c, i, r, <<>>, <<>>, e, msgs)
  <1>1. \A S : <<>> \in Seq(S)
    OBVIOUS
  <1>2. Len(<<>>) <= 1
    OBVIOUS
  <1> QED
    BY <1>1, <1>2, Zenon DEF Link

\* The dial succeeds.
LEMMA LinkDial ==
    ASSUME NEW c, NEW i, NEW r, NEW tr, NEW ti, NEW e, NEW msgs,
           Link(c, i, r, tr, ti, e, msgs), i.phase = "idle",
           NEW j, j.phase = "hello", NEW v \in Versions
    PROVE  Link(c, j, r, <<Hello(v, c)>>, ti, e, msgs)
  <1>1. <<Hello(v, c)>> \in Seq(Hellos(c)) /\ Len(<<Hello(v, c)>>) <= 1
    <2>1. Hello(v, c) \in Hellos(c)
      BY Zenon DEF Hellos
    <2> HIDE DEF Hello
    <2> QED
      BY <2>1
  <1> QED
    BY <1>1, Zenon DEF Link

\* The connection is accepted.
LEMMA LinkAccept ==
    ASSUME NEW c, NEW i, NEW r, NEW tr, NEW ti, NEW e, NEW msgs,
           Link(c, i, r, tr, ti, e, msgs), r.phase = "idle", i.phase # "idle",
           NEW q, q.phase = "listening", q.id \in 0..MaxIdentity
    PROVE  Link(c, i, q, tr, ti, e, msgs)
  BY Zenon DEF Link

\* Hello is read and the bundle sent, or lost on a broken connection.
LEMMA LinkHello ==
    ASSUME NEW c, NEW i, NEW r, NEW tr, NEW ti, NEW e, NEW msgs,
           Link(c, i, r, tr, ti, e, msgs), r.phase = "listening", tr # <<>>,
           NEW q, q.phase = "bundle", q.id = r.id,
           NEW to, to = ti \/ to = Append(ti, Bundle(HandshakeKey(c), r.id))
    PROVE  Link(c, i, q, Tail(tr), to, e, msgs)
  <1>1. /\ ti = <<>> /\ tr \in Seq(Hellos(c)) /\ Len(tr) <= 1 /\ i.phase \in {"hello", "failed"}
        /\ r.id \in 0..MaxIdentity
    BY Zenon DEF Link
  <1>2. Tail(tr) = <<>>
    BY <1>1
  <1>3. to \in Seq(Bundles(c, r.id))
    <2> DEFINE b == Bundle(HandshakeKey(c), r.id)
    <2>1. to = ti \/ to = Append(ti, b)
      BY Zenon
    <2>2. b \in Bundles(c, r.id)
      BY Zenon DEF Bundles
    <2> HIDE DEF b
    <2>3. Append(<<>>, b) \in Seq(Bundles(c, r.id)) /\ <<>> \in Seq(Bundles(c, r.id))
      <3>1. <<>> \in Seq(Bundles(c, r.id))
        OBVIOUS
      <3> QED
        BY <2>2, <3>1, FirstFrame, Zenon
    <2> QED
      BY <1>1, <2>1, <2>3, Zenon
  <1>4. <<>> \in Seq({Sent(c)}) /\ Len(<<>>) <= 1
    OBVIOUS
  <1> QED
    BY <1>1, <1>2, <1>3, <1>4, ZenonT(60) DEF Link

\* The bundle is read and the envelope sent, or lost.
LEMMA LinkBundle ==
    ASSUME NEW c, NEW i, NEW r, NEW tr, NEW ti, NEW e, NEW msgs,
           Link(c, i, r, tr, ti, e, msgs), i.phase = "hello", ti # <<>>,
           NEW j, j.phase = "envelope", j.peer = Ed(r.id), j.peer = e, j.secret = Secret(c, r.id),
           NEW to, to = tr \/ to = Append(tr, Sent(c))
    PROVE  Link(c, j, r, to, Tail(ti), e, msgs)
  <1>1. r.phase \in {"bundle", "failed"} /\ ti \in Seq(Bundles(c, r.id)) /\ r.id \in 0..MaxIdentity
    BY Zenon DEF Link
  <1>2. Tail(ti) \in Seq(Bundles(c, r.id))
    BY <1>1
  <1>3. r.phase = "bundle" => to \in Seq({Sent(c)}) /\ Len(to) <= 1
    <2> DEFINE b == Sent(c)
    <2>1. r.phase = "bundle" => tr = <<>>
      BY Zenon DEF Link
    <2>2. to = tr \/ to = Append(tr, b)
      OBVIOUS
    <2> HIDE DEF b
    <2>3. /\ Append(<<>>, b) \in Seq({b}) /\ Len(Append(<<>>, b)) <= 1
          /\ <<>> \in Seq({b}) /\ Len(<<>>) <= 1
      BY FirstFrame
    <2> QED
      BY <2>1, <2>2, <2>3, Zenon DEF b
  <1> QED
    BY <1>1, <1>2, <1>3, Zenon DEF Link

\* Ok is read: the responder has sent it.
LEMMA LinkOk ==
    ASSUME NEW c, NEW i, NEW r, NEW tr, NEW ti, NEW e, NEW msgs,
           Link(c, i, r, tr, ti, e, msgs), i.phase = "envelope",
           ti # <<>>, Head(ti).type = "Ok",
           NEW j, j.phase = "done", j.peer = i.peer, j.secret = i.secret
    PROVE  Link(c, j, r, tr, Tail(ti), e, msgs)
  <1>1. ASSUME ti \in Seq(Bundles(c, r.id)) PROVE FALSE
    <2>1. Head(ti) \in Bundles(c, r.id)
      BY <1>1
    <2> QED
      BY <2>1 DEF Bundles, Bundle
  <1>2. r.phase = "done"
    BY <1>1, Zenon DEF Link
  <1>3. Tail(ti) \in Seq(Bundles(c, r.id) \cup {Ok(HandshakeKey(c))})
    <2> DEFINE S == Bundles(c, r.id) \cup {Ok(HandshakeKey(c))}
    <2>1. ti \in Seq(S)
      BY <1>2, Zenon DEF Link
    <2> HIDE DEF S
    <2>2. Tail(ti) \in Seq(S)
      BY <2>1
    <2> QED
      BY <2>2, Zenon DEF S
  <1> QED
    BY <1>2, <1>3, Zenon DEF Link

\* The envelope is read and Ok sent, or lost.
LEMMA LinkEnvelope ==
    ASSUME NEW c, NEW i, NEW r, NEW tr, NEW ti, NEW e, NEW msgs,
           Link(c, i, r, tr, ti, e, msgs), r.phase = "bundle", tr # <<>>,
           NEW q, q.phase = "done", q.id = r.id, q.peer = AliceEd, q.secret = Secret(c, r.id),
           NEW to, to = ti \/ to = Append(ti, Ok(HandshakeKey(c)))
    PROVE  Link(c, i, q, Tail(tr), to, e, msgs)
  <1> DEFINE b == Ok(HandshakeKey(c))
             S == Bundles(c, r.id) \cup {b}
  <1>1. /\ ti \in Seq(Bundles(c, r.id)) /\ tr \in Seq({Sent(c)}) /\ Len(tr) <= 1
        /\ i.phase \in {"envelope", "failed"} /\ r.id \in 0..MaxIdentity
    BY Zenon DEF Link
  <1>2. Tail(tr) = <<>>
    BY <1>1, FrameTaken, Zenon
  <1>3. ti \in Seq(S) /\ b \in S
    BY <1>1
  <1>4. to = ti \/ to = Append(ti, b)
    OBVIOUS
  <1>5. to \in Seq(S)
    <2> HIDE DEF S, b
    <2>1. Append(ti, b) \in Seq(S)
      BY <1>3
    <2> QED
      BY <1>3, <1>4, <2>1, ZenonT(60)
  <1>6. <<>> \in Seq(DataOf(msgs))
    OBVIOUS
  <1> QED
    BY <1>1, <1>2, <1>5, <1>6, ZenonT(60) DEF Link

\* More messages have been streamed.
LEMMA LinkMore ==
    ASSUME NEW c, NEW i, NEW r, NEW tr, NEW ti, NEW e, NEW msgs,
           Link(c, i, r, tr, ti, e, msgs), NEW more, msgs \subseteq more
    PROVE  Link(c, i, r, tr, ti, e, more)
  <1>1. DataOf(msgs) \subseteq DataOf(more)
    BY DEF DataOf
  <1>2. tr \in Seq(DataOf(msgs)) => tr \in Seq(DataOf(more))
    BY <1>1
  <1> QED
    BY <1>2, Zenon DEF Link

\* A message is written to the stream, or lost on a broken one.
LEMMA LinkData ==
    ASSUME NEW c, NEW i, NEW r, NEW tr, NEW ti, NEW e, NEW msgs,
           Link(c, i, r, tr, ti, e, msgs), i.phase = "done",
           NEW m \in msgs, NEW to, to = tr \/ to = Append(tr, Data(m))
    PROVE  Link(c, i, r, to, ti, e, msgs)
  <1>1. r.phase = "done" /\ tr \in Seq(DataOf(msgs))
    BY DEF Link
  <1>2. Data(m) \in DataOf(msgs)
    BY DEF DataOf
  <1>3. Append(tr, Data(m)) \in Seq(DataOf(msgs))
    BY <1>1, <1>2
  <1>4. to \in Seq(DataOf(msgs))
    BY <1>1, <1>3, Zenon
  <1> QED
    BY <1>1, <1>4, ZenonT(60) DEF Link

\* A message is read from it.
LEMMA LinkTake ==
    ASSUME NEW c, NEW i, NEW r, NEW tr, NEW ti, NEW e, NEW msgs,
           Link(c, i, r, tr, ti, e, msgs), r.phase = "done", tr # <<>>
    PROVE  Link(c, i, r, Tail(tr), ti, e, msgs) /\ Head(tr).msg \in msgs
  <1>1. tr \in Seq(DataOf(msgs))
    BY Zenon DEF Link
  <1>2. Tail(tr) \in Seq(DataOf(msgs)) /\ Head(tr) \in DataOf(msgs)
    BY <1>1
  <1>3. Head(tr).msg \in msgs
    BY <1>2 DEF DataOf, Data
  <1> QED
    BY <1>2, <1>3, ZenonT(60) DEF Link

\* Every connection but c is left alone.
Elsewhere(c) ==
    \A d \in Conns \ {c} : /\ ini'[d] = ini[d] /\ res'[d] = res[d]
                          /\ toRes'[d] = toRes[d] /\ toIni'[d] = toIni[d]

\* It is enough to look at the connection that the step is about.
LEMMA LinkStep ==
    ASSUME LinkInv, NEW c \in Conns, Typed', Elsewhere(c),
           expected' = expected, Streamed \subseteq Streamed',
           Link(c, ini'[c], res'[c], toRes'[c], toIni'[c], expected, Streamed')
    PROVE  LinkInv'
  <1>1. ASSUME NEW d \in Conns
        PROVE  Link(d, ini'[d], res'[d], toRes'[d], toIni'[d], expected', Streamed')
    <2>1. CASE d = c
      BY <2>1, Zenon
    <2>2. CASE d # c
      <3>1. ini'[d] = ini[d] /\ res'[d] = res[d] /\ toRes'[d] = toRes[d] /\ toIni'[d] = toIni[d]
        BY <2>2, Zenon DEF Elsewhere
      <3>2. Link(d, ini[d], res[d], toRes[d], toIni[d], expected, Streamed)
        BY Zenon DEF LinkInv
      <3>3. Link(d, ini[d], res[d], toRes[d], toIni[d], expected, Streamed')
        BY <3>2, LinkMore, Zenon
      <3> QED
        BY <3>1, <3>3, Zenon
    <2> QED
      BY <2>1, <2>2, Zenon
  <1> QED
    BY <1>1, Zenon DEF LinkInv

\* What follows is about the handshake alone: no message is sent meanwhile.
Quiet == UNCHANGED <<task, relayed>>

\* A step of one connection in which no message is sent or relayed keeps the
\* invariant when it keeps it at that connection.
LEMMA QuietStep ==
    ASSUME LinkInv, Quiet, NEW c \in Conns, Typed', Elsewhere(c), expected' = expected,
           Link(c, ini'[c], res'[c], toRes'[c], toIni'[c], expected, Streamed)
    PROVE  LinkInv'
  <1>1. Streamed' = Streamed
    BY DEF Quiet, Streamed
  <1> QED
    BY <1>1, LinkStep, Zenon

\* An end gives up.
LEMMA StepFails ==
    ASSUME LinkInv, Quiet, NEW c \in Conns, UNCHANGED <<node, toRes, toIni>>,
           \/ ini' = [ini EXCEPT ![c].phase = "failed"] /\ res' = res
           \/ /\ res' = [res EXCEPT ![c].phase = "failed"] /\ ini' = ini
              /\ res[c].phase \in {"listening", "bundle"}
    PROVE  LinkInv'
  <1>1. Link(c, ini[c], res[c], toRes[c], toIni[c], expected, Streamed) /\ Typed
    BY DEF LinkInv
  <1>2. Typed' /\ Elsewhere(c) /\ expected' = expected
    <2> DEFINE i == [ini[c] EXCEPT !.phase = "failed"]
               q == [res[c] EXCEPT !.phase = "failed"]
    <2>1. ini[c] \in Side /\ res[c] \in Side /\ "failed" \in Phases
      BY <1>1, Zenon DEF Typed, Phases
    <2>2. i \in Side
      BY <2>1, Zenon DEF Side
    <2>3. q \in Side
      BY <2>1, Zenon DEF Side
    <2>4. \/ ini' = [ini EXCEPT ![c] = i] /\ res' = res
          \/ res' = [res EXCEPT ![c] = q] /\ ini' = ini
      BY <1>1, Zenon DEF Typed
    <2> HIDE DEF i, q
    <2>5. Typed'
      BY <1>1, <2>2, <2>3, <2>4, ZenonT(60) DEF Typed, node
    <2>6. Elsewhere(c)
      BY <1>1, <2>4, ZenonT(60) DEF Typed, Elsewhere
    <2> QED
      BY <2>5, <2>6, Zenon DEF node
  <1>3. CASE ini' = [ini EXCEPT ![c].phase = "failed"] /\ res' = res
    <2>1. ini'[c].phase = "failed"
      BY <1>1, <1>3 DEF Typed, Side
    <2> QED
      BY <1>1, <1>2, <1>3, <2>1, LinkIniFails, QuietStep, ZenonT(60)
  <1>4. CASE /\ res' = [res EXCEPT ![c].phase = "failed"] /\ ini' = ini
             /\ res[c].phase \in {"listening", "bundle"}
    <2>1. res'[c].phase = "failed" /\ res'[c].id = res[c].id
      BY <1>1, <1>4 DEF Typed, Side
    <2> QED
      BY <1>1, <1>2, <1>4, <2>1, LinkResFails, QuietStep, ZenonT(60)
  <1> QED
    BY <1>3, <1>4, Zenon

\* The dial, the network's doing, and accept.
LEMMA StepOpens ==
    ASSUME LinkInv, Quiet, NEW c \in Conns, Dial(c) \/ Cut(c) \/ Accept(c)
    PROVE  LinkInv'
  <1>1. Link(c, ini[c], res[c], toRes[c], toIni[c], expected, Streamed) /\ Typed
    BY Zenon DEF LinkInv
  <1>2. CASE Dial(c)
    <2>1. PICK v \in Versions : toRes' = [toRes EXCEPT ![c] = <<Hello(v, c)>>]
      BY <1>2, Zenon DEF Dial
    <2>2. /\ ini[c].phase = "idle" /\ ini' = [ini EXCEPT ![c].phase = "hello"]
          /\ UNCHANGED <<node, res, toIni>>
      BY <1>2, Zenon DEF Dial
    <2>3. toRes'[c] = <<Hello(v, c)>> /\ ini'[c].phase = "hello"
      BY <1>1, <2>1, <2>2, ZenonT(60) DEF Typed, Side
    <2>4. Typed' /\ Elsewhere(c) /\ expected' = expected
      BY <1>1, <2>1, <2>2, ZenonT(120) DEF Typed, Elsewhere, Side, Phases, node
    <2>5. Link(c, ini'[c], res'[c], toRes'[c], toIni'[c], expected, Streamed)
      BY <1>1, <2>2, <2>3, LinkDial, ZenonT(60)
    <2> QED
      BY <2>4, <2>5, QuietStep, Zenon
  <1>3. CASE Cut(c)
    <2>1. /\ toRes' = [toRes EXCEPT ![c] = <<>>] /\ toIni' = [toIni EXCEPT ![c] = <<>>]
          /\ UNCHANGED <<node, ini, res>>
      BY <1>3 DEF Cut
    <2>2. toRes'[c] = <<>> /\ toIni'[c] = <<>>
      BY <1>1, <2>1, Zenon DEF Typed
    <2>3. Typed' /\ Elsewhere(c) /\ expected' = expected
      BY <1>1, <2>1, Zenon DEF Typed, Elsewhere, node
    <2>4. Link(c, ini'[c], res'[c], toRes'[c], toIni'[c], expected, Streamed)
      BY <1>1, <2>1, <2>2, LinkCut, ZenonT(120)
    <2> QED
      BY <2>3, <2>4, QuietStep, ZenonT(60)
  <1>4. CASE Accept(c)
    <2>1. /\ res[c].phase = "idle" /\ ini[c].phase # "idle"
          /\ res' = [res EXCEPT ![c].phase = "listening", ![c].id = identity]
          /\ UNCHANGED <<node, ini, toRes, toIni>>
      BY <1>4, Zenon DEF Accept, tcp
    <2>2. /\ res'[c].phase = "listening" /\ res'[c].id = identity /\ identity \in 0..MaxIdentity
      BY <1>1, <2>1, ZenonT(60) DEF Typed, Side
    <2>3. Typed' /\ Elsewhere(c) /\ expected' = expected
      <3> DEFINE q == [res[c] EXCEPT !.phase = "listening", !.id = identity]
      <3>1. q \in Side
        BY <1>1, <2>2, ZenonT(60) DEF Typed, Side, Phases, Ids
      <3>2. res' = [res EXCEPT ![c] = q]
        BY <1>1, <2>1, Zenon DEF Typed
      <3> HIDE DEF q
      <3> QED
        BY <1>1, <2>1, <3>1, <3>2, ZenonT(120) DEF Typed, Elsewhere, node
    <2>4. Link(c, ini'[c], res'[c], toRes'[c], toIni'[c], expected, Streamed)
      BY <1>1, <2>1, <2>2, LinkAccept, ZenonT(60)
    <2> QED
      BY <2>3, <2>4, QuietStep, ZenonT(60)
  <1> QED
    BY <1>2, <1>3, <1>4, Zenon

\* Hello is answered with the bundle.
LEMMA StepHello ==
    ASSUME LinkInv, Quiet, NEW c \in Conns, RecvHello(c)
    PROVE  LinkInv'
  <1> DEFINE r == res[c]
             tr == toRes[c]
             q == [r EXCEPT !.phase = "bundle"]
             b == Bundle(HandshakeKey(c), r.id)
             to == Written(toIni, c, "ini", b)
  <1>1. Link(c, ini[c], r, tr, toIni[c], expected, Streamed) /\ Typed /\ r \in Side
    BY DEF LinkInv, Typed
  <1>2. /\ r.phase = "listening" /\ tr # <<>> /\ toRes' = [toRes EXCEPT ![c] = Tail(tr)]
        /\ res' = [res EXCEPT ![c].phase = "bundle"] /\ UNCHANGED <<node, ini>>
    BY Zenon DEF RecvHello
  <1>3. Head(tr).eph = Eph("ini", c)
    <2>1. tr \in Seq(Hellos(c))
      BY <1>1, <1>2, ZenonT(60) DEF Link
    <2>2. Head(tr) \in Hellos(c)
      BY <1>2, <2>1, FrameTaken, Zenon
    <2> QED
      BY <2>2 DEF Hellos, Hello
  <1>4. toIni' = to
    BY <1>3, Zenon DEF RecvHello, HandshakeKey
  <1>5. /\ DOMAIN to = Conns /\ \A d \in Conns \ {c} : to[d] = toIni[d]
        /\ to[c] = toIni[c] \/ to[c] = Append(toIni[c], b)
    <2>1. DOMAIN toIni = Conns /\ to = Written(toIni, c, "ini", b)
      BY <1>1, Zenon DEF Typed
    <2> HIDE DEF to, b
    <2> QED
      BY <2>1, Zenon DEF Written
  <1>6. q \in Side /\ q.phase = "bundle" /\ q.id = r.id /\ res' = [res EXCEPT ![c] = q]
    BY <1>1, <1>2, ZenonT(60) DEF Side, Phases, Typed
  <1> HIDE DEF to, q, r, tr, b
  <1>7. res'[c] = q /\ toRes'[c] = Tail(tr) /\ toIni'[c] = to[c] /\ ini'[c] = ini[c]
    <2>1. DOMAIN res = Conns /\ DOMAIN toRes = Conns
      BY <1>1, Zenon DEF Typed
    <2> QED
      BY <1>2, <1>4, <1>6, <2>1, ZenonT(60) DEF node
  <1>8. Typed' /\ Elsewhere(c) /\ expected' = expected
    BY <1>1, <1>2, <1>4, <1>5, <1>6, ZenonT(60) DEF Typed, Elsewhere, node
  <1>9. Link(c, ini[c], q, Tail(tr), to[c], expected, Streamed)
    BY <1>1, <1>2, <1>5, <1>6, LinkHello, ZenonT(60) DEF b
  <1> QED
    BY <1>7, <1>8, <1>9, QuietStep, ZenonT(60)

\* The bundle is answered with the envelope, and the secret derived.
LEMMA StepBundle ==
    ASSUME LinkInv, Quiet, NEW c \in Conns, RecvBundle(c)
    PROVE  LinkInv'
  <1> DEFINE i == ini[c]
             r == res[c]
             ti == toIni[c]
             m == Head(ti)
             s == Secret(c, r.id)
             j == [i EXCEPT !.phase = "envelope", !.peer = Ed(r.id), !.secret = s]
             to == Written(toRes, c, "res", Sent(c))
  <1>1. Link(c, i, r, toRes[c], ti, expected, Streamed) /\ Typed /\ i \in Side /\ r \in Side
    BY ZenonT(60) DEF LinkInv, Typed
  <1>2. /\ i.phase = "hello" /\ ti # <<>> /\ BundleAccepted(m, c)
        /\ toIni' = [toIni EXCEPT ![c] = Tail(ti)] /\ UNCHANGED <<node, res>>
    BY DEF RecvBundle
  <1>3. m = Bundle(HandshakeKey(c), r.id) /\ r.id \in 0..MaxIdentity
    <2>1. ti \in Seq(Bundles(c, r.id)) /\ r.id \in 0..MaxIdentity
      BY <1>1, <1>2, Zenon DEF Link
    <2>2. m \in Bundles(c, r.id)
      BY <1>2, <2>1, FrameTaken, ZenonT(60)
    <2> QED
      BY <2>1, <2>2, Zenon DEF Bundles
  <1>4. m.bundle = NodeBundle /\ m.x = Xk(r.id) /\ m.ed = Ed(r.id) /\ m.dev = "devR"
    BY <1>3 DEF Bundle
  <1>5. PqKey # None /\ Ed(r.id) = expected
    BY <1>2, <1>4, NodeBundleFields, Zenon DEF BundleAccepted, FromBytes
  <1>6. Encaps(m.bundle.pq_signed_prekey, Eph("ini", c)) = Ciphertext(c)
    BY <1>4, NodeBundleFields, Zenon DEF Ciphertext
  <1>7. X3dhInitiator(AliceX, Eph("ini", c), m.x, m.bundle.signed_prekey, m.bundle.onetime_prekey,
                      Encaps(m.bundle.pq_signed_prekey, Eph("ini", c)), "devI", m.dev,
                      Transcript(AliceEd, c, m.ed, m.bundle, "devI", m.dev)) = s
    BY <1>4, <1>5, <1>6, NodeBundleFields, SecretsMatch, ZenonT(60)
  <1>8. /\ toRes' = to
        /\ ini' = [ini EXCEPT ![c].phase = "envelope", ![c].peer = Ed(r.id), ![c].secret = s]
    BY <1>4, <1>6, <1>7, Zenon DEF RecvBundle, Sent
  <1>9. /\ DOMAIN to = Conns /\ \A d \in Conns \ {c} : to[d] = toRes[d]
        /\ to[c] = toRes[c] \/ to[c] = Append(toRes[c], Sent(c))
    <2>1. DOMAIN toRes = Conns /\ to = Written(toRes, c, "res", Sent(c))
      BY <1>1, Zenon DEF Typed
    <2> HIDE DEF to
    <2> QED
      BY <2>1, Zenon DEF Written
  <1>10. Ed(r.id) \in Names /\ s \in Secrets
    BY <1>3 DEF Names, Secrets
  <1> HIDE DEF m, s, to
  <1>11. /\ j \in Side /\ j.phase = "envelope" /\ j.peer = Ed(r.id) /\ j.secret = s
         /\ ini' = [ini EXCEPT ![c] = j]
    <2> DEFINE e == Ed(r.id)
    <2>1. e \in Names /\ ini' = [ini EXCEPT ![c].phase = "envelope", ![c].peer = e, ![c].secret = s]
      BY <1>8, <1>10, ZenonT(60)
    <2> HIDE DEF e
    <2>2. j = [i EXCEPT !.phase = "envelope", !.peer = e, !.secret = s]
      BY DEF e
    <2>3. j \in Side /\ j.phase = "envelope" /\ j.peer = e /\ j.secret = s
      BY <1>1, <1>10, <2>1, <2>2, ZenonT(60) DEF Side, Phases
    <2>4. ini' = [ini EXCEPT ![c] = j]
      BY <1>1, <2>1, <2>2, Zenon DEF Typed
    <2> QED
      BY <2>3, <2>4, ZenonT(60) DEF e
  <1> HIDE DEF j, i, r, ti
  <1>12. ini'[c] = j /\ toRes'[c] = to[c] /\ toIni'[c] = Tail(ti) /\ res'[c] = r
    BY <1>1, <1>2, <1>8, <1>11, ZenonT(60) DEF Typed, r
  <1>13. Typed' /\ Elsewhere(c) /\ expected' = expected
    <2>1. /\ toRes' = to /\ ini' = [ini EXCEPT ![c] = j] /\ j \in Side
          /\ toIni' = [toIni EXCEPT ![c] = Tail(ti)] /\ UNCHANGED <<node, res>>
      BY <1>2, <1>8, <1>11, Zenon
    <2>2. Typed'
      BY <1>1, <1>9, <2>1, ZenonT(60) DEF Typed, node
    <2>3. Elsewhere(c)
      BY <1>1, <1>9, <2>1, Zenon DEF Typed, Elsewhere
    <2> QED
      BY <2>1, <2>2, <2>3, ZenonT(60) DEF node
  <1>14. Link(c, j, r, to[c], Tail(ti), expected, Streamed)
    BY <1>1, <1>2, <1>5, <1>9, <1>11, LinkBundle, ZenonT(60) DEF s
  <1> QED
    BY <1>12, <1>13, <1>14, QuietStep, ZenonT(60)

\* Ok ends the initiator's handshake.
LEMMA StepOk ==
    ASSUME LinkInv, Quiet, NEW c \in Conns, RecvOk(c)
    PROVE  LinkInv'
  <1> DEFINE i == ini[c]
             ti == toIni[c]
             j == [i EXCEPT !.phase = "done"]
  <1>1. Link(c, i, res[c], toRes[c], ti, expected, Streamed) /\ Typed /\ i \in Side
    BY Zenon DEF LinkInv, Typed
  <1>2. /\ i.phase = "envelope" /\ ti # <<>> /\ Head(ti).type = "Ok"
        /\ toIni' = [toIni EXCEPT ![c] = Tail(ti)] /\ ini' = [ini EXCEPT ![c].phase = "done"]
        /\ UNCHANGED <<node, res, toRes>>
    BY DEF RecvOk
  <1>3. /\ j \in Side /\ j.phase = "done" /\ j.peer = i.peer /\ j.secret = i.secret
        /\ ini' = [ini EXCEPT ![c] = j]
    BY <1>1, <1>2, Zenon DEF Side, Phases, Typed
  <1> HIDE DEF i, j, ti
  <1>4. /\ ini'[c] = j /\ toIni'[c] = Tail(ti) /\ toRes'[c] = toRes[c] /\ res'[c] = res[c]
    BY <1>1, <1>2, <1>3, ZenonT(60) DEF Typed
  <1>5. Typed' /\ Elsewhere(c) /\ expected' = expected
    BY <1>1, <1>2, <1>3, ZenonT(60) DEF Typed, Elsewhere, node
  <1>6. Link(c, j, res[c], toRes[c], Tail(ti), expected, Streamed)
    BY <1>1, <1>2, <1>3, LinkOk, Zenon
  <1> QED
    BY <1>4, <1>5, <1>6, QuietStep, ZenonT(60)

\* The envelope is answered with Ok, and the secret derived.
LEMMA StepEnvelope ==
    ASSUME LinkInv, Quiet, NEW c \in Conns, RecvEnvelope(c)
    PROVE  LinkInv'
  <1> DEFINE r == res[c]
             tr == toRes[c]
             m == Head(tr)
             s == Secret(c, r.id)
             q == [r EXCEPT !.phase = "done", !.peer = AliceEd, !.secret = s]
             to == Written(toIni, c, "ini", Ok(HandshakeKey(c)))
  <1>1. Link(c, ini[c], r, tr, toIni[c], expected, Streamed) /\ Typed /\ r \in Side
    BY Zenon DEF LinkInv, Typed
  <1>2. /\ r.phase = "bundle" /\ tr # <<>> /\ toRes' = [toRes EXCEPT ![c] = Tail(tr)]
        /\ toIni' = to /\ UNCHANGED <<node, ini>>
    BY Zenon DEF RecvEnvelope
  <1>3. m = Sent(c) /\ r.id \in 0..MaxIdentity
    <2>1. tr \in Seq({Sent(c)}) /\ r.id \in 0..MaxIdentity
      BY <1>1, <1>2, Zenon DEF Link
    <2>2. m \in {Sent(c)}
      BY <1>2, <2>1, FrameTaken, ZenonT(60)
    <2> QED
      BY <2>1, <2>2, Zenon
  <1>4. m.ed = AliceEd /\ m.x = AliceX /\ m.ct = Ciphertext(c)
    BY <1>3 DEF Sent, Envelope
  <1>5. res' = [res EXCEPT ![c].phase = "done", ![c].peer = AliceEd, ![c].secret = s]
    BY <1>4, Zenon DEF RecvEnvelope, Secret
  <1>6. AliceEd \in Names /\ s \in Secrets
    BY <1>3 DEF Names, Secrets
  <1> HIDE DEF m, s
  <1>7. /\ q \in Side /\ q.phase = "done" /\ q.id = r.id /\ q.peer = AliceEd /\ q.secret = s
        /\ res' = [res EXCEPT ![c] = q]
    <2> DEFINE e == AliceEd
    <2>1. e \in Names /\ res' = [res EXCEPT ![c].phase = "done", ![c].peer = e, ![c].secret = s]
      BY <1>5, <1>6, Zenon
    <2> HIDE DEF e
    <2>2. q = [r EXCEPT !.phase = "done", !.peer = e, !.secret = s]
      BY DEF e
    <2>3. q \in Side /\ q.phase = "done" /\ q.id = r.id /\ q.peer = e /\ q.secret = s
      BY <1>1, <1>6, <2>1, <2>2, Zenon DEF Side, Phases
    <2>4. res' = [res EXCEPT ![c] = q]
      BY <1>1, <2>1, <2>2, Zenon DEF Typed
    <2> QED
      BY <2>3, <2>4, ZenonT(60) DEF e
  <1>8. /\ DOMAIN to = Conns /\ \A d \in Conns \ {c} : to[d] = toIni[d]
        /\ to[c] = toIni[c] \/ to[c] = Append(toIni[c], Ok(HandshakeKey(c)))
    <2>1. DOMAIN toIni = Conns /\ to = Written(toIni, c, "ini", Ok(HandshakeKey(c)))
      BY <1>1, Zenon DEF Typed
    <2> HIDE DEF to
    <2> QED
      BY <2>1, Zenon DEF Written
  <1> HIDE DEF r, tr, q, to
  <1>9. res'[c] = q /\ toRes'[c] = Tail(tr) /\ toIni'[c] = to[c] /\ ini'[c] = ini[c]
    <2>1. DOMAIN res = Conns /\ DOMAIN toRes = Conns
      BY <1>1, Zenon DEF Typed
    <2> QED
      BY <1>2, <1>7, <2>1, ZenonT(60) DEF node
  <1>10. Typed' /\ Elsewhere(c) /\ expected' = expected
    <2>1. res' = [res EXCEPT ![c] = q] /\ q \in Side
      BY <1>7
    <2>2. Typed'
      BY <1>1, <1>2, <1>8, <2>1, ZenonT(60) DEF Typed, node
    <2>3. Elsewhere(c)
      BY <1>1, <1>2, <1>8, <2>1, ZenonT(60) DEF Typed, Elsewhere
    <2> QED
      BY <1>2, <2>2, <2>3, ZenonT(60) DEF node
  <1>11. Link(c, ini[c], q, Tail(tr), to[c], expected, Streamed)
    BY <1>1, <1>2, <1>7, <1>8, LinkEnvelope, ZenonT(60) DEF s
  <1> QED
    BY <1>9, <1>10, <1>11, QuietStep, Zenon

\* Every step of a handshake.
LEMMA LinkHandshake ==
    ASSUME LinkInv, Quiet,
           \/ GenerateIdentity \/ Expire
           \/ \E c \in Conns : \/ Dial(c) \/ DialFails(c) \/ Cut(c)
                               \/ Accept(c) \/ IniStep(c) \/ ResStep(c)
    PROVE  LinkInv'
  <1>1. CASE GenerateIdentity \/ Expire
    <2>1. /\ UNCHANGED <<expected, ini, res, toRes, toIni>>
          /\ \/ identity' = identity
             \/ identity' = identity + 1 /\ identity < MaxIdentity
      BY <1>1, ZenonT(60) DEF GenerateIdentity, Expire, tcp
    <2>2. identity' \in 0..MaxIdentity
      <3>1. identity \in 0..MaxIdentity
        BY Zenon DEF LinkInv, Typed
      <3> QED
        BY <2>1, <3>1, BundleLifeAssumption
    <2>3. Streamed' = Streamed
      BY Zenon DEF Quiet, Streamed
    <2> QED
      BY <2>1, <2>2, <2>3, ZenonT(60) DEF LinkInv, Typed
  <1>2. ASSUME NEW c \in Conns, Dial(c) \/ Cut(c) \/ Accept(c) PROVE LinkInv'
    BY <1>2, StepOpens, Zenon
  <1>3. ASSUME NEW c \in Conns,
               DialFails(c) \/ RefuseBundle(c) \/ IniDisconnected(c) \/ IniTimeout(c)
        PROVE  LinkInv'
    BY <1>3, StepFails, Zenon DEF DialFails, RefuseBundle, IniDisconnected, IniTimeout, IniFail
  <1>4. ASSUME NEW c \in Conns, RefuseHello(c) \/ ResDisconnected(c) \/ ResTimeout(c)
        PROVE  LinkInv'
    BY <1>4, StepFails, Zenon DEF RefuseHello, ResDisconnected, ResTimeout, ResFail
  <1> QED
    BY <1>1, <1>2, <1>3, <1>4, StepHello, StepBundle, StepOk, StepEnvelope, ZenonT(60) DEF IniStep, ResStep

-----------------------------------------------------------------------------
(* The path of a message *)

\* Steps that write and read nothing, or write where nobody reads.
LEMMA LinkSame ==
    ASSUME LinkInv, Typed', expected' = expected, Streamed \subseteq Streamed',
           \A d \in Conns : /\ ini'[d] = ini[d] /\ res'[d] = res[d]
                            /\ toRes'[d] = toRes[d] /\ toIni'[d] = toIni[d]
    PROVE  LinkInv'
  <1>1. ASSUME NEW d \in Conns
        PROVE  Link(d, ini'[d], res'[d], toRes'[d], toIni'[d], expected', Streamed')
    <2>1. ini'[d] = ini[d] /\ res'[d] = res[d] /\ toRes'[d] = toRes[d] /\ toIni'[d] = toIni[d]
      BY Zenon
    <2>2. Link(d, ini[d], res[d], toRes[d], toIni[d], expected, Streamed')
      BY LinkMore, Zenon DEF LinkInv
    <2> QED
      BY <2>1, <2>2, Zenon
  <1> QED
    BY <1>1, Zenon DEF LinkInv

\* A handshake that is done stays done.
DoneStays ==
    \A c \in Conns : /\ ini[c].phase = "done" => ini'[c].phase = "done"
                     /\ res[c].phase = "done" => res'[c].phase = "done"

\* No step of the handshakes or of the dialling leaves the phase "done".
LEMMA HandshakeDone ==
    ASSUME Typed,
           \/ GenerateIdentity \/ Expire
           \/ \E c \in Conns : \/ Dial(c) \/ DialFails(c) \/ Cut(c)
                               \/ Accept(c) \/ IniStep(c) \/ ResStep(c)
    PROVE  DoneStays
  <1>1. CASE GenerateIdentity \/ Expire
    BY <1>1 DEF GenerateIdentity, Expire, DoneStays
  <1>2. ASSUME NEW c \in Conns, Dial(c) \/ DialFails(c) \/ Cut(c) \/ Accept(c)
        PROVE  DoneStays
    <2>1. \/ UNCHANGED ini
          \/ ini[c].phase = "idle" /\ \E f : ini' = [ini EXCEPT ![c].phase = f]
      BY <1>2, Zenon DEF Dial, DialFails, IniFail, Cut, Accept
    <2>2. \/ UNCHANGED res
          \/ res[c].phase = "idle"
             /\ res' = [res EXCEPT ![c].phase = "listening", ![c].id = identity]
      BY <1>2, Zenon DEF Dial, DialFails, Cut, Accept
    <2> QED
      BY <2>1, <2>2, Zenon DEF DoneStays, Typed
  <1>3. ASSUME NEW c \in Conns, IniStep(c) PROVE DoneStays
    <2>1. /\ UNCHANGED res /\ ini[c].phase \in {"hello", "envelope"}
          /\ \E q : ini' = [ini EXCEPT ![c] = q]
      BY <1>3, Zenon DEF IniStep, RecvBundle, RefuseBundle, RecvOk, IniDisconnected, IniTimeout, IniFail
    <2> QED
      BY <2>1, Zenon DEF DoneStays, Typed
  <1>4. ASSUME NEW c \in Conns, ResStep(c) PROVE DoneStays
    <2>1. /\ UNCHANGED ini /\ res[c].phase \in {"listening", "bundle"}
          /\ \E q : res' = [res EXCEPT ![c] = q]
      BY <1>4, ZenonT(120)
      DEF ResStep, RecvHello, RefuseHello, RecvEnvelope, ResDisconnected, ResTimeout, ResFail
    <2> QED
      BY <2>1, Zenon DEF DoneStays, Typed
  <1> QED
    BY <1>1, <1>2, <1>3, <1>4, ZenonT(60)

\* Whatever does not touch messages and streams leaves PathInv as it is.
LEMMA PathKeeps ==
    ASSUME PathInv, DoneStays, UNCHANGED <<task, relayed, got, lockq, active>>
    PROVE  PathInv'
  <1>1. Streamed' = Streamed
    BY DEF Streamed
  <1> QED
    BY <1>1, ZenonT(60) DEF PathInv, DoneStays

\* The steps of the handshakes and of the dialling keep both invariants.
LEMMA HandshakeInv ==
    ASSUME LinkInv, PathInv, UNCHANGED <<task, relayed, got, lockq, active>>,
           \/ GenerateIdentity \/ Expire
           \/ \E c \in Conns : \/ Dial(c) \/ DialFails(c) \/ Cut(c)
                               \/ Accept(c) \/ IniStep(c) \/ ResStep(c)
    PROVE  LinkInv' /\ PathInv'
  <1>1. Typed /\ Quiet
    BY Zenon DEF LinkInv, Quiet
  <1>2. LinkInv'
    BY <1>1, LinkHandshake, Zenon
  <1>3. DoneStays
    BY <1>1, HandshakeDone, Zenon
  <1> QED
    BY <1>2, <1>3, PathKeeps

\* A step that is neither a handshake's nor a message's.
LEMMA LinkIdle ==
    ASSUME LinkInv, UNCHANGED <<ini, res, toRes, toIni, expected, identity>>,
           Streamed \subseteq Streamed'
    PROVE  LinkInv'
  <1>1. Typed'
    BY Zenon DEF LinkInv, Typed
  <1> QED
    BY <1>1, LinkSame, Zenon

\* A task of send_message goes on without touching a stream.
LEMMA PathTask ==
    ASSUME LinkInv, PathInv, NEW m \in Msgs, task[m].pc \notin {"ok", "err"},
           NEW pc, NEW d, task' = [task EXCEPT ![m] = Task(pc, d)],
           relayed' = relayed \/ (relayed' = relayed \cup {m} /\ pc \in {"ok", "err"}),
           pc = "stream" /\ d \in Conns => ini[d].phase = "done",
           UNCHANGED <<ini, res, got, lockq, active>>
    PROVE  PathInv' /\ Streamed \subseteq Streamed'
  <1>1. /\ DOMAIN task' = Msgs /\ task'[m].pc = pc /\ task'[m].conn = d
        /\ \A n \in Msgs \ {m} : task'[n] = task[n]
    BY Zenon DEF PathInv, Task
  <1>2. m \notin Streamed /\ m \notin relayed
    BY Zenon DEF PathInv, Streamed
  <1>3. Streamed \subseteq Streamed'
    BY <1>1, <1>2, ZenonT(60) DEF Streamed
  <1>4. relayed' \subseteq {n \in Msgs : task'[n].pc \in {"ok", "err"}}
    BY <1>1, <1>2, ZenonT(60) DEF PathInv
  <1>5. \A c \in Conns : /\ got'[c] \subseteq Streamed'
                         /\ got'[c] # {} \/ lockq'[c] # <<>> => res'[c].phase = "done"
    BY <1>3, Zenon DEF PathInv
  <1>6. \A n \in Msgs : task'[n].pc = "stream" /\ task'[n].conn \in Conns =>
            ini'[task'[n].conn].phase = "done"
    BY <1>1, ZenonT(60) DEF PathInv
  <1> QED
    BY <1>1, <1>3, <1>4, <1>5, <1>6, ZenonT(60) DEF PathInv

\* send_message picks a stream that the table has.
LEMMA StepSend ==
    ASSUME LinkInv, PathInv, NEW m \in Msgs, SendMessage(m)
    PROVE  LinkInv' /\ PathInv'
  <1>1. Recipient \in PeerIds
    <2>1. 0 \in 0..MaxIdentity
      BY BundleLifeAssumption
    <2> QED
      BY <2>1, ZenonT(60) DEF Recipient, PeerIds
  <1>2. PICK pc, d :
          /\ task' = [task EXCEPT ![m] = Task(pc, d)]
          /\ pc \in {"err", "relay"} \/ d = active[Recipient]
    <2>1. CASE task' = [task EXCEPT ![m] = Task("err", None)]
      BY <2>1, ZenonT(60)
    <2>2. CASE task' = [task EXCEPT ![m] = Task("relay", None)]
      BY <2>2, Zenon
    <2>3. CASE task' = [task EXCEPT ![m] = Task("stream", active[Recipient])]
      BY <2>3, Zenon
    <2> QED
      BY <2>1, <2>2, <2>3, ZenonT(60) DEF SendMessage
  <1>3. pc = "stream" /\ d \in Conns => ini[d].phase = "done"
    BY <1>1, <1>2, Zenon DEF PathInv
  <1>4. /\ task[m].pc = "idle" /\ relayed' = relayed
        /\ UNCHANGED <<ini, res, got, lockq, active, toRes, toIni, expected, identity>>
    BY Zenon DEF SendMessage, handshake, node, tcp, peer
  <1>5. PathInv' /\ Streamed \subseteq Streamed'
    BY <1>2, <1>3, <1>4, PathTask, ZenonT(60)
  <1> QED
    BY <1>4, <1>5, LinkIdle, ZenonT(60)

\* The stream is written to.  The message was not relayed before.
LEMMA StepWrite ==
    ASSUME LinkInv, PathInv, NEW m \in Msgs, StreamWrite(m)
    PROVE  LinkInv' /\ PathInv'
  <1> DEFINE c == task[m].conn
  <1>1. /\ task[m].pc = "stream" /\ task' = [task EXCEPT ![m] = Task("ok", c)]
        /\ toRes' = Written(toRes, c, "res", Data(m)) /\ relayed' = relayed
        /\ UNCHANGED <<ini, res, got, lockq, active, toIni, expected, identity>>
    BY DEF StreamWrite, Data, node, peer
  <1> HIDE DEF c
  <1>2. PathInv' /\ Streamed \subseteq Streamed'
    BY <1>1, PathTask, ZenonT(60)
  <1>3. m \in Streamed'
    <2>1. m \notin relayed /\ task'[m].pc = "ok"
      BY <1>1, ZenonT(60) DEF PathInv, Task
    <2> QED
      BY <1>1, <2>1, Zenon DEF Streamed
  <1>4. Typed
    BY Zenon DEF LinkInv
  <1>5. CASE c \in Conns
    <2>1. /\ DOMAIN toRes' = Conns /\ \A d \in Conns \ {c} : toRes'[d] = toRes[d]
          /\ toRes'[c] = toRes[c] \/ toRes'[c] = Append(toRes[c], Data(m))
      <3>1. DOMAIN toRes = Conns
        BY <1>4, ZenonT(60) DEF Typed
      <3> QED
        BY <1>1, <1>5, <3>1, ZenonT(60) DEF Written
    <2>2. Typed' /\ Elsewhere(c)
      BY <1>1, <1>4, <2>1, ZenonT(60) DEF Typed, Elsewhere
    <2>3. ini[c].phase = "done"
      BY <1>1, <1>5, ZenonT(60) DEF PathInv, c
    <2>4. Link(c, ini[c], res[c], toRes[c], toIni[c], expected, Streamed')
      BY <1>2, <1>5, LinkMore, ZenonT(60) DEF LinkInv
    <2>5. Link(c, ini[c], res[c], toRes'[c], toIni[c], expected, Streamed')
      BY <1>3, <2>1, <2>3, <2>4, LinkData, ZenonT(60)
    <2> QED
      BY <1>1, <1>2, <1>5, <2>2, <2>5, LinkStep, ZenonT(60)
  <1>6. CASE c \notin Conns
    <2>1. DOMAIN toRes' = Conns /\ \A d \in Conns : toRes'[d] = toRes[d]
      BY <1>1, <1>4, <1>6, ZenonT(60) DEF Typed, Written
    <2>2. Typed'
      BY <1>1, <1>4, <2>1, ZenonT(60) DEF Typed
    <2> QED
      BY <1>1, <1>2, <2>1, <2>2, LinkSame, ZenonT(60)
  <1> QED
    BY <1>2, <1>5, <1>6, ZenonT(60)

\* The fallback: the stream failed, and the relay takes the message or not.
LEMMA StepRelay ==
    ASSUME LinkInv, PathInv, NEW m \in Msgs, StreamFails(m) \/ RelayRefused(m) \/ RelayTakes(m)
    PROVE  LinkInv' /\ PathInv'
  <1>1. PICK pc, d :
          /\ task' = [task EXCEPT ![m] = Task(pc, d)] /\ pc # "stream"
          /\ relayed' = relayed \/ (relayed' = relayed \cup {m} /\ pc \in {"ok", "err"})
    <2>1. CASE StreamFails(m)
      BY <2>1, Zenon DEF StreamFails
    <2>2. CASE RelayRefused(m)
      BY <2>2, Zenon DEF RelayRefused
    <2>3. CASE RelayTakes(m)
      <3>1. PICK p \in {"ok", "err"} : task' = [task EXCEPT ![m] = Task(p, None)]
        BY <2>3, Zenon DEF RelayTakes
      <3>2. relayed' = relayed \cup {m}
        BY <2>3, ZenonT(60) DEF RelayTakes
      <3> QED
        BY <3>1, <3>2, Zenon
    <2> QED
      BY <2>1, <2>2, <2>3, ZenonT(60)
  <1>2. /\ task[m].pc \notin {"ok", "err"}
        /\ UNCHANGED <<ini, res, got, lockq, active, toRes, toIni, expected, identity>>
    BY DEF StreamFails, RelayRefused, RelayTakes, handshake, node, tcp, peer
  <1>3. PathInv' /\ Streamed \subseteq Streamed'
    BY <1>1, <1>2, PathTask, ZenonT(60)
  <1> QED
    BY <1>2, <1>3, LinkIdle, Zenon

\* What the discovery loop enters into the table is a finished handshake, what
\* add_p2p_peer enters is no connection of this router's.
LEMMA StepEnter ==
    ASSUME LinkInv, PathInv, InsertPeer \/ \E c \in Conns : Connected(c)
    PROVE  LinkInv' /\ PathInv'
  <1>1. UNCHANGED <<ini, res, got, lockq, task, relayed, toRes, toIni, expected, identity>>
    BY Zenon DEF InsertPeer, Connected, handshake, node, tcp, peer
  <1>2. /\ DOMAIN active' = PeerIds
        /\ \A p \in PeerIds : active'[p] \in Conns => ini[active'[p]].phase = "done"
    <2>1. CASE InsertPeer
      <3>1. active' = [active EXCEPT ![adder.id] = "accepted"] /\ "accepted" \notin Conns
        BY <2>1, RouterAssumption, ZenonT(60) DEF InsertPeer
      <3> QED
        BY <3>1 DEF PathInv
    <2>2. ASSUME NEW c \in Conns, Connected(c)
          PROVE  /\ DOMAIN active' = PeerIds
                 /\ \A p \in PeerIds : active'[p] \in Conns => ini[active'[p]].phase = "done"
      <3>1. active' \in {active, [active EXCEPT ![ini[c].peer] = c]} /\ ini[c].phase = "done"
        BY <2>2, Zenon DEF Connected
      <3> QED
        BY <3>1, Zenon DEF PathInv
    <2> QED
      BY <2>1, <2>2, ZenonT(60)
  <1>3. Streamed' = Streamed
    BY <1>1, Zenon DEF Streamed
  <1>4. PathInv'
    BY <1>1, <1>2, <1>3, ZenonT(60) DEF PathInv
  <1> QED
    BY <1>1, <1>3, <1>4, LinkIdle, ZenonT(60)

\* The responder's application takes a frame off the stream.
LEMMA StepTake ==
    ASSUME LinkInv, PathInv, NEW c \in Conns, RecvMessage(c)
    PROVE  LinkInv' /\ PathInv'
  <1> DEFINE tr == toRes[c]
  <1>1. /\ lockq[c] # <<>> /\ tr # <<>> /\ toRes' = [toRes EXCEPT ![c] = Tail(tr)]
        /\ got' = [got EXCEPT ![c] = got[c] \cup {Head(tr).msg}]
        /\ lockq' = [lockq EXCEPT ![c] = Tail(lockq[c])]
        /\ UNCHANGED <<ini, res, toIni, expected, identity, task, relayed, active>>
    BY Zenon DEF RecvMessage, node, router
  <1>2. res[c].phase = "done" /\ Streamed' = Streamed
    BY <1>1, ZenonT(60) DEF PathInv, Streamed
  <1>3. Link(c, ini[c], res[c], tr, toIni[c], expected, Streamed) /\ Typed
    BY Zenon DEF LinkInv
  <1> HIDE DEF tr
  <1>4. Link(c, ini[c], res[c], Tail(tr), toIni[c], expected, Streamed) /\ Head(tr).msg \in Streamed
    BY <1>1, <1>2, <1>3, LinkTake, ZenonT(60)
  <1>5. toRes'[c] = Tail(tr) /\ Typed' /\ Elsewhere(c)
    BY <1>1, <1>3, Zenon DEF Typed, Elsewhere
  <1>6. LinkInv'
    BY <1>1, <1>2, <1>4, <1>5, LinkStep, ZenonT(60)
  <1>7. /\ DOMAIN got' = Conns /\ DOMAIN lockq' = Conns
        /\ \A d \in Conns : got'[d] \subseteq Streamed
        /\ \A d \in Conns \ {c} : got'[d] = got[d] /\ lockq'[d] = lockq[d]
    BY <1>1, <1>4, Zenon DEF PathInv
  <1>8. PathInv'
    BY <1>1, <1>2, <1>7, ZenonT(60) DEF PathInv
  <1> QED
    BY <1>6, <1>8, ZenonT(60)

\* The mutex of a responder's Peer is for a Peer that exists.
LEMMA StepQueue ==
    ASSUME LinkInv, PathInv, NEW c \in Conns,
           \/ RecvCall(c) \/ RecvDisconnected(c) \/ ReplyWrite(c)
           \/ \E m \in Msgs : Reply(c, m)
    PROVE  LinkInv' /\ PathInv'
  <1>1. UNCHANGED <<ini, res, got, active, task, relayed, toRes, toIni, expected, identity>>
    BY Zenon DEF RecvCall, RecvDisconnected, ReplyWrite, Reply, handshake, node, tcp, router
  <1>2. res[c].phase = "done"
    BY Zenon DEF RecvCall, RecvDisconnected, ReplyWrite, Reply, PathInv
  <1>3. \E q : lockq' = [lockq EXCEPT ![c] = q]
    BY Zenon DEF RecvCall, RecvDisconnected, ReplyWrite, Reply
  <1>4. DOMAIN lockq' = Conns /\ \A d \in Conns \ {c} : lockq'[d] = lockq[d]
    BY <1>3, Zenon DEF PathInv
  <1>5. Streamed' = Streamed
    BY <1>1, Zenon DEF Streamed
  <1>6. PathInv'
    BY <1>1, <1>2, <1>4, <1>5, ZenonT(60) DEF PathInv
  <1> QED
    BY <1>1, <1>5, <1>6, LinkIdle, ZenonT(60)

\* Messages are what send_message was given.
MsgsInv == usage.msgs \subseteq Msgs

\* No message has been given to send_message at first.
LEMMA MsgsInit == Init => MsgsInv
  BY RouterAssumption, Zenon DEF Init, MsgsInv

\* Only send_message adds messages.
LEMMA MsgsNext == MsgsInv /\ [Next]_vars => MsgsInv'
  BY ZenonT(60) DEF MsgsInv, Next, Handshaking, Routing, Answering, vars, router, StopDiscovery,
         TakeStop, InsertPeer, TakePeer, Connect, ConnectFailed, Connected, AddPeer, SendMessage, StreamWrite, StreamFails,
         RelayRefused, RelayTakes, RecvCall, RecvMessage, RecvDisconnected, ReplyWrite, Reply

\* At first every connection is idle and every stream empty.
LEMMA LinkInit == Init => LinkInv /\ PathInv
  <1> SUFFICES ASSUME Init PROVE LinkInv /\ PathInv
    BY Zenon
  <1>1. /\ ini = [c \in Conns |-> Started] /\ res = [c \in Conns |-> Started]
        /\ toRes = [c \in Conns |-> <<>>] /\ toIni = [c \in Conns |-> <<>>] /\ identity = 0
    BY Zenon DEF Init, HandshakeInit
  <1>2. Started \in Side /\ Started.phase = "idle"
    <2>1. None \in Ids /\ None \in Names /\ None \in Secrets
      BY Zenon DEF Ids, Names, Secrets
    <2> QED
      BY <2>1, Zenon DEF Started, Side, Phases
  <1>3. Typed
    <2>1. 0 \in 0..MaxIdentity
      BY BundleLifeAssumption
    <2> QED
      BY <1>1, <1>2, <2>1, ZenonT(60) DEF Typed
  <1>4. ASSUME NEW c \in Conns
        PROVE  Link(c, Started, Started, <<>>, <<>>, expected, Streamed)
    <2>1. <<>> \in Seq(Hellos(c)) /\ Len(<<>>) <= 1
      OBVIOUS
    <2> QED
      BY <1>2, <2>1, ZenonT(60) DEF Link
  <1>5. LinkInv
    BY <1>1, <1>3, <1>4, ZenonT(60) DEF LinkInv
  <1>6. PathInv
    BY RouterAssumption, Zenon DEF Init, PathInv, Task
  <1> QED
    BY <1>5, <1>6

\* Each step of the router, its peers and the connections keeps both
\* invariants.
LEMMA LinkNext ==
    LinkInv /\ PathInv /\ MsgsInv /\ [Next]_vars => LinkInv' /\ PathInv'
  <1> SUFFICES ASSUME LinkInv, PathInv, MsgsInv, [Next]_vars PROVE LinkInv' /\ PathInv'
    BY Zenon
  <1>1. CASE Handshaking
    BY <1>1, HandshakeInv, Zenon DEF Handshaking, router, peer
  <1>2. CASE \E c \in Conns : Connect(c)
    BY <1>2, HandshakeInv, Zenon DEF Connect, peer
  <1>3. CASE \/ StopDiscovery \/ TakeStop \/ \E c : TakePeer(c) \/ \E p : AddPeer(p)
             \/ \E c \in Conns : ConnectFailed(c)
             \/ UNCHANGED vars
    <2>1. /\ UNCHANGED <<task, relayed, got, lockq, active>>
          /\ UNCHANGED <<ini, res, toRes, toIni, expected, identity>>
      BY <1>3, Zenon DEF StopDiscovery, TakeStop, TakePeer, AddPeer, ConnectFailed,
                  vars, handshake, node, tcp, peer, router
    <2>2. DoneStays /\ Streamed' = Streamed
      BY <2>1, Zenon DEF DoneStays, Streamed
    <2> QED
      BY <2>1, <2>2, PathKeeps, LinkIdle, ZenonT(60)
  <1>4. CASE InsertPeer \/ \E c \in Conns : Connected(c)
    BY <1>4, StepEnter, Zenon
  <1>5. CASE \E m \in usage.msgs : SendMessage(m)
    BY <1>5, StepSend, Zenon DEF MsgsInv
  <1>6. CASE \E m \in Msgs : StreamWrite(m) \/ StreamFails(m) \/ RelayRefused(m) \/ RelayTakes(m)
    BY <1>6, StepWrite, StepRelay, ZenonT(60)
  <1>7. CASE Answering
    BY <1>7, StepTake, StepQueue, ZenonT(60) DEF Answering
  <1> QED
    BY <1>1, <1>2, <1>3, <1>4, <1>5, <1>6, <1>7, ZenonT(60) DEF Next, Routing

\* An initiator whose handshake is done has a responder whose handshake is done
\* under the same secret, and each has the other's identity: for any number of
\* connections, whatever is cut, times out or changes identity meanwhile
\* (initiator_handshake, responder_handshake).
THEOREM HandshakesAgree == Spec => []Agreement
  <1>1. LinkInv => Agreement
    BY ZenonT(60) DEF LinkInv, Link, Agreement
  <1> QED
    BY MsgsInit, MsgsNext, LinkInit, LinkNext, <1>1, PTL DEF Spec

\* What the responder got over a stream the relay was never given, whatever
\* connections break while send_message runs (manager.rs, the fallback).
THEOREM MessagesTakeOnePath == Spec => []OnePath
  <1>1. PathInv => OnePath
    BY DEF PathInv, Streamed, OnePath
  <1> QED
    BY MsgsInit, MsgsNext, LinkInit, LinkNext, <1>1, PTL DEF Spec
=============================================================================
