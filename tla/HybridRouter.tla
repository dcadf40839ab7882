---------------------------- MODULE HybridRouter ----------------------------
(***************************************************************************)
(* HybridRouter (core/src/manager.rs) at the initiator, over the handshake *)
(* of P2pHandshake, and the Peer (p2p/peer.rs) that a responder's          *)
(* application reads from and answers on.                                  *)
(*                                                                         *)
(* The router's discovery loop dials what mDNS reports, one advertisement  *)
(* at a time, and enters whom it reached into the peer table; another task *)
(* of the application registers peers it accepted itself; send_message     *)
(* looks the recipient up, writes to the stream, and falls back to the     *)
(* relay.  The table is a DashMap: the guard of a lookup is held while the *)
(* stream is written, and an entry of the same key cannot be inserted      *)
(* meanwhile (the inserting thread waits, so another worker of the runtime *)
(* must be there to finish the write).                                     *)
(***************************************************************************)
EXTENDS P2pHandshake, FiniteSets

CONSTANTS
    Msgs,               \* messages given to send_message, one task each
    Accepted,           \* peers the application accepts and registers
    MAX_ACTIVE_PEERS,
    Usages              \* what users and network may do together: which
                        \* advertisements, messages and accepted peers there
                        \* are, and which of "identity", "expiry", "cut" and
                        \* "stop" may happen

ASSUME RouterAssumption ==
    /\ Usages \subseteq [conns : SUBSET Conns, msgs : SUBSET Msgs, accepted : SUBSET Accepted,
                         may : SUBSET {"identity", "expiry", "cut", "stop"}]
    /\ MAX_ACTIVE_PEERS \in Nat \ {0}
    /\ {None, "accepted"} \cap Conns = {}

VARIABLES
    usage,      \* the one of Usages this behaviour is under (never changes)
    disc,       \* the discovery loop: where it is, and what it dials
    notified,   \* has the Notified of the current select! been woken?
    seen,       \* session tokens the loop has dialled
    active,     \* active_peers: the connection of each peer, or None
    adder,      \* the task that registers accepted peers
    task,       \* the send_message task of each message
    relayed,    \* messages the relay has taken
    lockq,      \* the responder's stream mutex: who holds it, who waits
    got,        \* messages the responder received over each connection
    replied,    \* messages the responder answered, per connection
    stopCalled  \* has stop_discovery been called? (history)

router == <<usage, disc, notified, seen, active, adder, task, relayed, stopCalled>>
peer == <<lockq, got, replied>>
handshake == <<node, ini, res, tcp>>
vars == <<handshake, router, peer>>

PeerIds == {Ed(g) : g \in 0..MaxIdentity} \cup Accepted
Recipient == Ed(0)
Loop(pc, c) == [pc |-> pc, conn |-> c]

-----------------------------------------------------------------------------
(* start_discovery_loop and stop_discovery *)

\* notify_waiters wakes the Notified that exists: the loop has one only while
\* it is in select!.
StopDiscovery ==
    /\ ~stopCalled
    /\ stopCalled' = TRUE
    /\ notified' = (disc.pc = "select")
    /\ UNCHANGED <<handshake, peer, usage, disc, seen, active, adder, task, relayed>>

\* The cancel branch of select!.
TakeStop ==
    /\ disc.pc = "select" /\ notified
    /\ disc' = Loop("exited", None)
    /\ UNCHANGED <<handshake, peer, usage, notified, seen, active, adder, task, relayed, stopCalled>>

Peers == {p \in PeerIds : active[p] # None}

\* The receive branch, at whatever moment mDNS resolves an advertisement, for
\* the first time or again: select! picks either branch that is ready, and drops
\* the Notified with what it was told.  The address, the number of peers and
\* the session token are checked in this order.
TakePeer(c) ==
    /\ disc.pc = "select"
    /\ notified' = FALSE
    /\ \E invalidAddr \in BOOLEAN : IF invalidAddr \/ Cardinality(Peers) >= MAX_ACTIVE_PEERS \/ c \in seen
         THEN UNCHANGED <<disc, seen>>
         ELSE seen' = seen \cup {c} /\ disc' = Loop("dial", c)
    /\ UNCHANGED <<handshake, peer, usage, active, adder, task, relayed, stopCalled>>

\* connect: the dial, then the handshake.
Connect(c) ==
    /\ disc = Loop("dial", c)
    /\ Dial(c) \/ DialFails(c)
    /\ disc' = Loop("handshake", c)
    /\ UNCHANGED <<peer, usage, notified, seen, active, adder, task, relayed, stopCalled>>

ConnectFailed(c) ==
    /\ disc = Loop("handshake", c) /\ ini[c].phase = "failed"
    /\ disc' = Loop("select", None) /\ notified' = FALSE
    /\ UNCHANGED <<handshake, peer, usage, seen, active, adder, task, relayed, stopCalled>>

\* Does a lookup hold the guard of peer p's entry?
Guarded(p) == \E m \in Msgs : task[m].pc = "stream" /\ p = Recipient

\* entry(real_peer_id).or_insert: a peer that is there already stays, and the
\* new connection is dropped.
Connected(c) ==
    LET p == ini[c].peer
    IN /\ disc = Loop("handshake", c) /\ ini[c].phase = "done"
       /\ ~Guarded(p)
       /\ IF active[p] = None
            THEN active' = [active EXCEPT ![p] = c] /\ UNCHANGED closed
            ELSE UNCHANGED active /\ Close(c, "ini")
       /\ disc' = Loop("select", None) /\ notified' = FALSE
       /\ UNCHANGED <<node, ini, res, toRes, toIni, cut, peer, usage, seen, adder, task,
                      relayed, stopCalled>>

-----------------------------------------------------------------------------
(* add_p2p_peer *)

\* Mutant: the number of peers is not compared.
AddPeer_NoCap(p) ==
    /\ adder.pc = "idle" /\ p \in Accepted \ adder.tried
    /\ adder' = [pc |-> "insert", id |-> p, tried |-> adder.tried \cup {p}]
    /\ UNCHANGED <<handshake, peer, usage, disc, notified, seen, active, task, relayed, stopCalled>>

\* active_peers.len() is compared, and the peer is refused or goes on.
AddPeer(p) ==
    /\ adder.pc = "idle" /\ p \in Accepted \ adder.tried
    /\ adder' = [pc |-> IF Cardinality(Peers) >= MAX_ACTIVE_PEERS THEN "idle" ELSE "insert",
                 id |-> p, tried |-> adder.tried \cup {p}]
    /\ UNCHANGED <<handshake, peer, usage, disc, notified, seen, active, task, relayed, stopCalled>>

InsertPeer ==
    /\ adder.pc = "insert" /\ ~Guarded(adder.id)
    /\ active' = [active EXCEPT ![adder.id] = "accepted"]
    /\ adder' = [adder EXCEPT !.pc = "idle"]
    /\ UNCHANGED <<handshake, peer, usage, disc, notified, seen, task, relayed, stopCalled>>

-----------------------------------------------------------------------------
(* send_message *)

Task(pc, c) == [pc |-> pc, conn |-> c]

\* The size is checked, the recipient looked up; with a peer the message is
\* encrypted before the stream is locked.
SendMessage(m) ==
    /\ task[m].pc = "idle"
    /\ \E tooLong \in BOOLEAN :
        task' = [task EXCEPT ![m] = IF tooLong THEN Task("err", None)
                                    ELSE IF active[Recipient] = None THEN Task("relay", None)
                                    ELSE Task("stream", active[Recipient])]
    /\ UNCHANGED <<handshake, peer, usage, disc, notified, seen, active, adder, relayed, stopCalled>>

\* Peer::send_message writes the frame; an error leads to the relay.
StreamWrite(m) ==
    LET c == task[m].conn
    IN /\ task[m].pc = "stream"
       /\ toRes' = Written(toRes, c, "res", [type |-> "Data", msg |-> m])
       /\ task' = [task EXCEPT ![m] = Task("ok", c)]
       /\ UNCHANGED <<node, ini, res, toIni, closed, cut, peer, usage, disc, notified, seen,
                      active, adder, relayed, stopCalled>>

\* Mutant: a write that went through is taken for a failure.
StreamFails_WroteFirst(m) ==
    LET c == task[m].conn
    IN /\ task[m].pc = "stream"
       /\ toRes' = Written(toRes, c, "res", [type |-> "Data", msg |-> m])
       /\ task' = [task EXCEPT ![m] = Task("relay", None)]
       /\ UNCHANGED <<node, ini, res, toIni, closed, cut, peer, usage, disc, notified, seen,
                      active, adder, relayed, stopCalled>>

StreamFails(m) ==
    /\ task[m].pc = "stream" /\ Gone(task[m].conn, "res")
    /\ task' = [task EXCEPT ![m] = Task("relay", None)]
    /\ UNCHANGED <<handshake, peer, usage, disc, notified, seen, active, adder, relayed, stopCalled>>

\* send_via_relay: nothing is sent (no client, no session, no connection), the
\* relay takes the envelope and says so, or its answer is lost.
RelayRefused(m) ==
    /\ task[m].pc = "relay"
    /\ task' = [task EXCEPT ![m] = Task("err", None)]
    /\ UNCHANGED <<handshake, peer, usage, disc, notified, seen, active, adder, relayed, stopCalled>>

RelayTakes(m) ==
    /\ task[m].pc = "relay"
    /\ relayed' = relayed \cup {m}
    /\ \E pc \in {"ok", "err"} : task' = [task EXCEPT ![m] = Task(pc, None)]
    /\ UNCHANGED <<handshake, peer, usage, disc, notified, seen, active, adder, stopCalled>>

-----------------------------------------------------------------------------
(* The responder's Peer: recv_message and send_message share one mutex *)

\* The application calls recv_message again: it queues for the mutex.
RecvCall(c) ==
    /\ res[c].phase = "done" /\ "res" \notin closed[c]
    /\ "recv" \notin {lockq[c][i] : i \in 1..Len(lockq[c])}
    /\ lockq' = [lockq EXCEPT ![c] = Append(@, "recv")]
    /\ UNCHANGED <<handshake, router, got, replied>>

\* Mutant: the reader goes on with the mutex it holds.
RecvMessage_KeepsLock(c) ==
    /\ lockq[c] # <<>> /\ Head(lockq[c]) = "recv" /\ toRes[c] # <<>>
    /\ toRes' = [toRes EXCEPT ![c] = Tail(@)]
    /\ got' = [got EXCEPT ![c] = @ \cup {Head(toRes[c]).msg}]
    /\ UNCHANGED <<node, ini, res, toIni, closed, cut, router, lockq, replied>>

\* The mutex is held until a frame is there, then given up.
RecvMessage(c) ==
    /\ lockq[c] # <<>> /\ Head(lockq[c]) = "recv" /\ toRes[c] # <<>>
    /\ toRes' = [toRes EXCEPT ![c] = Tail(@)]
    /\ got' = [got EXCEPT ![c] = @ \cup {Head(toRes[c]).msg}]
    /\ lockq' = [lockq EXCEPT ![c] = Tail(@)]
    /\ UNCHANGED <<node, ini, res, toIni, closed, cut, router, replied>>

\* The stream ends: recv_message fails and the application drops the Peer.
RecvDisconnected(c) ==
    /\ lockq[c] # <<>> /\ Head(lockq[c]) = "recv" /\ toRes[c] = <<>>
    /\ Gone(c, "ini")
    /\ Close(c, "res")
    /\ lockq' = [lockq EXCEPT ![c] = <<>>]
    /\ UNCHANGED <<node, ini, res, toRes, toIni, cut, router, got, replied>>

\* A task of the application answers a message: encrypted, then queued for
\* the mutex.
Reply(c, m) ==
    /\ m \in got[c] /\ m \notin replied[c] /\ "res" \notin closed[c]
    /\ m \notin {lockq[c][i] : i \in 1..Len(lockq[c])}
    /\ lockq' = [lockq EXCEPT ![c] = Append(@, m)]
    /\ UNCHANGED <<handshake, router, got, replied>>

\* The answer is written or fails; nothing at the router reads it.
ReplyWrite(c) ==
    /\ lockq[c] # <<>> /\ Head(lockq[c]) # "recv"
    /\ lockq' = [lockq EXCEPT ![c] = Tail(@)]
    /\ replied' = [replied EXCEPT ![c] = @ \cup {Head(lockq[c])}]
    /\ UNCHANGED <<handshake, router, got>>

-----------------------------------------------------------------------------

Init ==
    /\ HandshakeInit
    /\ usage \in Usages
    /\ "identity" \in usage.may \/ expected = Recipient
    /\ disc = Loop("select", None) /\ notified = FALSE /\ seen = {}
    /\ active = [p \in PeerIds |-> None]
    /\ adder = [pc |-> "idle", id |-> None, tried |-> {}]
    /\ task = [m \in Msgs |-> Task("idle", None)]
    /\ relayed = {} /\ stopCalled = FALSE
    /\ lockq = [c \in Conns |-> <<>>]
    /\ got = [c \in Conns |-> {}] /\ replied = [c \in Conns |-> {}]

Handshaking ==
    /\ \/ "identity" \in usage.may /\ GenerateIdentity
       \/ "expiry" \in usage.may /\ Expire
       \/ \E c \in Conns : "cut" \in usage.may /\ Cut(c)
       \/ \E c \in Conns : Accept(c) \/ IniStep(c) \/ ResStep(c)
    /\ UNCHANGED <<router, peer>>

Routing ==
    \/ "stop" \in usage.may /\ StopDiscovery
    \/ TakeStop \/ InsertPeer
    \/ \E c \in usage.conns : TakePeer(c)
    \/ \E c \in Conns : Connect(c) \/ ConnectFailed(c) \/ Connected(c)
    \/ \E p \in usage.accepted : AddPeer(p)
    \/ \E m \in usage.msgs : SendMessage(m)
    \/ \E m \in Msgs : \/ StreamWrite(m) \/ StreamFails(m)
                       \/ RelayRefused(m) \/ RelayTakes(m)

Answering ==
    \E c \in Conns : \/ RecvCall(c) \/ RecvMessage(c) \/ RecvDisconnected(c) \/ ReplyWrite(c)
                     \/ \E m \in Msgs : Reply(c, m)

Next == Handshaking \/ Routing \/ Answering

(* Timers fire, spawned tasks run, and the responder's application keeps   *)
(* reading; whether anyone dials, sends or answers is up to the users.     *)
Fairness ==
    /\ WF_vars(TakeStop) /\ WF_vars(InsertPeer)
    /\ \A c \in Conns :
        /\ WF_vars(Connect(c))
        /\ WF_vars(ConnectFailed(c)) /\ WF_vars(Connected(c))
        /\ WF_vars(IniTimeout(c) /\ UNCHANGED <<router, peer>>)
        /\ WF_vars(ResTimeout(c) /\ UNCHANGED <<router, peer>>)
        /\ WF_vars(RecvCall(c)) /\ WF_vars(RecvMessage(c)) /\ WF_vars(ReplyWrite(c))
        /\ WF_vars(~cut[c] /\ RecvDisconnected(c))
    /\ \A m \in Msgs : /\ WF_vars(StreamWrite(m) \/ StreamFails(m))
                       /\ WF_vars(RelayRefused(m) \/ RelayTakes(m))

Spec == Init /\ [][Next]_vars
FairSpec == Spec /\ Fairness

-----------------------------------------------------------------------------
(* Properties *)

\* An initiator whose handshake is done has a responder whose handshake is
\* done, with the same secret, and each has the other's identity: the one the
\* initiator expected (initiator_handshake, responder_handshake, x3dh.rs).
\* The responder's context may have changed its identity meanwhile.
Agreement ==
    \A c \in Conns : ini[c].phase = "done" =>
        /\ res[c].phase = "done"
        /\ ini[c].secret = res[c].secret
        /\ ini[c].peer = Ed(res[c].id) /\ ini[c].peer = expected
        /\ res[c].peer = AliceEd

\* A message takes one path: whatever connections break during send_message,
\* what the responder got over a stream was not given to the relay as well
\* (manager.rs, send_message's fallback).
OnePath ==
    \A m \in Msgs : (\E c \in Conns : m \in got[c]) => m \notin relayed

\* The cap on peers is compared before the entry is made, so two tasks may
\* both pass it; the table is never more than that one entry over the cap
\* (start_discovery_loop and add_p2p_peer).
PeersBounded == Cardinality(Peers) <= MAX_ACTIVE_PEERS + 1

\* A discovery loop that dials comes back to its select!, whatever the other
\* side does and however many messages hold the table (connect's timeout, and
\* guards that are given up).
DiscoveryReturns == (disc.pc \in {"dial", "handshake"}) ~> (disc.pc = "select")

\* A responder left with a session whose initiator gave up (its Ok came too
\* late) notices and drops it, unless the network swallowed the news.
HalfOpenNoticed ==
    \A c \in Conns : (res[c].phase = "done" /\ ini[c].phase = "failed")
                         ~> ("res" \in closed[c] \/ cut[c])

\* A task that waits to answer while recv_message holds the stream's mutex
\* gets it once a frame has arrived: the reader does not come first again
\* (peer.rs: the lock is held while a frame is awaited, and goes to waiters in
\* order).
RepliesGetTheLock ==
    \A c \in Conns :
        (Len(lockq[c]) > 1 /\ Head(lockq[c]) = "recv" /\ toRes[c] # <<>>)
            ~> (\/ lockq[c] # <<>> /\ Head(lockq[c]) # "recv"
                \/ "res" \in closed[c] \/ cut[c])

\* What stop_discovery is documented to do: the loop ends.
StopEnds == stopCalled ~> (disc.pc = "exited")

=============================================================================
