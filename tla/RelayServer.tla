---------------------------- MODULE RelayServer ----------------------------
(***************************************************************************)
(* The store-and-forward relay (server/src/ws.rs and the message handlers  *)
(* of server/src/main.rs): connections that register, are served the       *)
(* queue, and end; envelopes that are checked for duplicates, queued and   *)
(* pushed; acknowledgements; and a server that may crash between any two   *)
(* database transactions.                                                  *)
(*                                                                         *)
(* Every handler runs as a tokio task of its own, so steps of different    *)
(* handlers interleave; a step here is at most one database transaction    *)
(* or one access to the clients map.  A message stands for its database    *)
(* key: recipient and message id.  The order of a connection's outbound    *)
(* channel, and a second copy of a message in it, are left out.  The clock *)
(* shows only in that entries of the dedup table (48 h) and of the queue   *)
(* (7 days, 60 s for a signal) expire, as Ageing says.                     *)
(***************************************************************************)
EXTENDS Naturals, FiniteSets

CONSTANTS
    Users,          \* recipients (identity keys)
    Ids,            \* message ids that WebSocket senders choose
    HttpIds,        \* message ids that send_message_handler draws
    Signals,        \* ids that route_webrtc draws for a queued signal
    Conns,          \* connection slots; a slot is reused when both tasks ended
    Handlers,       \* tasks that serve senders
    None,
    Signatures,     \* may an envelope carry a bad signature?  subset of BOOLEAN
    Limits,         \* operations that run_server gives a rate limit
    Ageing          \* tables whose entries expire, subset of {"dedup", "queue"}

ASSUME IdsAssumption ==
    /\ Ids \cap HttpIds = {}
    /\ Ids \cap Signals = {}
    /\ HttpIds \cap Signals = {}

ASSUME SwitchAssumption == Signatures \subseteq BOOLEAN /\ Ageing \subseteq {"dedup", "queue"}

Key == [id : Ids \cup HttpIds \cup Signals, to : Users]

HttpKey == [id : HttpIds, to : Users]

Entry == {"none", "fresh", "expired"}

Task == [pc : {"check", "evict", "mark", "queue", "push", "store"},
         key : Key, signed : BOOLEAN]

ASSUME NoneAssumption == None \notin Conns /\ None \notin Users /\ None \notin Task

Conn == [user : Users \cup {None}, phase : {"free", "delivering", "pruning", "open", "ended"},
         sending : BOOLEAN, receiving : BOOLEAN, todo : SUBSET Key]

VARIABLES
    dedup,      \* tree_dedup: per message id
    queue,      \* tree_queue: per key
    clients,    \* RuntimeState.clients: the connection registered for a user
    conn,       \* handle_ws and its two tasks, per connection
    chan,       \* what each connection was given and its client has not got yet,
                \* be it in the channel or in the socket
    task,       \* the handlers that are under way
    pruning,    \* dedup keys the pruning task is about to remove
    drawn,      \* server-drawn keys that have been used
    received,   \* messages that reached their recipient
    acked,      \* messages whose acknowledgement was handled
    accepted,   \* envelopes that were queued and did not expire
    dropped     \* envelopes that route_message dropped as duplicates

vars == <<dedup, queue, clients, conn, chan, task, pruning, drawn,
          received, acked, accepted, dropped>>

database == <<dedup, queue>>
sockets == <<clients, conn, chan>>
history == <<received, acked, accepted, dropped>>

FreeConn == [user |-> None, phase |-> "free", sending |-> FALSE, receiving |-> FALSE,
             todo |-> {}]

-----------------------------------------------------------------------------
(* A connection: handle_ws *)

\* ws_handler has validated the token; the user's channel replaces whatever
\* channel was registered.
Connect(c, u) ==
    /\ conn[c].phase = "free"
    /\ conn' = [conn EXCEPT ![c] = [user |-> u, phase |-> "delivering",
                                    sending |-> TRUE, receiving |-> TRUE, todo |-> {}]]
    /\ clients' = [clients EXCEPT ![u] = c]
    /\ UNCHANGED <<database, chan, task, pruning, drawn, history>>

\* Mutant: a delivered envelope is marked for deletion like a signal.
DeliverQueued_Deletes(c) ==
    LET mine == {k \in Key : k.to = conn[c].user}
        fresh == {k \in mine : queue[k] = "fresh"}
    IN  /\ conn[c].phase = "delivering"
        /\ chan' = [chan EXCEPT ![c] = @ \cup fresh]
        /\ conn' = [conn EXCEPT ![c].phase = "pruning",
                                ![c].todo = {k \in mine : queue[k] # "none"}]
        /\ UNCHANGED <<database, clients, task, pruning, drawn, history>>

\* Mutant: nothing is read from the queue.
DeliverQueued_Nothing(c) ==
    /\ conn[c].phase = "delivering"
    /\ conn' = [conn EXCEPT ![c].phase = "pruning"]
    /\ UNCHANGED <<database, clients, chan, task, pruning, drawn, history>>

\* Mutant: signals wait for an acknowledgement like envelopes.
DeliverQueued_KeepsSignals(c) ==
    LET mine == {k \in Key : k.to = conn[c].user}
    IN  /\ conn[c].phase = "delivering"
        /\ chan' = [chan EXCEPT ![c] = @ \cup {k \in mine : queue[k] = "fresh"}]
        /\ conn' = [conn EXCEPT ![c].phase = "pruning",
                                ![c].todo = {k \in mine : queue[k] = "expired"}]
        /\ UNCHANGED <<database, clients, task, pruning, drawn, history>>

\* deliver_queued_messages: one read transaction; envelopes stay queued until
\* they are acknowledged, signals and expired entries are marked for removal.
DeliverQueued(c) ==
    LET mine == {k \in Key : k.to = conn[c].user}
        fresh == {k \in mine : queue[k] = "fresh"}
        stale == {k \in mine : queue[k] = "expired"}
    IN  /\ conn[c].phase = "delivering"
        /\ chan' = [chan EXCEPT ![c] = @ \cup fresh]
        /\ conn' = [conn EXCEPT ![c].phase = "pruning",
                                ![c].todo = stale \cup {k \in fresh : k.id \in Signals}]
        /\ UNCHANGED <<database, clients, task, pruning, drawn, history>>

\* ... and removed one transaction at a time; then both tasks are spawned.
RemoveDelivered(c) ==
    /\ conn[c].phase = "pruning"
    /\ IF conn[c].todo = {}
       THEN conn' = [conn EXCEPT ![c].phase = "open"] /\ UNCHANGED queue
       ELSE \E k \in conn[c].todo :
                /\ conn' = [conn EXCEPT ![c].todo = @ \ {k}]
                /\ queue' = [queue EXCEPT ![k] = "none"]
    /\ UNCHANGED <<dedup, clients, chan, task, pruning, drawn, history>>

Started(c) == conn[c].phase \in {"open", "ended"}

\* The send task has written a message and the client has got it.
SendTask(c, k) ==
    /\ Started(c) /\ conn[c].sending
    /\ k \in chan[c]
    /\ chan' = [chan EXCEPT ![c] = @ \ {k}]
    /\ received' = received \cup {k}
    /\ UNCHANGED <<database, clients, conn, task, pruning, drawn, acked, accepted, dropped>>

\* The send task ends: a write failed, and what was under way is gone, or the
\* channel is drained and no sender for it is left.
SendTaskEnds(c) ==
    /\ Started(c) /\ conn[c].sending
    /\ chan[c] = {} => conn[c].phase = "ended"
    /\ chan' = [chan EXCEPT ![c] = {}]
    /\ conn' = [conn EXCEPT ![c].sending = FALSE]
    /\ UNCHANGED <<database, clients, task, pruning, drawn, history>>

\* The receive task ends: close frame, error or idle timeout.
RecvTaskEnds(c) ==
    /\ Started(c) /\ conn[c].receiving
    /\ conn' = [conn EXCEPT ![c].receiving = FALSE]
    /\ UNCHANGED <<database, clients, chan, task, pruning, drawn, history>>

\* Mutant: the entry stays in the map.
Unregister_Keeps(c) ==
    /\ conn[c].phase = "open"
    /\ ~(conn[c].sending /\ conn[c].receiving)
    /\ conn' = [conn EXCEPT ![c].phase = "ended"]
    /\ UNCHANGED <<database, clients, chan, task, pruning, drawn, history>>

\* One task has ended (the other is detached, not stopped): the user's entry
\* is removed from the map, whichever connection it belongs to.
Unregister(c) ==
    /\ conn[c].phase = "open"
    /\ ~(conn[c].sending /\ conn[c].receiving)
    /\ conn' = [conn EXCEPT ![c].phase = "ended"]
    /\ clients' = [clients EXCEPT ![conn[c].user] = None]
    /\ UNCHANGED <<database, chan, task, pruning, drawn, history>>

\* Both tasks are gone and handle_ws has returned.
Free(c) ==
    /\ conn[c].phase = "ended"
    /\ ~conn[c].sending /\ ~conn[c].receiving
    /\ conn' = [conn EXCEPT ![c] = FreeConn]
    /\ UNCHANGED <<database, clients, chan, task, pruning, drawn, history>>

\* handle_ack: the client acknowledges what it has received.
HandleAck(c, k) ==
    /\ Started(c) /\ conn[c].receiving
    /\ k.to = conn[c].user
    /\ k \in received
    /\ k.id \notin Signals
    /\ queue' = [queue EXCEPT ![k] = "none"]
    /\ acked' = acked \cup {k}
    /\ UNCHANGED <<dedup, sockets, task, pruning, drawn, received, accepted, dropped>>

-----------------------------------------------------------------------------
(* An envelope from a WebSocket sender: route_message *)

At(h, pc) == task[h] # None /\ task[h].pc = pc

Goto(h, pc) == task' = [task EXCEPT ![h].pc = pc]

Return(h) == task' = [task EXCEPT ![h] = None]

\* Malformed envelopes are dropped before anything is read; senders may send
\* an id as often as they like.
RouteMessage(h, k, signed) ==
    /\ task[h] = None
    /\ k.id \in Ids
    /\ task' = [task EXCEPT ![h] = [pc |-> "check", key |-> k, signed |-> signed]]
    /\ UNCHANGED <<database, sockets, pruning, drawn, history>>

CheckDuplicate(h) ==
    LET k == task[h].key
    IN  /\ At(h, "check")
        /\ \/ /\ dedup[k.id] = "fresh"
              /\ dropped' = dropped \cup {k}
              /\ Return(h)
           \/ /\ dedup[k.id] = "expired"
              /\ Goto(h, "evict")
              /\ UNCHANGED dropped
           \/ /\ dedup[k.id] = "none"
              /\ Goto(h, "mark")
              /\ UNCHANGED dropped
        /\ UNCHANGED <<database, sockets, pruning, drawn, received, acked, accepted>>

EvictExpired(h) ==
    /\ At(h, "evict")
    /\ dedup' = [dedup EXCEPT ![task[h].key.id] = "none"]
    /\ Goto(h, "mark")
    /\ UNCHANGED <<queue, sockets, pruning, drawn, history>>

MarkSeen(h) ==
    /\ At(h, "mark")
    /\ dedup' = [dedup EXCEPT ![task[h].key.id] = "fresh"]
    /\ Goto(h, "queue")
    /\ UNCHANGED <<queue, sockets, pruning, drawn, history>>

\* Mutant: the signature decides only whether the envelope is queued.
QueueMessage_PushesAll(h) ==
    LET k == task[h].key
    IN  /\ At(h, "queue")
        /\ queue' = IF task[h].signed THEN [queue EXCEPT ![k] = "fresh"] ELSE queue
        /\ accepted' = IF task[h].signed THEN accepted \cup {k} ELSE accepted
        /\ Goto(h, "push")
        /\ UNCHANGED <<dedup, sockets, pruning, drawn, received, acked, dropped>>

\* The signature is checked only now; a good envelope is queued first.
QueueMessage(h) ==
    LET k == task[h].key
    IN  /\ At(h, "queue")
        /\ \/ /\ ~task[h].signed
              /\ Return(h)
              /\ UNCHANGED <<queue, accepted>>
           \/ /\ task[h].signed
              /\ queue' = [queue EXCEPT ![k] = "fresh"]
              /\ accepted' = accepted \cup {k}
              /\ Goto(h, "push")
        /\ UNCHANGED <<dedup, sockets, pruning, drawn, received, acked, dropped>>

\* The channel's receiving end lives as long as the send task.
CanPush(u) == clients[u] # None /\ conn[clients[u]].sending

PushTo(k) ==
    chan' = IF CanPush(k.to) THEN [chan EXCEPT ![clients[k.to]] = @ \cup {k}] ELSE chan

\* Mutant: the live push is left to the next reconnection.
PushLive_Skipped(h) ==
    /\ At(h, "push")
    /\ Return(h)
    /\ UNCHANGED <<database, sockets, pruning, drawn, history>>

PushLive(h) ==
    /\ At(h, "push")
    /\ PushTo(task[h].key)
    /\ Return(h)
    /\ UNCHANGED <<database, clients, conn, pruning, drawn, history>>

-----------------------------------------------------------------------------
(* Direct messages: pushed if the recipient is online, queued otherwise *)

PushOrStore(h, k) ==
    /\ task[h] = None
    /\ k \notin drawn
    /\ drawn' = drawn \cup {k}
    /\ PushTo(k)
    /\ task' = IF CanPush(k.to) THEN task
               ELSE [task EXCEPT ![h] = [pc |-> "store", key |-> k, signed |-> TRUE]]
    /\ UNCHANGED <<database, clients, conn, pruning, received, acked, accepted, dropped>>

\* send_message_handler: a push is answered with 200, without queueing.
SendMessageHandler(h, k) ==
    /\ k.id \in HttpIds
    /\ "message_send" \in Limits
    /\ PushOrStore(h, k)

\* route_webrtc, for a signal whose signature verifies.
RouteWebrtc(h, k) ==
    /\ k.id \in Signals
    /\ PushOrStore(h, k)

\* The other branch of both handlers: the queue entry.
StoreDirect(h) ==
    LET k == task[h].key
    IN  /\ At(h, "store")
        /\ queue' = [queue EXCEPT ![k] = "fresh"]
        /\ accepted' = accepted \cup ({k} \cap HttpKey)
        /\ Return(h)
        /\ UNCHANGED <<dedup, sockets, pruning, drawn, received, acked, dropped>>

\* inbox_handler: an operation without a limit is refused; otherwise all
\* entries are removed and the fresh ones returned.
InboxHandler(u) ==
    LET mine == {k \in Key : k.to = u}
        served == IF "inbox_fetch" \in Limits THEN mine ELSE {}
    IN  /\ received' = received \cup {k \in served : queue[k] = "fresh"}
        /\ queue' = [k \in Key |-> IF k \in served THEN "none" ELSE queue[k]]
        /\ UNCHANGED <<dedup, sockets, task, pruning, drawn, acked, accepted, dropped>>

-----------------------------------------------------------------------------
(* Clock, pruning task and crash *)

\* No handler is under way for days.
Quiet(i) == \A h \in Handlers : task[h] # None => task[h].key.id # i

\* An entry passes 48 hours.
AgeDedup(i) ==
    /\ "dedup" \in Ageing /\ dedup[i] = "fresh" /\ Quiet(i)
    /\ dedup' = [dedup EXCEPT ![i] = "expired"]
    /\ UNCHANGED <<queue, sockets, task, pruning, drawn, history>>

\* An entry passes its time to live, which for an envelope is longer than 48
\* hours.
AgeQueue(k) ==
    /\ "queue" \in Ageing /\ queue[k] = "fresh" /\ Quiet(k.id)
    /\ k.id \in Ids => dedup[k.id] # "fresh"
    /\ queue' = [queue EXCEPT ![k] = "expired"]
    /\ accepted' = accepted \ {k}
    /\ UNCHANGED <<dedup, sockets, task, pruning, drawn, received, acked, dropped>>

\* The hourly task collects the expired ids in one read transaction ...
PruneScan ==
    /\ pruning = {}
    /\ pruning' = {i \in Ids : dedup[i] = "expired"}
    /\ UNCHANGED <<database, sockets, task, drawn, history>>

\* ... and removes them one by one.
PruneRemove(i) ==
    /\ i \in pruning
    /\ pruning' = pruning \ {i}
    /\ dedup' = [dedup EXCEPT ![i] = "none"]
    /\ UNCHANGED <<queue, sockets, task, drawn, history>>

\* The server stops and starts again: the database is what is left.
Crash ==
    /\ clients' = [u \in Users |-> None]
    /\ conn' = [c \in Conns |-> FreeConn]
    /\ chan' = [c \in Conns |-> {}]
    /\ task' = [h \in Handlers |-> None]
    /\ pruning' = {}
    /\ UNCHANGED <<database, drawn, history>>

-----------------------------------------------------------------------------

Init ==
    /\ dedup = [i \in Ids |-> "none"]
    /\ queue = [k \in Key |-> "none"]
    /\ clients = [u \in Users |-> None]
    /\ conn = [c \in Conns |-> FreeConn]
    /\ chan = [c \in Conns |-> {}]
    /\ task = [h \in Handlers |-> None]
    /\ pruning = {}
    /\ drawn = {}
    /\ received = {}
    /\ acked = {}
    /\ accepted = {}
    /\ dropped = {}

Connection(c) ==
    \/ \E u \in Users : Connect(c, u)
    \/ DeliverQueued(c) \/ RemoveDelivered(c)
    \/ \E k \in Key : SendTask(c, k) \/ HandleAck(c, k)
    \/ SendTaskEnds(c) \/ RecvTaskEnds(c) \/ Unregister(c) \/ Free(c)

Handler(h) ==
    \/ CheckDuplicate(h) \/ EvictExpired(h) \/ MarkSeen(h) \/ QueueMessage(h) \/ PushLive(h)
    \/ StoreDirect(h)

Request(h) ==
    \E k \in Key :
        \/ \E signed \in Signatures : RouteMessage(h, k, signed)
        \/ SendMessageHandler(h, k)
        \/ RouteWebrtc(h, k)

Clock ==
    \/ \E i \in Ids : AgeDedup(i) \/ PruneRemove(i)
    \/ \E k \in Key : AgeQueue(k)
    \/ PruneScan

\* The server while it runs.
Serve ==
    \/ \E c \in Conns : Connection(c)
    \/ \E h \in Handlers : Handler(h) \/ Request(h)
    \/ \E u \in Users : InboxHandler(u)
    \/ Clock

Next == Serve \/ Crash

Spec == Init /\ [][Next]_vars

\* A server that is not restarted: its tasks run; a client comes back when it
\* has no connection; every connection ends some time, by the idle timeout of
\* handle_ws if by nothing else; and the socket does not fail every attempt to
\* deliver a message.
FairSpec ==
    /\ Init /\ [][Serve]_vars
    /\ \A h \in Handlers : WF_vars(Handler(h))
    /\ \A u \in Users :
           WF_vars(/\ \A c \in Conns : conn[c].user = u => conn[c].phase = "ended"
                   /\ \E c \in Conns : Connect(c, u))
    /\ \A c \in Conns :
           /\ WF_vars(DeliverQueued(c) \/ RemoveDelivered(c) \/ Unregister(c) \/ Free(c))
           /\ WF_vars(RecvTaskEnds(c))
           /\ WF_vars(conn[c].phase = "ended" /\ SendTaskEnds(c))
           /\ \A k \in Key : SF_vars(SendTask(c, k))

-----------------------------------------------------------------------------
(* Properties *)

\* The types of the tables, the connections and the handlers.
TypeOK ==
    /\ dedup \in [Ids -> Entry]
    /\ queue \in [Key -> Entry]
    /\ clients \in [Users -> Conns \cup {None}]
    /\ conn \in [Conns -> Conn]
    /\ chan \in [Conns -> SUBSET Key]
    /\ task \in [Handlers -> Task \cup {None}]
    /\ pruning \subseteq Ids
    /\ drawn \subseteq Key
    /\ received \subseteq Key
    /\ acked \subseteq Key
    /\ accepted \subseteq Key
    /\ dropped \subseteq Key

\* An envelope that was queued, by route_message or by send_message_handler,
\* stays in the queue until its recipient has received and acknowledged it,
\* whatever connections come and go, however often it is sent, and across
\* crashes.
QueuedUntilAcked ==
    \A k \in accepted : queue[k] = "fresh" \/ k \in acked \cap received

\* A registered connection that has been through the queue is bound to get
\* every envelope queued for its user: either deliver_queued_messages saw it
\* or route_message, which queues before it looks at the clients map, pushed
\* it to this connection.
RoutedIsUnderWay ==
    \A k \in accepted \ (received \cup HttpKey) :
        LET c == clients[k.to]
        IN  /\ queue[k] = "fresh"
            /\ c # None
            /\ conn[c].phase \in {"pruning", "open"}
            /\ conn[c].sending
            /\ \A h \in Handlers : At(h, "push") => task[h].key # k
            => k \in chan[c]

\* A signal that has rung is not queued any more and will not ring again at
\* the next connection.
NoGhostRinging ==
    \A k \in received : k.id \in Signals => queue[k] = "none"

\* The map never points at a connection whose handle_ws has returned, and a
\* message is never pushed to another user's connection.
ClientsAreLive ==
    \A u \in Users : clients[u] # None =>
        /\ conn[clients[u]].user = u
        /\ conn[clients[u]].phase \in {"delivering", "pruning", "open"}

\* Every queued envelope reaches its recipient, unless it expires first: what
\* is queued is read at the next connection or pushed to the present one.
EventuallyReceived ==
    \A k \in Key : (k \in accepted) ~> (k \in received \/ k \notin accepted)

\* An envelope that is dropped as a duplicate has been queued by the call it
\* duplicates, or that call is still under way: nothing is lost by a retry.
DuplicateIsSafe ==
    \A k \in dropped :
        \/ k \in accepted
        \/ \E h \in Handlers : task[h] # None /\ task[h].key = k

\* Envelopes that take the WebSocket route.
Routed == [id : Ids, to : Users]

Mail == INSTANCE Mailbox WITH
    Messages <- Routed,
    accepted <- accepted \cap Routed,
    kept <- {k \in Routed : queue[k] = "fresh"},
    got <- received \cap Routed,
    confirmed <- acked \cap Routed

\* The relay is a mailbox for routed envelopes: connections, the two looks at
\* queue and clients map, duplicates, pruning and crashes never take a message
\* out of the queue that is not acknowledged by a recipient who got it, and
\* never hand out one that was not queued (as long as entries of the queue do
\* not expire and the inbox stays closed).
ImplementsMailbox == Mail!Spec
=============================================================================
