------------------------- MODULE RelayServerProofs -------------------------
(***************************************************************************)
(* Proofs about RelayServer for any number of users, messages, connections *)
(* and handlers.                                                           *)
(***************************************************************************)
EXTENDS RelayServer, TLAPS

\* The rest of a connection's record stays when its send task ends,
LEMMA SendingCleared ==
    ASSUME conn \in [Conns -> Conn], NEW c \in Conns, conn' = [conn EXCEPT ![c].sending = FALSE]
    PROVE  /\ conn' \in [Conns -> Conn] /\ ~conn'[c].sending
           /\ \A d \in Conns : /\ conn'[d].user = conn[d].user /\ conn'[d].phase = conn[d].phase
                               /\ conn'[d].todo = conn[d].todo /\ d # c => conn'[d] = conn[d]
  <1> DEFINE q == [conn[c] EXCEPT !.sending = FALSE]
  <1>1. /\ q \in Conn /\ ~q.sending
        /\ q.user = conn[c].user /\ q.phase = conn[c].phase /\ q.todo = conn[c].todo
    BY ZenonT(60) DEF Conn
  <1>2. conn' = [conn EXCEPT ![c] = q]
    BY Zenon
  <1> HIDE DEF q
  <1> QED
    BY <1>1, <1>2, ZenonT(60)

\* when its receive task ends,
LEMMA ReceivingCleared ==
    ASSUME conn \in [Conns -> Conn], NEW c \in Conns, conn' = [conn EXCEPT ![c].receiving = FALSE]
    PROVE  /\ conn' \in [Conns -> Conn]
           /\ \A d \in Conns : /\ conn'[d].user = conn[d].user /\ conn'[d].phase = conn[d].phase
                               /\ conn'[d].todo = conn[d].todo
                               /\ conn'[d].sending = conn[d].sending
  <1> DEFINE q == [conn[c] EXCEPT !.receiving = FALSE]
  <1>1. /\ q \in Conn /\ q.sending = conn[c].sending
        /\ q.user = conn[c].user /\ q.phase = conn[c].phase /\ q.todo = conn[c].todo
    BY ZenonT(60) DEF Conn
  <1>2. conn' = [conn EXCEPT ![c] = q]
    BY Zenon
  <1> HIDE DEF q
  <1> QED
    BY <1>1, <1>2, ZenonT(60)

\* when handle_ws goes on to another phase,
LEMMA PhaseMoved ==
    ASSUME conn \in [Conns -> Conn], NEW c \in Conns, NEW p \in {"open", "ended"},
           conn' = [conn EXCEPT ![c].phase = p]
    PROVE  /\ conn' \in [Conns -> Conn] /\ conn'[c].phase = p
           /\ \A d \in Conns : /\ conn'[d].user = conn[d].user /\ conn'[d].todo = conn[d].todo
                               /\ conn'[d].sending = conn[d].sending
                               /\ d # c => conn'[d] = conn[d]
  <1> DEFINE q == [conn[c] EXCEPT !.phase = p]
  <1>1. /\ q \in Conn /\ q.phase = p
        /\ q.user = conn[c].user /\ q.sending = conn[c].sending /\ q.todo = conn[c].todo
    BY ZenonT(60) DEF Conn
  <1>2. conn' = [conn EXCEPT ![c] = q]
    BY Zenon
  <1> HIDE DEF q
  <1> QED
    BY <1>1, <1>2, ZenonT(60)

\* and when it has removed one of the messages it has delivered.
LEMMA TodoShrunk ==
    ASSUME conn \in [Conns -> Conn], NEW c \in Conns, NEW k,
           conn' = [conn EXCEPT ![c].todo = @ \ {k}]
    PROVE  /\ conn' \in [Conns -> Conn] /\ conn'[c].todo = conn[c].todo \ {k}
           /\ \A d \in Conns : /\ conn'[d].user = conn[d].user /\ conn'[d].phase = conn[d].phase
                               /\ conn'[d].sending = conn[d].sending
                               /\ d # c => conn'[d] = conn[d]
  <1> DEFINE s == conn[c].todo \ {k}
             q == [conn[c] EXCEPT !.todo = s]
  <1>1. s \in SUBSET Key
    BY DEF Conn
  <1>2. conn' = [conn EXCEPT ![c] = q]
    BY Zenon
  <1>3. s = conn[c].todo \ {k}
    OBVIOUS
  <1> HIDE DEF s
  <1>4. /\ q \in Conn /\ q.todo = s
        /\ q.user = conn[c].user /\ q.phase = conn[c].phase /\ q.sending = conn[c].sending
    BY <1>1 DEF Conn
  <1> HIDE DEF q
  <1> QED
    BY <1>2, <1>3, <1>4, ZenonT(60)

\* The server starts well typed.
LEMMA InitType == Init => TypeOK
  BY SMTT(30) DEF Init, TypeOK, Entry, Conn, FreeConn

\* Every step of a connection, a handler, a request, the clock and a crash
\* keeps the types.
LEMMA NextType == TypeOK /\ [Next]_vars => TypeOK'
  <1> SUFFICES ASSUME TypeOK, [Next]_vars PROVE TypeOK'
    OBVIOUS
  <1> USE DEF TypeOK, database, sockets, history
  <1>1. ASSUME NEW c \in Conns, NEW u \in Users, Connect(c, u) PROVE TypeOK'
    BY <1>1 DEF Connect, Conn
  <1>2. ASSUME NEW c \in Conns, DeliverQueued(c) PROVE TypeOK'
    <2> DEFINE mine == {k \in Key : k.to = conn[c].user}
               fresh == {k \in mine : queue[k] = "fresh"}
               gone == {k \in mine : queue[k] = "expired"} \cup {k \in fresh : k.id \in Signals}
    <2>1. fresh \in SUBSET Key /\ gone \in SUBSET Key
      OBVIOUS
    <2>2. /\ chan' = [chan EXCEPT ![c] = @ \cup fresh]
          /\ conn' = [conn EXCEPT ![c] = [@ EXCEPT !.phase = "pruning", !.todo = gone]]
          /\ UNCHANGED <<database, clients, task, pruning, drawn, history>>
      BY <1>2, Zenon DEF DeliverQueued
    <2> HIDE DEF fresh, gone
    <2>3. [conn[c] EXCEPT !.phase = "pruning", !.todo = gone] \in Conn
      BY <2>1, ZenonT(120) DEF Conn
    <2> QED
      BY <2>1, <2>2, <2>3
  <1>3. ASSUME NEW c \in Conns, RemoveDelivered(c) PROVE TypeOK'
    <2>1. CASE conn[c].todo = {}
      <3>1. /\ conn' = [conn EXCEPT ![c].phase = "open"]
            /\ UNCHANGED <<queue, dedup, clients, chan, task, pruning, drawn, history>>
        BY <1>3, <2>1 DEF RemoveDelivered
      <3> QED
        BY <3>1, PhaseMoved, ZenonT(60)
    <2>2. CASE conn[c].todo # {}
      <3>1. PICK k \in conn[c].todo :
                /\ conn' = [conn EXCEPT ![c].todo = @ \ {k}]
                /\ queue' = [queue EXCEPT ![k] = "none"]
        BY <1>3, <2>2 DEF RemoveDelivered
      <3>2. UNCHANGED <<dedup, clients, chan, task, pruning, drawn, history>>
        BY <1>3 DEF RemoveDelivered
      <3>3. k \in Key
        BY <3>1, Zenon DEF Conn
      <3>4. conn' \in [Conns -> Conn]
        BY <3>1, TodoShrunk, Zenon
      <3>5. queue' \in [Key -> Entry]
        BY <3>1, <3>3 DEF Entry
      <3> QED
        BY <3>2, <3>4, <3>5
    <2> QED
      BY <2>1, <2>2
  <1>4. ASSUME NEW c \in Conns, NEW k \in Key, SendTask(c, k) PROVE TypeOK'
    BY <1>4 DEF SendTask
  <1>5. ASSUME NEW c \in Conns, NEW k \in Key, HandleAck(c, k) PROVE TypeOK'
    BY <1>5 DEF HandleAck, Entry
  <1>6. ASSUME NEW c \in Conns, SendTaskEnds(c) PROVE TypeOK'
    BY <1>6, SendingCleared, ZenonT(60) DEF SendTaskEnds
  <1>7. ASSUME NEW c \in Conns, RecvTaskEnds(c) PROVE TypeOK'
    BY <1>7, ReceivingCleared, ZenonT(60) DEF RecvTaskEnds
  <1>8. ASSUME NEW c \in Conns, Unregister(c) PROVE TypeOK'
    BY <1>8, PhaseMoved, ZenonT(60) DEF Unregister
  <1>9. ASSUME NEW c \in Conns, Free(c) PROVE TypeOK'
    BY <1>9 DEF Free, FreeConn, Conn
  <1>10. ASSUME NEW h \in Handlers, CheckDuplicate(h) PROVE TypeOK'
    BY <1>10 DEF CheckDuplicate, At, Goto, Return, Task
  <1>11. ASSUME NEW h \in Handlers, EvictExpired(h) PROVE TypeOK'
    BY <1>11, ZenonT(60) DEF EvictExpired, At, Goto, Task, Entry
  <1>12. ASSUME NEW h \in Handlers, MarkSeen(h) PROVE TypeOK'
    BY <1>12, ZenonT(60) DEF MarkSeen, At, Goto, Task, Entry
  <1>13. ASSUME NEW h \in Handlers, QueueMessage(h) PROVE TypeOK'
    BY <1>13 DEF QueueMessage, At, Goto, Return, Task, Entry
  <1>14. ASSUME NEW h \in Handlers, PushLive(h) PROVE TypeOK'
    BY <1>14, ZenonT(60) DEF PushLive, PushTo, CanPush, At, Return, Task
  <1>15. ASSUME NEW h \in Handlers, StoreDirect(h) PROVE TypeOK'
    BY <1>15 DEF StoreDirect, At, Return, Task, Entry
  <1>16. ASSUME NEW h \in Handlers, NEW k \in Key, NEW signed \in Signatures,
                RouteMessage(h, k, signed) PROVE TypeOK'
    BY <1>16, SwitchAssumption DEF RouteMessage, Task
  <1>17. ASSUME NEW h \in Handlers, NEW k \in Key, SendMessageHandler(h, k) PROVE TypeOK'
    BY <1>17, ZenonT(60) DEF SendMessageHandler, PushOrStore, PushTo, CanPush, Task
  <1>18. ASSUME NEW h \in Handlers, NEW k \in Key, RouteWebrtc(h, k) PROVE TypeOK'
    BY <1>18, ZenonT(60) DEF RouteWebrtc, PushOrStore, PushTo, CanPush, Task
  <1>19. ASSUME NEW u \in Users, InboxHandler(u) PROVE TypeOK'
    BY <1>19, Zenon DEF InboxHandler, Entry
  <1>20. ASSUME NEW i \in Ids, AgeDedup(i) \/ PruneRemove(i) PROVE TypeOK'
    BY <1>20, ZenonT(60) DEF AgeDedup, PruneRemove, Entry
  <1>21. ASSUME NEW k \in Key, AgeQueue(k) PROVE TypeOK'
    BY <1>21, Zenon DEF AgeQueue, Entry
  <1>22. ASSUME PruneScan PROVE TypeOK'
    BY <1>22, Zenon DEF PruneScan
  <1>23. ASSUME Crash PROVE TypeOK'
    BY <1>23, Zenon DEF Crash, FreeConn, Conn
  <1>24. ASSUME UNCHANGED vars PROVE TypeOK'
    BY <1>24 DEF vars
  <1> QED
    BY <1>1, <1>2, <1>3, <1>4, <1>5, <1>6, <1>7, <1>8, <1>9, <1>10, <1>11, <1>12, <1>13, ZenonT(60),
       <1>14, <1>15, <1>16, <1>17, <1>18, <1>19, <1>20, <1>21, <1>22, <1>23, <1>24
       DEF Next, Serve, Connection, Handler, Request, Clock

\* The tables, connections and handlers of the relay are well typed.
THEOREM TypeCorrect == Spec => []TypeOK
  BY InitType, NextType, PTL DEF Spec

-----------------------------------------------------------------------------
(* Nothing queued is lost *)

\* What a handler works on: route_message on ids that senders choose, the
\* other two on ids that the server draws.
TaskInv ==
    \A h \in Handlers : task[h] # None =>
        (task[h].pc = "store") <=> (task[h].key.id \notin Ids)

\* The inductive invariant behind QueuedUntilAcked: without expiry, only
\* signals are ever marked for removal.
QueueInv ==
    /\ TypeOK
    /\ TaskInv
    /\ QueuedUntilAcked
    /\ \A k \in Key : queue[k] # "expired"
    /\ \A c \in Conns : \A k \in conn[c].todo : k.id \in Signals
    /\ \A k \in accepted : k.id \notin Signals

\* route_message, send_message_handler and route_webrtc keep to their ids.
LEMMA TaskInvNext == TypeOK /\ TaskInv /\ [Next]_vars => TaskInv'
  <1> SUFFICES ASSUME TypeOK, TaskInv, [Next]_vars PROVE TaskInv'
    OBVIOUS
  <1> USE DEF TypeOK, TaskInv
  <1>1. CASE UNCHANGED task
    BY <1>1, ZenonT(60)
  <1>2. ASSUME NEW h \in Handlers, Handler(h) PROVE TaskInv'
    BY <1>2 DEF Handler, CheckDuplicate, EvictExpired, MarkSeen, QueueMessage, PushLive,
                StoreDirect, At, Goto, Return, Task
  <1>3. ASSUME NEW h \in Handlers, Request(h) PROVE TaskInv'
    <2>1. ASSUME NEW k \in Key, NEW signed \in Signatures, RouteMessage(h, k, signed)
          PROVE  TaskInv'
      BY <2>1 DEF RouteMessage
    <2>2. ASSUME NEW k \in Key, k.id \notin Ids, PushOrStore(h, k) PROVE TaskInv'
      BY <2>2, Zenon DEF PushOrStore
    <2> QED
      BY <1>3, <2>1, <2>2, IdsAssumption DEF Request, SendMessageHandler, RouteWebrtc
  <1>4. CASE Crash
    BY <1>4, Zenon DEF Crash
  <1>5. ASSUME NEW c \in Conns, Connection(c) PROVE UNCHANGED task
    BY <1>5, Zenon DEF Connection, Connect, DeliverQueued, RemoveDelivered, SendTask, HandleAck,
                SendTaskEnds, RecvTaskEnds, Unregister, Free
  <1>6. ASSUME NEW u \in Users, InboxHandler(u) PROVE UNCHANGED task
    BY <1>6, Zenon DEF InboxHandler
  <1>7. CASE Clock
    BY <1>1, <1>7, Zenon DEF Clock, AgeDedup, PruneRemove, AgeQueue, PruneScan
  <1> QED
    BY <1>1, <1>2, <1>3, <1>4, <1>5, <1>6, <1>7, Zenon DEF Next, Serve, vars

\* The relay starts with nothing queued.
LEMMA QueueInvInit == Init => QueueInv
  BY InitType, SMTT(30) DEF Init, QueueInv, TaskInv, QueuedUntilAcked, FreeConn

\* The only steps that take an entry out of the queue are the removal of a
\* signal and an acknowledgement.
LEMMA QueueInvNext ==
    ASSUME "queue" \notin Ageing, "inbox_fetch" \notin Limits, QueueInv, [Next]_vars
    PROVE  QueueInv'
  <1>0. TypeOK /\ TypeOK' /\ TaskInv /\ TaskInv'
    BY NextType, TaskInvNext DEF QueueInv
  <1> USE DEF QueueInv, QueuedUntilAcked, database, sockets, history
  <1>1. CASE UNCHANGED <<queue, conn, received, acked, accepted>>
    BY <1>0, <1>1, Zenon
  <1>2. ASSUME NEW c \in Conns, NEW u \in Users, Connect(c, u) PROVE QueueInv'
    BY <1>0, <1>2, ZenonT(60) DEF Connect, TypeOK
  <1>3. ASSUME NEW c \in Conns, DeliverQueued(c) PROVE QueueInv'
    <2>1. \A d \in Conns : \A k \in conn'[d].todo : k.id \in Signals
      <3>1. conn[c] \in Conn /\ conn \in [Conns -> Conn]
        BY <1>0 DEF TypeOK
      <3> DEFINE mine == {k \in Key : k.to = conn[c].user}
                 gone == {k \in mine : queue[k] = "expired"}
                           \cup {k \in {k \in mine : queue[k] = "fresh"} : k.id \in Signals}
      <3>2. conn' = [conn EXCEPT ![c] = [@ EXCEPT !.phase = "pruning", !.todo = gone]]
        BY <1>3, Zenon DEF DeliverQueued
      <3>3. \A k \in gone : k.id \in Signals
        OBVIOUS
      <3> HIDE DEF gone
      <3>4. [conn[c] EXCEPT !.phase = "pruning", !.todo = gone].todo = gone
        BY <3>1, Zenon DEF Conn
      <3> QED
        BY <3>1, <3>2, <3>3, <3>4, Zenon
    <2> QED
      BY <1>0, <1>3, <2>1, Zenon DEF DeliverQueued
  <1>4. ASSUME NEW c \in Conns, RemoveDelivered(c) PROVE QueueInv'
    <2>0. conn \in [Conns -> Conn] /\ queue \in [Key -> Entry]
      BY <1>0, Zenon DEF TypeOK
    <2>1. CASE conn' = [conn EXCEPT ![c].phase = "open"] /\ UNCHANGED queue
      <3>1. \A d \in Conns : conn'[d].todo = conn[d].todo
        BY <2>0, <2>1, ZenonT(120) DEF Conn
      <3> QED
        BY <1>0, <1>4, <2>1, <3>1 DEF RemoveDelivered
    <2>2. ASSUME NEW k \in conn[c].todo,
                 conn' = [conn EXCEPT ![c].todo = @ \ {k}],
                 queue' = [queue EXCEPT ![k] = "none"]
          PROVE  QueueInv'
      <3>1. \A d \in Conns : conn'[d].todo \subseteq conn[d].todo
        BY <2>0, <2>2, ZenonT(60) DEF Conn
      <3>2. k.id \in Signals
        OBVIOUS
      <3>3. \A x \in Key : x # k => queue'[x] = queue[x]
        BY <2>0, <2>2
      <3>4. \A x \in Key : queue'[x] # "expired"
        BY <2>0, <2>2, Zenon
      <3>5. accepted \subseteq Key
        BY <1>0 DEF TypeOK
      <3> QED
        BY <1>0, <1>4, <3>1, <3>2, <3>3, <3>4, <3>5, ZenonT(60) DEF RemoveDelivered
    <2> QED
      BY <1>4, <2>1, <2>2, Zenon DEF RemoveDelivered
  <1>5. ASSUME NEW c \in Conns, NEW k \in Key, SendTask(c, k) PROVE QueueInv'
    BY <1>0, <1>5, Zenon DEF SendTask
  <1>6. ASSUME NEW c \in Conns, NEW k \in Key, HandleAck(c, k) PROVE QueueInv'
    BY <1>0, <1>6, ZenonT(60) DEF HandleAck, TypeOK
  <1>7. ASSUME NEW c \in Conns, SendTaskEnds(c) \/ RecvTaskEnds(c) \/ Unregister(c)
        PROVE  QueueInv'
    <2>0. conn \in [Conns -> Conn]
      BY <1>0, Zenon DEF TypeOK
    <2>1. \A d \in Conns : conn'[d].todo = conn[d].todo
      <3>1. CASE SendTaskEnds(c)
        <4>1. conn' = [conn EXCEPT ![c].sending = FALSE]
          BY <3>1, Zenon DEF SendTaskEnds
        <4> QED
          BY <2>0, <4>1, SendingCleared
      <3>2. CASE RecvTaskEnds(c)
        BY <2>0, <3>2, ReceivingCleared, Zenon DEF RecvTaskEnds
      <3>3. CASE Unregister(c)
        BY <2>0, <3>3, PhaseMoved, Zenon DEF Unregister
      <3> QED
        BY <1>7, <3>1, <3>2, <3>3, Zenon
    <2> QED
      BY <1>0, <1>7, <2>1 DEF SendTaskEnds, RecvTaskEnds, Unregister
  <1>8. ASSUME NEW c \in Conns, Free(c) PROVE QueueInv'
    BY <1>0, <1>8, ZenonT(60) DEF Free, FreeConn, TypeOK
  <1>9. ASSUME NEW h \in Handlers, QueueMessage(h) PROVE QueueInv'
    <2> DEFINE k == task[h].key
    <2>1. CASE UNCHANGED <<queue, accepted>>
      BY <1>1, <1>9, <2>1, Zenon DEF QueueMessage
    <2>2. CASE /\ queue' = [queue EXCEPT ![k] = "fresh"]
               /\ accepted' = accepted \cup {k}
      <3>1. k \in Key /\ k.id \in Ids
        BY <1>0, <1>9, SMTT(30) DEF QueueMessage, TypeOK, TaskInv, At, Task
      <3> QED
        BY <1>0, <1>9, <2>2, <3>1, IdsAssumption, ZenonT(60) DEF QueueMessage, TypeOK
    <2> QED
      BY <1>9, <2>1, <2>2, Zenon DEF QueueMessage
  <1>10. ASSUME NEW h \in Handlers, StoreDirect(h) PROVE QueueInv'
    BY <1>0, <1>10, IdsAssumption, ZenonT(60) DEF StoreDirect, TypeOK, TaskInv, At, Task, Key, HttpKey
  <1>11. ASSUME NEW h \in Handlers,
                CheckDuplicate(h) \/ EvictExpired(h) \/ MarkSeen(h) \/ PushLive(h)
         PROVE  QueueInv'
    BY <1>1, <1>11, Zenon DEF CheckDuplicate, EvictExpired, MarkSeen, PushLive
  <1>12. ASSUME NEW h \in Handlers, Request(h) PROVE QueueInv'
    BY <1>1, <1>12 DEF Request, RouteMessage, SendMessageHandler, RouteWebrtc, PushOrStore
  <1>13. ASSUME NEW u \in Users, InboxHandler(u) PROVE QueueInv'
    <2>1. queue' = queue
      BY <1>0, <1>13, Zenon DEF InboxHandler, TypeOK
    <2> QED
      BY <1>0, <1>13, <2>1, Zenon DEF InboxHandler
  <1>14. CASE Clock
    BY <1>1, <1>14, Zenon DEF Clock, AgeDedup, PruneRemove, AgeQueue, PruneScan
  <1>15. CASE Crash
    BY <1>0, <1>15 DEF Crash, FreeConn
  <1> QED
    BY <1>1, <1>2, <1>3, <1>4, <1>5, <1>6, <1>7, <1>8, <1>9, <1>10, <1>11, <1>12, <1>13,
       <1>14, <1>15, ZenonT(60) DEF Next, Serve, Connection, Handler, vars

\* As long as queue entries do not expire and the inbox stays closed, an
\* envelope that was queued stays in the queue until its recipient has
\* received and acknowledged it: for any number of connections, senders,
\* retries and crashes.
THEOREM QueueKeeps ==
    ASSUME "queue" \notin Ageing, "inbox_fetch" \notin Limits
    PROVE  Spec => []QueuedUntilAcked
  <1>1. QueueInv /\ [Next]_vars => QueueInv'
    BY QueueInvNext
  <1>2. QueueInv => QueuedUntilAcked
    BY DEF QueueInv
  <1> QED
    BY <1>1, <1>2, QueueInvInit, PTL DEF Spec

-----------------------------------------------------------------------------
(* The clients map *)

\* Only Connect, Unregister and a crash touch the map, and a connection's user
\* never changes while it is registered.
LEMMA ClientsNext == TypeOK /\ ClientsAreLive /\ [Next]_vars => ClientsAreLive'
  <1> SUFFICES ASSUME TypeOK, ClientsAreLive, [Next]_vars PROVE ClientsAreLive'
    BY Zenon
  <1>0. conn \in [Conns -> Conn] /\ clients \in [Users -> Conns \cup {None}]
    BY DEF TypeOK
  <1>1. CASE UNCHANGED <<clients, conn>>
    BY <1>1, Zenon DEF ClientsAreLive
  <1>2. ASSUME NEW c \in Conns, NEW u \in Users, Connect(c, u) PROVE ClientsAreLive'
    BY <1>0, <1>2, NoneAssumption DEF ClientsAreLive, Connect
  <1>3. ASSUME NEW c \in Conns,
               DeliverQueued(c) \/ RemoveDelivered(c) \/ SendTaskEnds(c) \/ RecvTaskEnds(c)
        PROVE  ClientsAreLive'
    <2>1. /\ clients' = clients
          /\ \A d \in Conns :
                 /\ conn'[d].user = conn[d].user
                 /\ \/ conn'[d].phase = conn[d].phase
                    \/ conn'[d].phase \in {"pruning", "open"}
      BY <1>0, <1>3 DEF DeliverQueued, RemoveDelivered, SendTaskEnds, RecvTaskEnds, Conn
    <2> QED
      BY <1>0, <2>1 DEF ClientsAreLive
  <1>4. ASSUME NEW c \in Conns, Unregister(c) PROVE ClientsAreLive'
    <2>1. /\ \A d \in Conns : d # c => conn'[d] = conn[d]
          /\ clients' = [clients EXCEPT ![conn[c].user] = None]
      BY <1>0, <1>4, Zenon DEF Unregister
    <2> QED
      BY <1>0, <2>1 DEF ClientsAreLive
  <1>5. ASSUME NEW c \in Conns, Free(c) PROVE ClientsAreLive'
    <2>1. /\ clients' = clients /\ conn[c].phase = "ended"
          /\ \A d \in Conns : d # c => conn'[d] = conn[d]
      BY <1>0, <1>5, Zenon DEF Free
    <2>2. ASSUME NEW u \in Users, clients[u] # None
          PROVE  clients[u] \in Conns /\ clients[u] # c
      <3>1. clients[u] \in Conns
        BY <1>0, <2>2, Zenon
      <3>2. conn[clients[u]].phase \in {"delivering", "pruning", "open"}
        BY <2>2, Zenon DEF ClientsAreLive
      <3>3. conn[clients[u]].phase # conn[c].phase
        BY <2>1, <3>2, Zenon
      <3> QED
        BY <3>1, <3>3, Zenon
    <2> QED
      BY <2>1, <2>2, ZenonT(60) DEF ClientsAreLive
  <1>6. CASE Crash
    BY <1>6, Zenon DEF Crash, ClientsAreLive
  <1> USE DEF database, sockets, history
  <1>7. ASSUME NEW c \in Conns, NEW k \in Key, SendTask(c, k) \/ HandleAck(c, k)
        PROVE  ClientsAreLive'
    BY <1>1, <1>7, Zenon DEF SendTask, HandleAck
  <1>8. ASSUME NEW h \in Handlers, Handler(h) \/ Request(h) PROVE ClientsAreLive'
    BY <1>1, <1>8, ZenonT(60) DEF Handler, CheckDuplicate, EvictExpired, MarkSeen, QueueMessage,
       PushLive, StoreDirect, Request, RouteMessage, SendMessageHandler, RouteWebrtc, PushOrStore
  <1>9. ASSUME NEW u \in Users, InboxHandler(u) PROVE ClientsAreLive'
    BY <1>1, <1>9, Zenon DEF InboxHandler
  <1>10. CASE Clock
    BY <1>1, <1>10 DEF Clock, AgeDedup, PruneRemove, AgeQueue, PruneScan
  <1> QED
    BY <1>1, <1>2, <1>3, <1>4, <1>5, <1>6, <1>7, <1>8, <1>9, <1>10
       DEF Next, Serve, Connection, vars

\* The map of connected clients never points at a connection that has ended or
\* that belongs to somebody else, so a push reaches nobody but the recipient.
THEOREM PushReachesRecipient == Spec => []ClientsAreLive
  <1>1. Init => ClientsAreLive
    BY Zenon DEF Init, ClientsAreLive
  <1> QED
    BY <1>1, ClientsNext, TypeCorrect, PTL DEF Spec

-----------------------------------------------------------------------------
(* Nothing queued is overlooked by a connection *)

\* The message is bound for the connection that is registered for its user.
Bound(k) ==
    LET c == clients[k.to]
    IN  /\ queue[k] = "fresh"
        /\ c # None
        /\ conn[c].phase \in {"pruning", "open"}
        /\ conn[c].sending
        /\ \A h \in Handlers : At(h, "push") => task[h].key # k
        => k \in chan[c]

\* The inductive invariant behind RoutedIsUnderWay.
WayInv ==
    /\ TypeOK
    /\ TaskInv
    /\ ClientsAreLive
    /\ \A k \in accepted \ (received \cup HttpKey) : k.id \in Ids /\ Bound(k)

\* The relay starts with nothing queued.
LEMMA WayInvInit == Init => WayInv
  BY InitType, Zenon DEF Init, WayInv, TaskInv, ClientsAreLive

\* Queueing precedes the look at the clients map, and registration precedes
\* the look at the queue: whichever comes second sees the other.
LEMMA WayInvNext == WayInv /\ [Next]_vars => WayInv'
  <1> SUFFICES ASSUME WayInv, [Next]_vars PROVE WayInv'
    BY Zenon
  <1>0. /\ TypeOK /\ TypeOK' /\ TaskInv /\ TaskInv'
        /\ ClientsAreLive /\ ClientsAreLive'
    BY NextType, TaskInvNext, ClientsNext, Zenon DEF WayInv
  <1>a. /\ conn \in [Conns -> Conn]
        /\ chan \in [Conns -> SUBSET Key]
        /\ clients \in [Users -> Conns \cup {None}]
        /\ queue \in [Key -> Entry]
        /\ task \in [Handlers -> Task \cup {None}]
        /\ accepted \subseteq Key
        /\ \A k \in Key : k.to \in Users
    BY <1>0 DEF TypeOK, Key
  <1> DEFINE Old == accepted \ (received \cup HttpKey)
  <1>b. \A k \in Old : k.id \in Ids /\ Bound(k) /\ k \in Key
    BY <1>a DEF WayInv
  <1> USE DEF database, sockets, history
  <1>1. CASE /\ UNCHANGED <<clients, conn, received>>
             /\ accepted' \ HttpKey \subseteq accepted
             /\ \A k \in Key : k.id \in Ids /\ queue'[k] = "fresh" => queue[k] = "fresh"
             /\ \A c \in Conns : chan[c] \subseteq chan'[c]
             /\ \A h \in Handlers : At(h, "push") => task'[h] = task[h]
    <2>1. \A k \in Old : Bound(k)'
      BY <1>a, <1>b, <1>1 DEF Bound, At
    <2> QED
      BY <1>0, <1>b, <1>1, <2>1, Zenon DEF WayInv
  <1>2. ASSUME NEW c \in Conns, NEW u \in Users, Connect(c, u) PROVE WayInv'
    <2>1. \A k \in Old : Bound(k)'
      BY <1>a, <1>b, <1>2, NoneAssumption, ZenonT(60) DEF Bound, At, Connect
    <2> QED
      BY <1>0, <1>b, <1>2, <2>1, Zenon DEF WayInv, Connect
  <1>3. ASSUME NEW c \in Conns, DeliverQueued(c) PROVE WayInv'
    <2>1. \A k \in Key : k.to = conn[c].user /\ queue[k] = "fresh" => k \in chan'[c]
      BY <1>a, <1>3 DEF DeliverQueued
    <2>2. /\ \A d \in Conns : d # c => conn'[d] = conn[d] /\ chan'[d] = chan[d]
          /\ UNCHANGED <<queue, clients, task, received, accepted>>
      BY <1>a, <1>3, ZenonT(60) DEF DeliverQueued
    <2>3. ASSUME NEW k \in Old PROVE Bound(k)'
      BY <1>0, <1>a, <1>b, <2>1, <2>2, <2>3 DEF Bound, At, ClientsAreLive
    <2> QED
      BY <1>0, <1>b, <2>2, <2>3 DEF WayInv
  <1>4. ASSUME NEW c \in Conns,
               RemoveDelivered(c) \/ SendTaskEnds(c) \/ RecvTaskEnds(c) \/ Unregister(c) \/ Free(c)
        PROVE  WayInv'
    <2>1. /\ UNCHANGED <<task, received, accepted>>
          /\ \A k \in Key : queue'[k] = "fresh" => queue[k] = "fresh"
      BY <1>a, <1>4, Zenon DEF RemoveDelivered, SendTaskEnds, RecvTaskEnds, Unregister, Free
    <2>2. /\ \A u \in Users : clients'[u] \in {clients[u], None}
      BY <1>a, <1>4, Zenon DEF RemoveDelivered, SendTaskEnds, RecvTaskEnds, Unregister, Free
    <2>3. \A d \in Conns : conn'[d].sending =>
              /\ conn[d].sending
              /\ conn'[d].phase \in {"pruning", "open"} => conn[d].phase \in {"pruning", "open"}
              /\ chan'[d] = chan[d]
      <3>1. CASE RemoveDelivered(c) /\ conn[c].todo = {}
        <4>1. chan' = chan /\ conn[c].phase = "pruning" /\ conn' = [conn EXCEPT ![c].phase = "open"]
          BY <3>1, Zenon DEF RemoveDelivered
        <4> QED
          BY <1>a, <4>1, PhaseMoved, ZenonT(60)
      <3>2. CASE RemoveDelivered(c) /\ conn[c].todo # {}
        <4>1. chan' = chan /\ \E k : conn' = [conn EXCEPT ![c].todo = @ \ {k}]
          BY <3>2, Zenon DEF RemoveDelivered
        <4> QED
          BY <1>a, <4>1, TodoShrunk, ZenonT(60)
      <3>3. CASE SendTaskEnds(c)
        <4>1. conn' = [conn EXCEPT ![c].sending = FALSE] /\ \A d \in Conns : d # c => chan'[d] = chan[d]
          BY <1>a, <3>3, Zenon DEF SendTaskEnds
        <4> QED
          BY <1>a, <4>1, SendingCleared, ZenonT(60)
      <3>4. CASE RecvTaskEnds(c)
        BY <1>a, <3>4, ReceivingCleared, ZenonT(60) DEF RecvTaskEnds
      <3>5. CASE Unregister(c)
        <4>1. chan' = chan /\ conn[c].phase = "open" /\ conn' = [conn EXCEPT ![c].phase = "ended"]
          BY <3>5, Zenon DEF Unregister
        <4> QED
          BY <1>a, <4>1, PhaseMoved, ZenonT(60)
      <3>6. CASE Free(c)
        <4>1. chan' = chan /\ conn' = [conn EXCEPT ![c] = FreeConn] /\ ~FreeConn.sending
          BY <3>6, Zenon DEF Free, FreeConn
        <4> QED
          BY <1>a, <4>1, ZenonT(60)
      <3> QED
        BY <1>4, <3>1, <3>2, <3>3, <3>4, <3>5, <3>6, Zenon
    <2>4. \A k \in Old : Bound(k)'
      BY <1>a, <1>b, <2>1, <2>2, <2>3 DEF Bound, At
    <2> QED
      BY <1>0, <1>b, <2>1, <2>4, Zenon DEF WayInv
  <1>5. ASSUME NEW c \in Conns, NEW k \in Key, SendTask(c, k) PROVE WayInv'
    <2>1. \A x \in Key : x # k => (\A d \in Conns : x \in chan[d] => x \in chan'[d])
      BY <1>a, <1>5 DEF SendTask
    <2>2. UNCHANGED <<queue, clients, conn, task, accepted>> /\ received' = received \cup {k}
      BY <1>5, Zenon DEF SendTask
    <2>3. \A x \in Old : x # k => Bound(x)'
      BY <1>a, <1>b, <2>1, <2>2, Zenon DEF Bound, At
    <2> QED
      BY <1>0, <1>b, <2>2, <2>3, Zenon DEF WayInv
  <1>6. ASSUME NEW c \in Conns, NEW k \in Key, HandleAck(c, k) PROVE WayInv'
    BY <1>a, <1>1, <1>6, Zenon DEF HandleAck
  <1>7. ASSUME NEW h \in Handlers, CheckDuplicate(h) \/ EvictExpired(h) \/ MarkSeen(h)
        PROVE  WayInv'
    <2>1. \A g \in Handlers : At(g, "push") => task'[g] = task[g]
      BY <1>a, <1>7, ZenonT(60) DEF CheckDuplicate, EvictExpired, MarkSeen, At, Goto, Return
    <2> QED
      BY <1>1, <1>7, <2>1, Zenon DEF CheckDuplicate, EvictExpired, MarkSeen
  <1>8. ASSUME NEW h \in Handlers, QueueMessage(h) PROVE WayInv'
    <2>0. PICK k \in Key : k = task[h].key
      BY <1>a, <1>8 DEF QueueMessage, At, Task
    <2>1. /\ UNCHANGED <<clients, conn, chan, received>>
          /\ \A g \in Handlers : At(g, "push") => task'[g] = task[g]
      BY <1>a, <1>8, Zenon DEF QueueMessage, At, Goto, Return
    <2>2. CASE UNCHANGED <<queue, accepted>>
      BY <1>1, <2>1, <2>2, Zenon
    <2>3. CASE /\ queue' = [queue EXCEPT ![k] = "fresh"]
               /\ accepted' = accepted \cup {k}
               /\ Goto(h, "push")
      <3>a. k.id \in Ids
        BY <1>0, <1>8, <2>0 DEF QueueMessage, TaskInv, At
      <3>b. task' = [task EXCEPT ![h] = [@ EXCEPT !.pc = "push"]]
        BY <2>3 DEF Goto
      <3>c. task[h] \in Task /\ task'[h] = [task[h] EXCEPT !.pc = "push"]
        BY <1>a, <1>8, <3>b DEF QueueMessage, At
      <3>d. task'[h].pc = "push" /\ task'[h].key = k
        BY <2>0, <3>c DEF Task
      <3>f. task'[h] # None
        BY <3>c, NoneAssumption DEF Task
      <3>1. At(h, "push")' /\ task'[h].key = k
        BY <3>d, <3>f, Zenon DEF At
      <3>2. Bound(k)'
        BY <3>1, Zenon DEF Bound
      <3>3. ASSUME NEW x \in Old, x # k PROVE Bound(x)'
        <4>1. x \in Key /\ Bound(x)
          BY <1>a, <1>b, Zenon
        <4>2. queue'[x] = queue[x] /\ UNCHANGED <<clients, conn, chan>>
          BY <1>a, <2>1, <2>3, <3>3, <4>1, Zenon
        <4>3. (\A g \in Handlers : At(g, "push")' => task'[g].key # x)
                  => \A g \in Handlers : At(g, "push") => task[g].key # x
          BY <2>1, Zenon DEF At
        <4> QED
          BY <4>1, <4>2, <4>3, Zenon DEF Bound
      <3> QED
        BY <1>0, <1>b, <2>1, <2>3, <3>a, <3>1, <3>2, <3>3, Zenon DEF WayInv
    <2> QED
      BY <1>8, <2>0, <2>2, <2>3, Zenon DEF QueueMessage
  <1>9. ASSUME NEW h \in Handlers, PushLive(h) PROVE WayInv'
    <2>0. PICK k \in Key : k = task[h].key
      BY <1>a, <1>9, Zenon DEF PushLive, At, Task
    <2>1. /\ UNCHANGED <<queue, clients, conn, received, accepted>>
          /\ \A g \in Handlers : g # h => task'[g] = task[g]
          /\ \A c \in Conns : chan[c] \subseteq chan'[c]
      BY <1>a, <1>9, Zenon DEF PushLive, PushTo, Return
    <2>2. CanPush(k.to) => k \in chan'[clients[k.to]]
      BY <1>a, <1>9, <2>0, Zenon DEF PushLive, PushTo, CanPush
    <2>3. k \in Old => Bound(k)'
      BY <1>a, <2>0, <2>1, <2>2, ZenonT(60) DEF Bound, CanPush
    <2>4. \A x \in Old : x # k => Bound(x)'
      BY <1>a, <1>b, <2>0, <2>1, SMTT(30) DEF Bound, At
    <2> QED
      BY <1>0, <1>b, <2>1, <2>3, <2>4, SMTT(30) DEF WayInv
  <1>10. ASSUME NEW h \in Handlers, StoreDirect(h) PROVE WayInv'
    <2>1. /\ task[h].key \in Key /\ task[h].key.id \notin Ids
      BY <1>0, <1>10, IdsAssumption, ZenonT(60) DEF StoreDirect, TypeOK, TaskInv, At, Task
    <2>2. \A g \in Handlers : At(g, "push") => task'[g] = task[g]
      BY <1>a, <1>10, Zenon DEF StoreDirect, At, Return
    <2>3. \A k \in Key : k.id \in Ids => queue'[k] = queue[k]
      BY <1>a, <1>10, <2>1, ZenonT(60) DEF StoreDirect
    <2> QED
      BY <1>1, <1>10, <2>2, <2>3, Zenon DEF StoreDirect
  <1>11. ASSUME NEW h \in Handlers, Request(h) PROVE WayInv'
    <2>1. PICK k \in Key : \/ \E signed \in Signatures : RouteMessage(h, k, signed)
                           \/ SendMessageHandler(h, k)
                           \/ RouteWebrtc(h, k)
      BY <1>11, Zenon DEF Request
    <2>2. \A g \in Handlers : At(g, "push") => task'[g] = task[g]
      BY <1>a, <2>1, Zenon DEF RouteMessage, SendMessageHandler, RouteWebrtc, PushOrStore, At
    <2>3. \A c \in Conns : chan[c] \subseteq chan'[c]
      BY <1>a, <2>1, ZenonT(120) DEF RouteMessage, SendMessageHandler, RouteWebrtc, PushOrStore,
         PushTo
    <2> QED
      BY <1>1, <2>1, <2>2, <2>3
         DEF RouteMessage, SendMessageHandler, RouteWebrtc, PushOrStore
  <1>12. ASSUME NEW u \in Users, InboxHandler(u) PROVE WayInv'
    <2>1. /\ UNCHANGED <<clients, conn, chan, task, accepted>>
          /\ received \subseteq received'
          /\ \A k \in Key : queue'[k] = "fresh" => queue[k] = "fresh"
      BY <1>a, <1>12, Zenon DEF InboxHandler
    <2>2. \A k \in Old : Bound(k)'
      BY <1>b, <2>1, SMTT(30) DEF Bound, At
    <2> QED
      BY <1>0, <1>b, <2>1, <2>2, Zenon DEF WayInv
  <1>13. CASE Clock
    BY <1>a, <1>1, <1>13, ZenonT(60) DEF Clock, AgeDedup, PruneRemove, AgeQueue, PruneScan
  <1>14. CASE Crash
    BY <1>0, <1>a, <1>b, <1>14, SMTT(30) DEF Crash, WayInv, Bound
  <1>15. CASE UNCHANGED vars
    BY <1>1, <1>15, Zenon DEF vars
  <1> QED
    BY <1>2, <1>3, <1>4, <1>5, <1>6, <1>7, <1>8, <1>9, <1>10, <1>11, <1>12, <1>13, <1>14,
       <1>15, ZenonT(60) DEF Next, Serve, Connection, Handler

\* No envelope falls between the queue and a connection: once a registered
\* connection has read the queue, every envelope queued for its user and not
\* yet received is in its channel, or the handler that queued it is about to
\* push it.
THEOREM NothingOverlooked == Spec => []RoutedIsUnderWay
  <1>1. WayInv => RoutedIsUnderWay
    BY SMTT(30) DEF WayInv, RoutedIsUnderWay, Bound
  <1> QED
    BY <1>1, WayInvInit, WayInvNext, PTL DEF Spec

-----------------------------------------------------------------------------
(* The relay implements the mailbox *)

\* Every copy of a routed envelope that is on its way to a recipient, in the
\* queue, in a handler or in a channel, is one of an accepted envelope.
CopiesInv ==
    /\ \A k \in Routed : queue[k] = "fresh" => k \in accepted
    /\ \A h \in Handlers : At(h, "push") => task[h].key \in accepted
    /\ \A c \in Conns : \A k \in chan[c] : k \in Routed => k \in accepted

\* Without expiry nothing ceases to be accepted, and a copy is made only of
\* what was queued.
LEMMA CopiesInvNext ==
    ASSUME "queue" \notin Ageing, "inbox_fetch" \notin Limits, QueueInv, CopiesInv, [Next]_vars
    PROVE  CopiesInv' /\ accepted \subseteq accepted'
  <1>0. /\ queue \in [Key -> Entry]
        /\ conn \in [Conns -> Conn]
        /\ chan \in [Conns -> SUBSET Key]
        /\ task \in [Handlers -> Task \cup {None}]
        /\ clients \in [Users -> Conns \cup {None}]
        /\ Routed \subseteq Key
        /\ TaskInv
    BY Zenon DEF QueueInv, TypeOK, Routed, Key
  <1> USE DEF CopiesInv, database, sockets, history
  <1>1. CASE /\ \A k \in Routed : queue'[k] = "fresh" => queue[k] = "fresh"
             /\ \A h \in Handlers : At(h, "push")' => task'[h] = task[h]
             /\ \A c \in Conns : chan'[c] \subseteq chan[c]
             /\ accepted \subseteq accepted'
    BY <1>0, <1>1 DEF At
  <1>2. ASSUME NEW c \in Conns, DeliverQueued(c) PROVE CopiesInv' /\ accepted \subseteq accepted'
    <2>1. \A d \in Conns : \A k \in chan'[d] : k \in chan[d] \/ queue[k] = "fresh"
      BY <1>0, <1>2, Zenon DEF DeliverQueued
    <2> QED
      BY <1>0, <1>2, <2>1 DEF DeliverQueued, At
  <1>3. ASSUME NEW c \in Conns, Connection(c), ~DeliverQueued(c)
        PROVE  CopiesInv' /\ accepted \subseteq accepted'
    <2>1. /\ UNCHANGED <<task, accepted>>
          /\ \A k \in Key : queue'[k] = "fresh" => queue[k] = "fresh"
      BY <1>0, <1>3, Zenon DEF Connection, Connect, RemoveDelivered, SendTask, HandleAck,
         SendTaskEnds, RecvTaskEnds, Unregister, Free
    <2>2. \A d \in Conns : chan'[d] \subseteq chan[d]
      BY <1>0, <1>3, ZenonT(120) DEF Connection, Connect, RemoveDelivered, SendTask, HandleAck,
         SendTaskEnds, RecvTaskEnds, Unregister, Free
    <2> QED
      BY <1>0, <1>1, <2>1, <2>2, Zenon
  <1>4. ASSUME NEW h \in Handlers, CheckDuplicate(h) \/ EvictExpired(h) \/ MarkSeen(h)
        PROVE  CopiesInv' /\ accepted \subseteq accepted'
    <2>1. \A g \in Handlers : At(g, "push")' => task'[g] = task[g]
      BY <1>0, <1>4, SMTT(30) DEF CheckDuplicate, EvictExpired, MarkSeen, At, Goto, Return, Task
    <2> QED
      BY <1>1, <1>4, <2>1, Zenon DEF CheckDuplicate, EvictExpired, MarkSeen
  <1>5. ASSUME NEW h \in Handlers, QueueMessage(h)
        PROVE  CopiesInv' /\ accepted \subseteq accepted'
    <2>0. PICK k \in Key : k = task[h].key
      BY <1>0, <1>5, Zenon DEF QueueMessage, At, Task
    <2>1. CASE UNCHANGED <<queue, accepted>> /\ Return(h)
      BY <1>0, <1>1, <1>5, <2>1, SMTT(30) DEF QueueMessage, At, Return
    <2>2. CASE /\ queue' = [queue EXCEPT ![k] = "fresh"]
               /\ accepted' = accepted \cup {k}
               /\ Goto(h, "push")
      <3>1. \A x \in Routed : queue'[x] = "fresh" => x \in accepted'
        BY <1>0, <2>2, Zenon
      <3>2. task[h] \in Task /\ task'[h].key = k /\ \A g \in Handlers : g # h => task'[g] = task[g]
        BY <1>0, <1>5, <2>0, <2>2, ZenonT(60) DEF QueueMessage, At, Goto, Task
      <3>3. \A g \in Handlers : At(g, "push")' => task'[g].key \in accepted'
        BY <2>2, <3>2, SMTT(30) DEF At
      <3> QED
        BY <1>5, <2>2, <3>1, <3>3, Zenon DEF QueueMessage
    <2> QED
      BY <1>5, <2>0, <2>1, <2>2, Zenon DEF QueueMessage
  <1>6. ASSUME NEW h \in Handlers, PushLive(h) PROVE CopiesInv' /\ accepted \subseteq accepted'
    <2>1. \A d \in Conns : \A k \in chan'[d] : k \in chan[d] \/ k = task[h].key
      BY <1>0, <1>6, Zenon DEF PushLive, PushTo, CanPush
    <2>2. \A g \in Handlers : At(g, "push")' => task'[g] = task[g]
      BY <1>0, <1>6, SMTT(30) DEF PushLive, At, Return
    <2> QED
      BY <1>6, <2>1, <2>2, ZenonT(60) DEF PushLive, At
  <1>7. ASSUME NEW h \in Handlers, StoreDirect(h)
        PROVE  CopiesInv' /\ accepted \subseteq accepted'
    <2>1. task[h].key \in Key \ Routed
      BY <1>0, <1>7, Zenon DEF StoreDirect, TaskInv, At, Task, Routed
    <2>2. \A k \in Routed : queue'[k] = queue[k]
      BY <1>0, <1>7, <2>1, Zenon DEF StoreDirect
    <2>3. \A g \in Handlers : At(g, "push")' => task'[g] = task[g]
      BY <1>0, <1>7, SMTT(30) DEF StoreDirect, At, Return
    <2> QED
      BY <1>1, <1>7, <2>2, <2>3, Zenon DEF StoreDirect
  <1>8. ASSUME NEW h \in Handlers, Request(h) PROVE CopiesInv' /\ accepted \subseteq accepted'
    <2>1. PICK k \in Key : \/ \E signed \in Signatures : RouteMessage(h, k, signed)
                           \/ SendMessageHandler(h, k)
                           \/ RouteWebrtc(h, k)
      BY <1>8, SMTT(30) DEF Request
    <2>2. /\ UNCHANGED <<queue, accepted>>
          /\ \A g \in Handlers : At(g, "push")' => task'[g] = task[g]
      <3>1. UNCHANGED <<queue, accepted>>
        BY <2>1, Zenon DEF RouteMessage, SendMessageHandler, RouteWebrtc, PushOrStore
      <3>2. task' = task \/ \E r : task' = [task EXCEPT ![h] = r] /\ (r # None => r.pc # "push")
        <4> DEFINE Waiting(pc, b) == [pc |-> pc, key |-> k, signed |-> b]
        <4>1. \/ task' = task
              \/ task' = [task EXCEPT ![h] = Waiting("store", TRUE)]
              \/ \E b \in Signatures : task' = [task EXCEPT ![h] = Waiting("check", b)]
          BY <2>1, Zenon DEF RouteMessage, SendMessageHandler, RouteWebrtc, PushOrStore
        <4>2. \A b : Waiting("store", b).pc # "push" /\ Waiting("check", b).pc # "push"
          BY Zenon
        <4> HIDE DEF Waiting
        <4> QED
          BY <4>1, <4>2, Zenon
      <3> QED
        BY <1>0, <3>1, <3>2, Zenon DEF TypeOK, At
    <2>3. CASE \E signed \in Signatures : RouteMessage(h, k, signed)
      BY <1>1, <2>2, <2>3, SMTT(30) DEF RouteMessage
    <2>4. CASE k.id \notin Ids /\ PushOrStore(h, k)
      <3>1. \A d \in Conns : \A x \in chan'[d] : x \in chan[d] \/ x = k
        BY <1>0, <2>4, SMTT(30) DEF PushOrStore, PushTo, CanPush
      <3> QED
        BY <2>2, <2>4, <3>1, Zenon DEF Routed, At
    <2> QED
      BY <2>1, <2>3, <2>4, IdsAssumption, ZenonT(60) DEF SendMessageHandler, RouteWebrtc
  <1>9. ASSUME NEW u \in Users, InboxHandler(u) PROVE CopiesInv' /\ accepted \subseteq accepted'
    BY <1>0, <1>1, <1>9, Zenon DEF InboxHandler
  <1>10. CASE Clock
    BY <1>1, <1>10, ZenonT(60) DEF Clock, AgeDedup, PruneRemove, AgeQueue, PruneScan
  <1>11. CASE Crash
    BY <1>11, SMTT(30) DEF Crash, At
  <1>12. CASE UNCHANGED vars
    BY <1>1, <1>12, Zenon DEF vars
  <1> QED
    BY <1>2, <1>3, <1>4, <1>5, <1>6, <1>7, <1>8, <1>9, <1>10, <1>11, <1>12, Zenon
       DEF Next, Serve, Handler

\* Queueing an envelope is the mailbox's Accept, the send task's delivery its
\* Hand, an acknowledgement its Confirm; everything else leaves it as it is.
LEMMA MailStep ==
    ASSUME "queue" \notin Ageing, "inbox_fetch" \notin Limits, QueueInv, CopiesInv, [Next]_vars
    PROVE  [Mail!Next]_(Mail!vars)
  <1>0. /\ queue \in [Key -> Entry]
        /\ conn \in [Conns -> Conn]
        /\ task \in [Handlers -> Task \cup {None}]
        /\ Routed \subseteq Key
        /\ TaskInv
        /\ \A c \in Conns : \A k \in conn[c].todo : k.id \in Signals
    BY Zenon DEF QueueInv, TypeOK, Routed, Key
  <1> USE DEF database, sockets, history
  <1>1. CASE /\ \A k \in Routed : queue'[k] = queue[k]
             /\ accepted' \cap Routed = accepted \cap Routed
             /\ UNCHANGED <<received, acked>>
    BY <1>1 DEF Mail!vars
  <1>2. ASSUME NEW c \in Conns, RemoveDelivered(c) PROVE [Mail!Next]_(Mail!vars)
    <2>1. \A k \in Routed : queue'[k] = queue[k]
      BY <1>0, <1>2, IdsAssumption DEF RemoveDelivered, Routed
    <2> QED
      BY <1>1, <1>2, <2>1 DEF RemoveDelivered
  <1>3. ASSUME NEW c \in Conns, NEW k \in Key, SendTask(c, k) PROVE [Mail!Next]_(Mail!vars)
    <2>1. CASE k \in Routed
      <3>1. k \in accepted \cap Routed
        BY <1>3, <2>1 DEF SendTask, CopiesInv
      <3>2. received' \cap Routed = (received \cap Routed) \cup {k}
        BY <1>3, <2>1, Zenon DEF SendTask
      <3>3. Mail!Hand(k)
        BY <1>3, <3>1, <3>2, Zenon DEF SendTask, Mail!Hand
      <3> QED
        BY <2>1, <3>3, Zenon DEF Mail!Next
    <2>2. CASE k \notin Routed
      <3>1. received' \cap Routed = received \cap Routed
        BY <1>3, <2>2 DEF SendTask
      <3> QED
        BY <1>3, <3>1, Zenon DEF SendTask, Mail!vars
    <2> QED
      BY <2>1, <2>2
  <1>4. ASSUME NEW c \in Conns, NEW k \in Key, HandleAck(c, k) PROVE [Mail!Next]_(Mail!vars)
    <2>1. CASE k \in Routed
      <3>1. {x \in Routed : queue'[x] = "fresh"} = {x \in Routed : queue[x] = "fresh"} \ {k}
        BY <1>0, <1>4, <2>1, Zenon DEF HandleAck
      <3>2. acked' \cap Routed = (acked \cap Routed) \cup {k}
        BY <1>4, <2>1, Zenon DEF HandleAck
      <3>3. k \in received \cap Routed
        BY <1>4, <2>1, Zenon DEF HandleAck
      <3>4. Mail!Confirm(k)
        BY <1>4, <3>1, <3>2, <3>3, Zenon DEF HandleAck, Mail!Confirm
      <3> QED
        BY <2>1, <3>4, Zenon DEF Mail!Next
    <2>2. CASE k \notin Routed
      <3>1. acked' \cap Routed = acked \cap Routed
        BY <1>4, <2>2, Zenon DEF HandleAck
      <3>2. \A x \in Routed : queue'[x] = queue[x]
        BY <1>0, <1>4, <2>2, Zenon DEF HandleAck
      <3> QED
        BY <1>4, <3>1, <3>2, Zenon DEF HandleAck, Mail!vars
    <2> QED
      BY <2>1, <2>2, Zenon
  <1>5. ASSUME NEW c \in Conns, Connection(c) PROVE [Mail!Next]_(Mail!vars)
    <2>1. CASE \/ \E u \in Users : Connect(c, u)
               \/ DeliverQueued(c) \/ SendTaskEnds(c) \/ RecvTaskEnds(c)
               \/ Unregister(c) \/ Free(c)
      BY <1>1, <2>1, Zenon
         DEF Connect, DeliverQueued, SendTaskEnds, RecvTaskEnds, Unregister, Free
    <2> QED
      BY <1>2, <1>3, <1>4, <1>5, <2>1 DEF Connection
  <1>6. ASSUME NEW h \in Handlers, QueueMessage(h) PROVE [Mail!Next]_(Mail!vars)
    <2>0. PICK k \in Routed : k = task[h].key
      BY <1>0, <1>6, Zenon DEF QueueMessage, At, Task, TaskInv, Key, Routed
    <2>1. CASE UNCHANGED <<queue, accepted>>
      BY <1>1, <1>6, <2>1 DEF QueueMessage
    <2>2. CASE /\ queue' = [queue EXCEPT ![k] = "fresh"]
               /\ accepted' = accepted \cup {k}
      <3>1. {x \in Routed : queue'[x] = "fresh"} = {x \in Routed : queue[x] = "fresh"} \cup {k}
        BY <1>0, <2>2
      <3>2. accepted' \cap Routed = (accepted \cap Routed) \cup {k}
        BY <2>2, Zenon
      <3>3. Mail!Accept(k)
        BY <1>6, <3>1, <3>2, SMTT(30) DEF QueueMessage, Mail!Accept
      <3> QED
        BY <3>3, Zenon DEF Mail!Next
    <2> QED
      BY <1>6, <2>0, <2>1, <2>2, Zenon DEF QueueMessage
  <1>7. ASSUME NEW h \in Handlers, StoreDirect(h) PROVE [Mail!Next]_(Mail!vars)
    <2>1. task[h].key \in Key \ Routed
      BY <1>0, <1>7, Zenon DEF StoreDirect, TaskInv, At, Task, Routed
    <2>2. \A k \in Routed : queue'[k] = queue[k]
      BY <1>0, <1>7, <2>1, Zenon DEF StoreDirect
    <2>3. accepted' \cap Routed = accepted \cap Routed
      BY <1>7, <2>1, SMTT(30) DEF StoreDirect
    <2> QED
      BY <1>1, <1>7, <2>2, <2>3, Zenon DEF StoreDirect
  <1>8. ASSUME NEW h \in Handlers,
               CheckDuplicate(h) \/ EvictExpired(h) \/ MarkSeen(h) \/ PushLive(h) \/ Request(h)
        PROVE  [Mail!Next]_(Mail!vars)
    BY <1>1, <1>8, ZenonT(60) DEF CheckDuplicate, EvictExpired, MarkSeen, PushLive, Request,
       RouteMessage, SendMessageHandler, RouteWebrtc, PushOrStore
  <1>9. ASSUME NEW u \in Users, InboxHandler(u) PROVE [Mail!Next]_(Mail!vars)
    <2>1. (\A k \in Routed : queue'[k] = queue[k]) /\ received' = received
      BY <1>0, <1>9, Zenon DEF InboxHandler
    <2> QED
      BY <1>1, <1>9, <2>1, Zenon DEF InboxHandler
  <1>10. CASE Clock \/ Crash \/ UNCHANGED vars
    BY <1>1, <1>10 DEF Clock, AgeDedup, PruneRemove, AgeQueue, PruneScan, Crash, vars
  <1> QED
    BY <1>5, <1>6, <1>7, <1>8, <1>9, <1>10, Zenon DEF Next, Serve, Handler

\* As long as queue entries do not expire and the inbox stays closed, the
\* relay implements the mailbox for the envelopes of the WebSocket route: for
\* any number of connections, senders, retries and crashes it keeps what it
\* accepted until the recipient, who got it, confirms, and hands out nothing
\* that it has not accepted.
THEOREM RelayIsMailbox ==
    ASSUME "queue" \notin Ageing, "inbox_fetch" \notin Limits
    PROVE  Spec => ImplementsMailbox
  <1>1. Init => QueueInv /\ CopiesInv
    <2>1. Routed \subseteq Key
      BY DEF Routed, Key
    <2>2. Init => CopiesInv
      BY <2>1 DEF Init, CopiesInv, At
    <2> QED
      BY <2>2, QueueInvInit
  <1>2. QueueInv /\ CopiesInv /\ [Next]_vars => QueueInv' /\ CopiesInv'
    BY QueueInvNext, CopiesInvNext, Zenon
  <1>3. Init => Mail!Init
    BY DEF Init, Mail!Init, Routed, Key
  <1>4. QueueInv /\ CopiesInv /\ [Next]_vars => [Mail!Next]_(Mail!vars)
    BY MailStep
  <1> QED
    BY <1>1, <1>2, <1>3, <1>4, PTL DEF Spec, ImplementsMailbox, Mail!Spec

-----------------------------------------------------------------------------
(* Signals ring once *)

SignalKey == {k \in Key : k.id \in Signals}

\* A handler is about to store the signal k.
Pending(h, k) == task[h] # None /\ task[h].key = k

\* The signal has not been given to a connection or to its recipient.
Unheard(k) == k \notin received /\ \A c \in Conns : k \notin chan[c]

\* What is so of every signal: before its id is drawn, and while a handler is
\* about to store it, it is nowhere; a connection that has it while it is
\* still queued is about to remove it, before its send task starts.
SignalInv(k) ==
    /\ k \notin drawn => Unheard(k) /\ queue[k] = "none" /\ \A h \in Handlers : ~Pending(h, k)
    /\ \A h \in Handlers : Pending(h, k) => Unheard(k) /\ queue[k] = "none"
    /\ \A h \in Handlers, i \in Handlers : Pending(h, k) /\ Pending(i, k) => h = i
    /\ k \in received => queue[k] = "none"
    /\ \A c \in Conns : k \in chan[c] =>
           queue[k] = "none" \/ (conn[c].phase = "pruning" /\ k \in conn[c].todo)

\* The inductive invariant behind NoGhostRinging.
GhostInv == TypeOK /\ TaskInv /\ \A k \in SignalKey : SignalInv(k)

\* The relay starts without signals.
LEMMA GhostInit == Init => GhostInv
  <1> SUFFICES ASSUME Init PROVE GhostInv
    OBVIOUS
  <1>1. TypeOK
    BY InitType
  <1>2. TaskInv
    BY Zenon DEF Init, TaskInv
  <1>3. \A k \in SignalKey : SignalInv(k)
    BY Zenon DEF Init, SignalInv, SignalKey, Pending, Unheard
  <1> QED
    BY <1>1, <1>2, <1>3 DEF GhostInv

\* A connection that has the signal k keeps it marked for removal.
KeepsMark(c, k) ==
    conn[c].phase = "pruning" /\ k \in conn[c].todo =>
        queue'[k] = "none" \/ (conn'[c].phase = "pruning" /\ k \in conn'[c].todo)

\* The signal is not queued, and stays marked where it is.
MarksStay(k) ==
    /\ queue[k] = "none" => queue'[k] = "none"
    /\ \A c \in Conns : KeepsMark(c, k)

\* A step that gives the signal to nobody and does not queue it.
Leaves(k) ==
    /\ k \in drawn' <=> k \in drawn
    /\ \A h \in Handlers : Pending(h, k)' => Pending(h, k)
    /\ queue[k] = "none" => queue'[k] = "none"
    /\ k \in received' => k \in received
    /\ \A c \in Conns : k \in chan'[c] => k \in chan[c] /\ KeepsMark(c, k)

\* Such a step keeps what is so of the signal.
LEMMA LeavesKeeps ==
    ASSUME NEW k, SignalInv(k), Leaves(k)
    PROVE  SignalInv(k)'
  <1>1. Unheard(k) => Unheard(k)'
    BY Zenon DEF Leaves, Unheard
  <1>2. k \notin drawn' =>
            Unheard(k)' /\ queue'[k] = "none" /\ \A h \in Handlers : ~Pending(h, k)'
    BY <1>1, Zenon DEF SignalInv, Leaves
  <1>3. \A h \in Handlers : Pending(h, k)' => Unheard(k)' /\ queue'[k] = "none"
    BY <1>1, Zenon DEF SignalInv, Leaves
  <1>4. \A h \in Handlers, i \in Handlers : Pending(h, k)' /\ Pending(i, k)' => h = i
    BY Zenon DEF SignalInv, Leaves
  <1>5. k \in received' => queue'[k] = "none"
    BY Zenon DEF SignalInv, Leaves
  <1>6. \A c \in Conns : k \in chan'[c] =>
            queue'[k] = "none" \/ (conn'[c].phase = "pruning" /\ k \in conn'[c].todo)
    BY Zenon DEF SignalInv, Leaves, KeepsMark
  <1> QED
    BY <1>2, <1>3, <1>4, <1>5, <1>6, Zenon DEF SignalInv

\* Steps of a connection that touch no signal: the marks stay until the queue
\* entry is gone.
LEMMA GhostConnection ==
    ASSUME TypeOK, \A k \in SignalKey : SignalInv(k), NEW c \in Conns,
           \/ \E u \in Users : Connect(c, u)
           \/ RemoveDelivered(c)
           \/ SendTaskEnds(c) \/ RecvTaskEnds(c) \/ Unregister(c) \/ Free(c)
    PROVE  \A k \in SignalKey : SignalInv(k)'
  <1>0. /\ conn \in [Conns -> Conn] /\ queue \in [Key -> Entry]
        /\ chan \in [Conns -> SUBSET Key]
    BY DEF TypeOK
  <1>1. /\ UNCHANGED <<task, drawn, received>>
        /\ \A d \in Conns : chan'[d] \subseteq chan[d]
    BY <1>0, Zenon DEF Connect, RemoveDelivered, SendTaskEnds, RecvTaskEnds, Unregister, Free, history
  <1>2. ASSUME NEW k \in SignalKey PROVE MarksStay(k)
    <2> USE DEF MarksStay
    <2>0. k \in Key
      BY Zenon DEF SignalKey
    <2>1. ASSUME NEW u \in Users, Connect(c, u) PROVE MarksStay(k)
      BY <1>0, <2>1, Zenon DEF Connect, KeepsMark, database
    <2>2. CASE RemoveDelivered(c)
      <3>1. CASE conn[c].todo = {} /\ conn' = [conn EXCEPT ![c].phase = "open"] /\ UNCHANGED queue
        BY <1>0, <3>1, Zenon DEF KeepsMark, Conn
      <3>2. ASSUME NEW j \in conn[c].todo,
                   conn' = [conn EXCEPT ![c].todo = @ \ {j}],
                   queue' = [queue EXCEPT ![j] = "none"]
            PROVE  MarksStay(k)
        <4>1. /\ conn'[c].phase = conn[c].phase
              /\ conn'[c].todo = conn[c].todo \ {j}
              /\ \A d \in Conns : d # c => conn'[d] = conn[d]
          BY <1>0, <3>2 DEF Conn
        <4>2. queue'[j] = "none" \/ j # k
          BY <1>0, <2>0, <3>2
        <4>3. j # k => queue'[k] = queue[k]
          BY <1>0, <2>0, <3>2, Zenon
        <4> QED
          BY <4>1, <4>2, <4>3, ZenonT(60) DEF KeepsMark
      <3> QED
        BY <2>2, <3>1, <3>2 DEF RemoveDelivered
    <2>3. CASE SendTaskEnds(c) \/ RecvTaskEnds(c)
      <3>1. /\ queue' = queue
            /\ \A d \in Conns : conn'[d].phase = conn[d].phase /\ conn'[d].todo = conn[d].todo
        <4>1. CASE SendTaskEnds(c)
          <5>1. queue' = queue /\ conn' = [conn EXCEPT ![c].sending = FALSE]
            BY <4>1, Zenon DEF SendTaskEnds, database
          <5> QED
            BY <1>0, <5>1, SendingCleared
        <4>2. CASE RecvTaskEnds(c)
          BY <1>0, <4>2, ReceivingCleared, ZenonT(60) DEF RecvTaskEnds, database
        <4> QED
          BY <2>3, <4>1, <4>2, Zenon
      <3> QED
        BY <3>1, Zenon DEF KeepsMark
    <2>4. CASE Unregister(c)
      <3>1. /\ queue' = queue
            /\ conn[c].phase = "open"
            /\ \A d \in Conns : d # c => conn'[d] = conn[d]
        BY <1>0, <2>4, Zenon DEF Unregister, database
      <3> QED
        BY <3>1 DEF KeepsMark
    <2>5. CASE Free(c)
      <3>1. /\ queue' = queue
            /\ conn[c].phase = "ended"
            /\ \A d \in Conns : d # c => conn'[d] = conn[d]
        BY <1>0, <2>5, Zenon DEF Free, database
      <3> QED
        BY <3>1, Zenon DEF KeepsMark
    <2> QED
      BY <2>1, <2>2, <2>3, <2>4, <2>5, Zenon
  <1>3. ASSUME NEW k \in SignalKey PROVE Leaves(k)
    BY <1>1, <1>2 DEF Leaves, MarksStay, Pending
  <1> QED
    BY <1>3, LeavesKeeps

\* deliver_queued_messages marks every signal that it gives to the connection.
LEMMA GhostDeliver ==
    ASSUME TypeOK, \A k \in SignalKey : SignalInv(k), NEW c \in Conns, DeliverQueued(c)
    PROVE  \A k \in SignalKey : SignalInv(k)'
  <1> DEFINE mine == {k \in Key : k.to = conn[c].user}
             fresh == {k \in mine : queue[k] = "fresh"}
             gone == {k \in mine : queue[k] = "expired"} \cup {k \in fresh : k.id \in Signals}
  <1>0. /\ conn \in [Conns -> Conn] /\ conn[c] \in Conn
        /\ chan \in [Conns -> SUBSET Key]
    BY DEF TypeOK
  <1>1. /\ chan' = [chan EXCEPT ![c] = @ \cup fresh]
        /\ conn' = [conn EXCEPT ![c] = [@ EXCEPT !.phase = "pruning", !.todo = gone]]
        /\ conn[c].phase = "delivering"
        /\ UNCHANGED <<queue, task, drawn, received>>
    BY Zenon DEF DeliverQueued, database, history
  <1>2. \A k \in SignalKey : k \in fresh => queue[k] = "fresh" /\ k \in gone
    BY DEF SignalKey
  <1> HIDE DEF fresh, gone
  <1>3. /\ conn'[c].phase = "pruning" /\ conn'[c].todo = gone
        /\ \A d \in Conns : d # c => conn'[d] = conn[d]
    BY <1>0, <1>1 DEF Conn
  <1>4. /\ chan'[c] = chan[c] \cup fresh
        /\ \A d \in Conns : d # c => chan'[d] = chan[d]
    BY <1>0, <1>1
  <1>5. ASSUME NEW k \in SignalKey PROVE SignalInv(k)'
    <2>1. CASE k \notin fresh
      <3>1. \A d \in Conns : k \in chan'[d] => k \in chan[d] /\ KeepsMark(d, k)
        BY <1>1, <1>3, <1>4, <2>1 DEF KeepsMark
      <3>2. Leaves(k)
        BY <1>1, <3>1 DEF Leaves, Pending
      <3> QED
        BY <3>2, LeavesKeeps
    <2>2. CASE k \in fresh
      <3>1. /\ queue[k] = "fresh" /\ k \in drawn /\ k \notin received
            /\ \A h \in Handlers : ~Pending(h, k)
        BY <1>2, <2>2 DEF SignalInv
      <3>2. \A h \in Handlers : ~Pending(h, k)'
        BY <1>1, <3>1 DEF Pending
      <3>3. \A d \in Conns : k \in chan'[d] =>
                queue'[k] = "none" \/ (conn'[d].phase = "pruning" /\ k \in conn'[d].todo)
        BY <1>1, <1>2, <1>3, <1>4, <2>2 DEF SignalInv
      <3> QED
        BY <1>1, <3>1, <3>2, <3>3, ZenonT(60) DEF SignalInv
    <2> QED
      BY <2>1, <2>2
  <1> QED
    BY <1>5, Zenon

\* The send task hands out a signal only after its entry is gone.
LEMMA GhostSend ==
    ASSUME TypeOK, \A k \in SignalKey : SignalInv(k), NEW c \in Conns, NEW j \in Key,
           SendTask(c, j)
    PROVE  \A k \in SignalKey : SignalInv(k)'
  <1>1. /\ UNCHANGED <<queue, conn, task, drawn>>
        /\ conn[c].phase # "pruning"
        /\ j \in chan[c]
        /\ received' = received \cup {j}
        /\ \A d \in Conns : chan'[d] \subseteq chan[d]
    <2>1. /\ UNCHANGED <<queue, conn, task, drawn>> /\ conn[c].phase # "pruning" /\ j \in chan[c]
          /\ received' = received \cup {j} /\ chan' = [chan EXCEPT ![c] = @ \ {j}]
      BY Zenon DEF SendTask, Started, database
    <2>2. chan \in [Conns -> SUBSET Key]
      BY Zenon DEF TypeOK
    <2> QED
      BY <2>1, <2>2, Zenon
  <1>2. ASSUME NEW k \in SignalKey PROVE SignalInv(k)'
    <2>1. \A d \in Conns : KeepsMark(d, k)
      BY <1>1 DEF KeepsMark
    <2>2. CASE k # j
      <3>1. Leaves(k)
        BY <1>1, <2>1, <2>2, Zenon DEF Leaves, Pending
      <3> QED
        BY <3>1, LeavesKeeps, Zenon
    <2>3. CASE k = j
      <3>1. /\ queue[k] = "none" /\ k \in drawn
            /\ \A h \in Handlers : ~Pending(h, k)
        BY <1>1, <2>3, Zenon DEF SignalInv, Unheard
      <3>2. \A h \in Handlers : ~Pending(h, k)'
        BY <1>1, <3>1, Zenon DEF Pending
      <3> QED
        BY <1>1, <3>1, <3>2, Zenon DEF SignalInv
    <2> QED
      BY <2>2, <2>3, Zenon
  <1> QED
    BY <1>2, ZenonT(60)

\* An acknowledgement, an envelope and the clock do not queue a signal, and a
\* restart drops what the connections have.
LEMMA GhostOther ==
    ASSUME TypeOK, TaskInv, \A k \in SignalKey : SignalInv(k),
           \/ \E c \in Conns, j \in Key : HandleAck(c, j)
           \/ \E h \in Handlers : CheckDuplicate(h) \/ EvictExpired(h) \/ MarkSeen(h)
           \/ \E h \in Handlers : QueueMessage(h) \/ PushLive(h)
           \/ \E h \in Handlers, j \in Key, s \in Signatures : RouteMessage(h, j, s)
           \/ \E h \in Handlers, j \in Key : SendMessageHandler(h, j)
           \/ Clock \/ Crash
    PROVE  \A k \in SignalKey : SignalInv(k)'
  <1>0. /\ conn \in [Conns -> Conn] /\ queue \in [Key -> Entry]
        /\ chan \in [Conns -> SUBSET Key]
        /\ clients \in [Users -> Conns \cup {None}]
        /\ task \in [Handlers -> Task \cup {None}]
    BY Zenon DEF TypeOK
  <1>s. ASSUME NEW k \in SignalKey PROVE k \in Key /\ k.id \notin Ids /\ k.id \notin HttpIds
    BY IdsAssumption DEF SignalKey
  <1> SUFFICES ASSUME NEW k \in SignalKey PROVE Leaves(k)
    BY LeavesKeeps, Zenon
  <1>k. k \in Key /\ k.id \in Signals /\ k.id \notin Ids /\ k.id \notin HttpIds
    BY <1>s, Zenon DEF SignalKey
  <1> USE DEF database, sockets, history
  <1>1. ASSUME NEW c \in Conns, NEW j \in Key, HandleAck(c, j) PROVE Leaves(k)
    <2>1. /\ UNCHANGED <<conn, chan, task, drawn, received>>
          /\ queue' = [queue EXCEPT ![j] = "none"]
      BY <1>1, Zenon DEF HandleAck
    <2> QED
      BY <1>0, <1>k, <2>1, Zenon DEF Leaves, KeepsMark, Pending
  <1>2. ASSUME NEW h \in Handlers, CheckDuplicate(h) \/ EvictExpired(h) \/ MarkSeen(h)
        PROVE  Leaves(k)
    <2>1. UNCHANGED <<queue, conn, chan, drawn, received>>
      BY <1>2, ZenonT(120) DEF CheckDuplicate, EvictExpired, MarkSeen
    <2>2. \A i \in Handlers : Pending(i, k)' => Pending(i, k)
      <3>1. /\ task[h] # None
            /\ \/ task' = [task EXCEPT ![h] = None] \/ \E pc : task' = [task EXCEPT ![h].pc = pc]
        BY <1>2, ZenonT(60) DEF CheckDuplicate, EvictExpired, MarkSeen, At, Goto, Return
      <3>2. \A i \in Handlers \ {h} : task'[i] = task[i]
        BY <1>0, <3>1, Zenon
      <3>3. task[h] \in Task /\ (task'[h] = None \/ \E pc : task'[h] = [task[h] EXCEPT !.pc = pc])
        BY <1>0, <3>1, Zenon
      <3>4. Pending(h, k)' => Pending(h, k)
        BY <3>1, <3>3, Zenon DEF Pending, Task
      <3> QED
        BY <3>2, <3>4, Zenon DEF Pending
    <2> QED
      BY <2>1, <2>2, Zenon DEF Leaves, KeepsMark
  <1>3. ASSUME NEW h \in Handlers, QueueMessage(h) PROVE Leaves(k)
    <2>1. /\ UNCHANGED <<conn, chan, drawn, received>>
          /\ queue' \in {queue, [queue EXCEPT ![task[h].key] = "fresh"]}
          /\ At(h, "queue")
      BY <1>3 DEF QueueMessage
    <2>2. \A i \in Handlers : Pending(i, k)' => Pending(i, k)
      BY <1>0, <1>3 DEF QueueMessage, At, Goto, Return, Pending, Task
    <2>3. task[h].key # k
      BY <1>k, <2>1, Zenon DEF TaskInv, At
    <2>4. queue'[k] = queue[k]
      BY <1>0, <1>k, <2>1, <2>3, Zenon
    <2> QED
      BY <2>1, <2>2, <2>4, Zenon DEF Leaves, KeepsMark
  <1>4. ASSUME NEW h \in Handlers, PushLive(h) PROVE Leaves(k)
    <2>1. /\ UNCHANGED <<queue, conn, drawn, received>>
          /\ At(h, "push")
          /\ PushTo(task[h].key)
      BY <1>4, Zenon DEF PushLive
    <2>2. \A i \in Handlers : Pending(i, k)' => Pending(i, k)
      BY <1>0, <1>4, Zenon DEF PushLive, At, Return, Pending
    <2>3. task[h].key # k
      BY <1>k, <2>1, Zenon DEF TaskInv, At
    <2>4. \A c \in Conns : k \in chan'[c] => k \in chan[c]
      BY <1>0, <2>1, <2>3, Zenon DEF PushTo
    <2> QED
      BY <2>1, <2>2, <2>4, Zenon DEF Leaves, KeepsMark
  <1>5. ASSUME NEW h \in Handlers, NEW j \in Key, NEW s \in Signatures, RouteMessage(h, j, s)
        PROVE  Leaves(k)
    <2>1. UNCHANGED <<queue, conn, chan, drawn, received>> /\ j # k
      BY <1>5, <1>k, Zenon DEF RouteMessage
    <2>2. \A i \in Handlers : Pending(i, k)' => Pending(i, k)
      BY <1>0, <1>5, <2>1, Zenon DEF RouteMessage, Pending
    <2> QED
      BY <2>1, <2>2, Zenon DEF Leaves, KeepsMark
  <1>6. ASSUME NEW h \in Handlers, NEW j \in Key, SendMessageHandler(h, j) PROVE Leaves(k)
    <2>1. /\ UNCHANGED <<queue, conn, received>> /\ j # k
          /\ drawn' = drawn \cup {j}
          /\ PushTo(j)
      BY <1>6, <1>k, Zenon DEF SendMessageHandler, PushOrStore
    <2>2. \A i \in Handlers : Pending(i, k)' => Pending(i, k)
      BY <1>0, <1>6, <2>1, Zenon DEF SendMessageHandler, PushOrStore, Pending
    <2>3. \A c \in Conns : k \in chan'[c] => k \in chan[c]
      BY <1>0, <2>1, Zenon DEF PushTo
    <2> QED
      BY <2>1, <2>2, <2>3, Zenon DEF Leaves, KeepsMark
  <1>7. CASE Clock
    <2>1. UNCHANGED <<conn, chan, task, drawn, received>>
      BY <1>7, Zenon DEF Clock, AgeDedup, PruneRemove, AgeQueue, PruneScan
    <2>2. queue[k] = "none" => queue'[k] = "none"
      BY <1>0, <1>7, <1>k, Zenon DEF Clock, AgeDedup, PruneRemove, AgeQueue, PruneScan
    <2> QED
      BY <2>1, <2>2, Zenon DEF Leaves, KeepsMark, Pending
  <1>8. CASE Crash
    <2>1. /\ UNCHANGED <<queue, drawn, received>>
          /\ \A c \in Conns : chan'[c] = {}
          /\ \A h \in Handlers : task'[h] = None
      BY <1>8, Zenon DEF Crash
    <2> QED
      BY <2>1, Zenon DEF Leaves, Pending
  <1> QED
    BY <1>1, <1>2, <1>3, <1>4, <1>5, <1>6, <1>7, <1>8, Zenon

\* route_webrtc pushes a signal with a new id or leaves it to be stored, never
\* both.
LEMMA GhostRoute ==
    ASSUME TypeOK, \A k \in SignalKey : SignalInv(k), NEW h \in Handlers, NEW j \in Key,
           RouteWebrtc(h, j)
    PROVE  \A k \in SignalKey : SignalInv(k)'
  <1>0. /\ chan \in [Conns -> SUBSET Key]
        /\ clients \in [Users -> Conns \cup {None}]
        /\ task \in [Handlers -> Task \cup {None}]
        /\ j \in SignalKey /\ j.to \in Users
    BY Zenon DEF TypeOK, RouteWebrtc, SignalKey, Key
  <1>1. /\ UNCHANGED <<queue, conn, received>>
        /\ drawn' = drawn \cup {j} /\ j \notin drawn
        /\ task[h] = None
        /\ task' = IF CanPush(j.to) THEN task
                   ELSE [task EXCEPT ![h] = [pc |-> "store", key |-> j, signed |-> TRUE]]
        /\ PushTo(j)
    BY Zenon DEF RouteWebrtc, PushOrStore, database
  <1>2. ASSUME NEW k \in SignalKey PROVE SignalInv(k)'
    <2>1. CASE k # j
      <3>1. \A i \in Handlers : Pending(i, k)' => Pending(i, k)
        BY <1>0, <1>1, <2>1, Zenon DEF Pending
      <3>2. \A c \in Conns : k \in chan'[c] => k \in chan[c]
        BY <1>0, <1>1, <2>1, Zenon DEF PushTo
      <3>3. Leaves(k)
        BY <1>1, <2>1, <3>1, <3>2, Zenon DEF Leaves, KeepsMark
      <3> QED
        BY <3>3, LeavesKeeps
    <2>2. CASE k = j
      <3>1. /\ queue[k] = "none" /\ Unheard(k)
            /\ \A i \in Handlers : ~Pending(i, k)
        BY <1>0, <1>1, <2>2, Zenon DEF SignalInv
      <3>2. CASE CanPush(j.to)
        <4>1. \A i \in Handlers : ~Pending(i, k)'
          BY <1>1, <3>1, <3>2, Zenon DEF Pending
        <4> QED
          BY <1>1, <2>2, <3>1, <4>1, Zenon DEF SignalInv, Unheard
      <3>3. CASE ~CanPush(j.to)
        <4>1. chan' = chan
          BY <1>1, <3>3, Zenon DEF PushTo
        <4>2. \A i \in Handlers : Pending(i, k)' => i = h
          BY <1>0, <1>1, <2>2, <3>1, Zenon DEF Pending
        <4>3. Unheard(k)'
          BY <1>1, <3>1, <4>1, Zenon DEF Unheard
        <4> QED
          BY <1>1, <2>2, <3>1, <4>2, <4>3, Zenon DEF SignalInv, Unheard
      <3> QED
        BY <3>2, <3>3, Zenon
    <2> QED
      BY <2>1, <2>2
  <1> QED
    BY <1>2

\* The one handler that stores a signal does so before anybody has it.
LEMMA GhostStore ==
    ASSUME TypeOK, TaskInv, \A k \in SignalKey : SignalInv(k), NEW h \in Handlers,
           StoreDirect(h)
    PROVE  \A k \in SignalKey : SignalInv(k)'
  <1>0. /\ queue \in [Key -> Entry]
        /\ task \in [Handlers -> Task \cup {None}]
    BY Zenon DEF TypeOK
  <1> DEFINE j == task[h].key
  <1>1. /\ UNCHANGED <<conn, chan, drawn, received>>
        /\ task[h] # None
        /\ queue' = [queue EXCEPT ![j] = "fresh"]
        /\ task' = [task EXCEPT ![h] = None]
    BY Zenon DEF StoreDirect, At, Return, sockets
  <1>2. ASSUME NEW k \in SignalKey PROVE SignalInv(k)'
    <2>0. k \in Key
      BY DEF SignalKey
    <2>1. \A i \in Handlers : Pending(i, k)' => Pending(i, k) /\ i # h
      BY <1>0, <1>1 DEF Pending
    <2>2. CASE k # j
      <3>1. queue'[k] = queue[k]
        BY <1>0, <1>1, <2>0, <2>2, Zenon
      <3>2. Leaves(k)
        BY <1>1, <2>1, <3>1, Zenon DEF Leaves, KeepsMark
      <3> QED
        BY <3>2, LeavesKeeps
    <2>3. CASE k = j
      <3>1. Pending(h, k)
        BY <1>1, <2>3, Zenon DEF Pending
      <3>2. /\ Unheard(k) /\ k \in drawn
            /\ \A i \in Handlers : ~Pending(i, k)'
        BY <2>1, <3>1, Zenon DEF SignalInv
      <3>3. k \notin received' /\ \A c \in Conns : k \notin chan'[c]
        BY <1>1, <3>2, Zenon DEF Unheard
      <3> QED
        BY <1>1, <3>2, <3>3, Zenon DEF SignalInv
    <2> QED
      BY <2>2, <2>3
  <1> QED
    BY <1>2, Zenon

\* The inbox takes a signal out of the queue as it hands it out.
LEMMA GhostInbox ==
    ASSUME TypeOK, \A k \in SignalKey : SignalInv(k), NEW u \in Users, InboxHandler(u)
    PROVE  \A k \in SignalKey : SignalInv(k)'
  <1> DEFINE served == IF "inbox_fetch" \in Limits THEN {k \in Key : k.to = u} ELSE {}
  <1>1. /\ UNCHANGED <<conn, chan, task, drawn>>
        /\ received' = received \cup {k \in served : queue[k] = "fresh"}
        /\ queue' = [k \in Key |-> IF k \in served THEN "none" ELSE queue[k]]
    BY DEF InboxHandler, sockets
  <1> HIDE DEF served
  <1>2. ASSUME NEW k \in SignalKey PROVE SignalInv(k)'
    <2>0. k \in Key
      BY Zenon DEF SignalKey
    <2>1. \A i \in Handlers : Pending(i, k)' <=> Pending(i, k)
      BY <1>1, Zenon DEF Pending
    <2>2. CASE ~(k \in served /\ queue[k] = "fresh")
      <3>1. /\ queue[k] = "none" => queue'[k] = "none"
            /\ queue'[k] # "none" => queue'[k] = queue[k]
            /\ k \in received' => k \in received
        BY <1>1, <2>0, <2>2, Zenon
      <3>2. Leaves(k)
        BY <1>1, <2>1, <3>1, Zenon DEF Leaves, KeepsMark
      <3> QED
        BY <3>2, LeavesKeeps, Zenon
    <2>3. CASE k \in served /\ queue[k] = "fresh"
      <3>1. queue'[k] = "none"
        BY <1>1, <2>0, <2>3, Zenon
      <3>2. k \in drawn /\ \A i \in Handlers : ~Pending(i, k)'
        BY <2>1, <2>3, Zenon DEF SignalInv
      <3> QED
        BY <1>1, <3>1, <3>2, Zenon DEF SignalInv
    <2> QED
      BY <2>2, <2>3
  <1> QED
    BY <1>2, Zenon

\* Every step keeps the invariant.
LEMMA GhostNext == GhostInv /\ [Next]_vars => GhostInv'
  <1> SUFFICES ASSUME GhostInv, [Next]_vars PROVE GhostInv'
    BY Zenon
  <1>0. TypeOK /\ TaskInv /\ TypeOK' /\ TaskInv' /\ \A k \in SignalKey : SignalInv(k)
    BY NextType, TaskInvNext DEF GhostInv
  <1> SUFFICES \A k \in SignalKey : SignalInv(k)'
    BY <1>0, Zenon DEF GhostInv
  <1>1. ASSUME NEW c \in Conns, Connection(c) PROVE \A k \in SignalKey : SignalInv(k)'
    BY <1>0, <1>1, GhostConnection, GhostDeliver, GhostSend, GhostOther, Zenon DEF Connection
  <1>2. ASSUME NEW h \in Handlers, Handler(h) PROVE \A k \in SignalKey : SignalInv(k)'
    BY <1>0, <1>2, GhostOther, GhostStore, Zenon DEF Handler
  <1>3. ASSUME NEW h \in Handlers, Request(h) PROVE \A k \in SignalKey : SignalInv(k)'
    BY <1>0, <1>3, GhostOther, GhostRoute DEF Request
  <1>4. ASSUME NEW u \in Users, InboxHandler(u) PROVE \A k \in SignalKey : SignalInv(k)'
    BY <1>0, <1>4, GhostInbox, Zenon
  <1>5. CASE Clock \/ Crash
    BY <1>0, <1>5, GhostOther
  <1>6. CASE UNCHANGED vars
    <2>1. \A k \in SignalKey : Leaves(k)
      BY <1>6, Zenon DEF vars, Leaves, KeepsMark, Pending
    <2> QED
      BY <1>0, <2>1, LeavesKeeps, Zenon
  <1> QED
    BY <1>1, <1>2, <1>3, <1>4, <1>5, <1>6, Zenon DEF Next, Serve

\* A WebRTC signal that reached its recipient, pushed by route_webrtc, read from
\* the queue by deliver_queued_messages or fetched from the inbox, is not
\* queued any more and does not ring at the next connection.
THEOREM SignalsRingOnce == Spec => []NoGhostRinging
  <1>1. GhostInv => NoGhostRinging
    BY Zenon DEF GhostInv, SignalInv, SignalKey, NoGhostRinging, TypeOK
  <1> QED
    BY <1>1, GhostInit, GhostNext, PTL DEF Spec
=============================================================================
