------------------------ MODULE DoubleRatchetProofs ------------------------
(***************************************************************************)
(* Proofs about DoubleRatchet for every chain length, skip window, number  *)
(* of key pairs and number of messages.                                    *)
(***************************************************************************)
EXTENDS DoubleRatchet, FiniteSetTheorems, TLAPS

-----------------------------------------------------------------------------
(* The operators keep the types *)

\* Mixing the shared secret of two known pairs into a root key gives a root
\* key.
LEMMA KdfRkType ==
    ASSUME NEW root \in Root, NEW a \in Nat, NEW b \in Nat
    PROVE  KdfRk(root, a, b) \in Root
  BY DEF KdfRk, Root

\* perform_dh_ratchet yields a state that has its local key, and a new chain
\* at its start if the peer's key is known.
LEMMA PerformDhRatchetType ==
    ASSUME NEW s \in State, NEW fresh \in Nat
    PROVE  /\ PerformDhRatchet(s, fresh) \in State
           /\ PerformDhRatchet(s, fresh).dh_local = fresh
           /\ PerformDhRatchet(s, fresh).dh_remote = s.dh_remote
           /\ PerformDhRatchet(s, fresh).receiving = s.receiving
           /\ PerformDhRatchet(s, fresh).skipped = s.skipped
           /\ s.dh_remote # None =>
                /\ PerformDhRatchet(s, fresh).root = KdfRk(s.root, fresh, s.dh_remote)
                /\ PerformDhRatchet(s, fresh).sending
                     = NewChain(KdfRk(s.root, fresh, s.dh_remote))
  <1>1. CASE s.dh_remote = None
    BY <1>1, ZenonT(60) DEF PerformDhRatchet, State
  <1>2. CASE s.dh_remote # None
    <2>1. s.dh_remote \in Nat /\ s.root \in Root
      BY <1>2, Zenon DEF State
    <2>2. KdfRk(s.root, fresh, s.dh_remote) \in Root
      BY <2>1, KdfRkType, Zenon
    <2>3. NewChain(KdfRk(s.root, fresh, s.dh_remote)) \in Chain
      BY <2>2, Zenon DEF NewChain, Chain
    <2> QED
      BY <1>2, <2>2, <2>3, Zenon DEF PerformDhRatchet, State
  <1> QED
    BY <1>1, <1>2, Zenon

\* dh_ratchet yields both chains at their start.
LEMMA DhRatchetType ==
    ASSUME NEW s \in State, s.dh_local # None, NEW remote \in Nat, NEW fresh \in Nat
    PROVE  LET root1 == KdfRk(s.root, s.dh_local, remote)
               root2 == KdfRk(root1, fresh, remote)
               d == DhRatchet(s, remote, fresh)
           IN  /\ d \in State
               /\ d.root = root2
               /\ d.receiving = NewChain(root1)
               /\ d.sending = NewChain(root2)
               /\ d.dh_local = fresh
               /\ d.dh_remote = remote
               /\ d.skipped = s.skipped
               /\ d.max_skip = s.max_skip
  <1> DEFINE root1 == KdfRk(s.root, s.dh_local, remote)
             root2 == KdfRk(root1, fresh, remote)
  <1>1. s.dh_local \in Nat /\ s.root \in Root
    BY Zenon DEF State
  <1>2. root1 \in Root
    BY <1>1, KdfRkType, Zenon
  <1>3. root2 \in Root
    BY <1>2, KdfRkType, Zenon
  <1>4. NewChain(root1) \in Chain /\ NewChain(root2) \in Chain
    BY <1>2, <1>3, Zenon DEF NewChain, Chain
  <1>5. (IF s.sending = None THEN 0 ELSE s.sending.index) \in Nat
    BY Zenon DEF State, Chain
  <1> QED
    BY <1>3, <1>4, <1>5, ZenonT(60) DEF DhRatchet, State

\* skip_message_keys changes the cache and the receiving chain only.
LEMMA SkipMessageKeysType ==
    ASSUME NEW s \in State, NEW until \in Nat, CanSkip(s, until)
    PROVE  LET k == SkipMessageKeys(s, until)
           IN  /\ k \in State
               /\ k.root = s.root
               /\ k.sending = s.sending
               /\ k.dh_local = s.dh_local
               /\ k.dh_remote = s.dh_remote
               /\ k.max_skip = s.max_skip
               /\ (k.receiving = None) <=> (s.receiving = None)
  <1>1. CASE s.receiving = None \/ until <= s.receiving.index
    BY <1>1, Zenon DEF SkipMessageKeys
  <1>2. CASE ~(s.receiving = None \/ until <= s.receiving.index)
    <2> DEFINE c == s.receiving
               new == {[dh |-> s.dh_remote, n |-> i, key |-> [chain |-> c.id, n |-> i]] :
                          i \in c.index .. (until - 1)}
               kept == {e \in s.skipped : <<e.dh, e.n>> \notin Slots(new)}
    <2>1. c \in Chain
      BY <1>2, Zenon DEF State
    <2>2. s.dh_remote \in Nat
      BY <1>2, <2>1 DEF CanSkip, State, Chain
    <2>3. new \subseteq SkippedKey
      BY <2>1, <2>2 DEF SkippedKey, Key, Chain
    <2>4. kept \subseteq SkippedKey
      BY Zenon DEF State
    <2>5. [c EXCEPT !.index = until] \in Chain
      BY <2>1, Zenon DEF Chain
    <2>6. SkipMessageKeys(s, until) = [s EXCEPT !.skipped = kept \cup new,
                                          !.receiving = [c EXCEPT !.index = until]]
      BY <1>2, Zenon DEF SkipMessageKeys
    <2> HIDE DEF new, kept
    <2>7. [c EXCEPT !.index = until] # None
      BY <2>5, NoneAssumption, Zenon
    <2> QED
      BY <1>2, <2>3, <2>4, <2>5, <2>6, <2>7, ZenonT(60) DEF State
  <1> QED
    BY <1>1, <1>2, Zenon

\* The state encrypt sends from is a state, and carries over what rotation
\* does not touch.
LEMMA SendStateType ==
    ASSUME NEW s \in State, NEW aged, nextDh \in Nat
    PROVE  /\ SendState(s, aged) \in State
           /\ SendState(s, aged).dh_remote = s.dh_remote
           /\ SendState(s, aged).receiving = s.receiving
           /\ SendState(s, aged).skipped = s.skipped
  BY PerformDhRatchetType, Zenon DEF SendState

\* The clone that decrypt steps to the message: a state whose receiving chain
\* stands at the message's number and yields the message's key.
LEMMA OpensNextFacts ==
    ASSUME NEW s \in State, NEW m \in Message, NEW fresh \in Nat,
           OpensNext(s, m, fresh)
    PROVE  LET r == Ratcheted(s, m, fresh)
               k == SkipMessageKeys(r, m.n)
               a == AfterNext(s, m, fresh)
           IN  /\ r \in State
               /\ CanSkip(r, m.n)
               /\ k \in State
               /\ k.receiving \in Chain
               /\ k.receiving.index = m.n
               /\ m.key = [chain |-> k.receiving.id, n |-> m.n]
               /\ r.receiving \in Chain
               /\ r.receiving.id = k.receiving.id
               /\ r.receiving.index <= m.n
               /\ a \in State
               /\ a.receiving = [id |-> k.receiving.id, index |-> m.n + 1]
               /\ a.skipped = k.skipped
               /\ a.root = r.root
               /\ a.sending = r.sending
               /\ a.dh_local = r.dh_local
               /\ a.dh_remote = r.dh_remote
  <1> DEFINE r == Ratcheted(s, m, fresh)
             k == SkipMessageKeys(r, m.n)
             a == AfterNext(s, m, fresh)
  <1>0. m.n \in Nat /\ m.pn \in Nat /\ m.dh \in Nat
    BY Zenon DEF Message
  <1>1. r \in State
    <2>1. CASE NeedsRatchet(s, m)
      <3>1. CanSkip(s, m.pn) /\ s.dh_local # None
        BY <2>1, Zenon DEF OpensNext
      <3>2. SkipMessageKeys(s, m.pn) \in State /\ SkipMessageKeys(s, m.pn).dh_local # None
        BY <1>0, <3>1, SkipMessageKeysType, Zenon
      <3> QED
        BY <1>0, <2>1, <3>2, DhRatchetType, Zenon DEF Ratcheted
    <2>2. CASE ~NeedsRatchet(s, m)
      BY <2>2, Zenon DEF Ratcheted
    <2> QED
      BY <2>1, <2>2, Zenon
  <1>2. /\ r.receiving # None
        /\ CanSkip(r, m.n)
        /\ m.n >= r.receiving.index
        /\ m.key = KeyAt(k.receiving)
    BY Zenon DEF OpensNext
  <1>3. r.receiving \in Chain
    BY <1>1, <1>2, Zenon DEF State
  <1>4. /\ k \in State
        /\ k.root = r.root
        /\ k.sending = r.sending
        /\ k.dh_local = r.dh_local
        /\ k.dh_remote = r.dh_remote
        /\ k.receiving # None
    BY <1>0, <1>1, <1>2, SkipMessageKeysType, Zenon
  <1>5. k.receiving \in Chain
    BY <1>4, Zenon DEF State
  <1> HIDE DEF r
  <1>6. k.receiving.index = m.n /\ k.receiving.id = r.receiving.id
    <2>1. CASE m.n <= r.receiving.index
      <3>1. k = r
        BY <1>2, <2>1, Zenon DEF SkipMessageKeys
      <3> QED
        BY <1>0, <1>2, <1>3, <2>1, <3>1 DEF Chain
    <2>2. CASE ~(m.n <= r.receiving.index)
      <3> DEFINE new == {[dh |-> r.dh_remote, n |-> i,
                          key |-> [chain |-> r.receiving.id, n |-> i]] :
                            i \in r.receiving.index .. (m.n - 1)}
                 kept == {e \in r.skipped : <<e.dh, e.n>> \notin Slots(new)}
      <3>1. k = [r EXCEPT !.skipped = kept \cup new,
                          !.receiving = [r.receiving EXCEPT !.index = m.n]]
        BY <1>2, <2>2, Zenon DEF SkipMessageKeys
      <3> HIDE DEF new, kept
      <3>2. k.receiving = [r.receiving EXCEPT !.index = m.n]
        BY <1>1, <3>1, Zenon DEF State
      <3> QED
        BY <1>0, <1>3, <3>2, Zenon DEF Chain
    <2> QED
      BY <2>1, <2>2, Zenon
  <1>7. m.key = [chain |-> k.receiving.id, n |-> m.n]
    BY <1>2, <1>6, Zenon DEF KeyAt
  <1>8. a = [k EXCEPT !.receiving = Advance(k.receiving),
                      !.messages_received = k.messages_received + 1]
    BY Zenon DEF AfterNext, r
  <1> HIDE DEF k, a
  <1>9. Advance(k.receiving) = [id |-> k.receiving.id, index |-> m.n + 1]
    BY <1>5, <1>6 DEF Advance, Chain
  <1>10. Advance(k.receiving) \in Chain
    BY <1>0, <1>5, <1>9 DEF Chain
  <1>11. /\ a \in State
         /\ a.receiving = Advance(k.receiving)
         /\ a.skipped = k.skipped
         /\ a.root = k.root
         /\ a.sending = k.sending
         /\ a.dh_local = k.dh_local
         /\ a.dh_remote = k.dh_remote
    <2>1. k.messages_received + 1 \in Nat
      BY <1>4 DEF State
    <2> QED
      BY <1>4, <1>8, <1>10, <2>1, Zenon DEF State
  <1> QED
    BY <1>1, <1>2, <1>3, <1>4, <1>5, <1>6, <1>7, <1>9, <1>11, Zenon DEF r, k, a

\* A sending state whose chain has been advanced is a state.
LEMMA AdvancedSendState ==
    ASSUME NEW s \in State, CanSend(s)
    PROVE  /\ s.dh_local \in Nat
           /\ s.sending \in Chain
           /\ KeyAt(s.sending) \in Key
           /\ Advance(s.sending) = [id |-> s.sending.id, index |-> s.sending.index + 1]
           /\ Advance(s.sending) \in Chain
           /\ [s EXCEPT !.sending = Advance(@)] \in State
           /\ [s EXCEPT !.sending = Advance(@), !.messages_sent = @ + 1] \in State
  <1>1. s.dh_local \in Nat /\ s.sending \in Chain /\ s.messages_sent + 1 \in Nat
    BY DEF CanSend, State
  <1>2. KeyAt(s.sending) \in Key
    BY <1>1, Zenon DEF KeyAt, Key, Chain
  <1>3. /\ Advance(s.sending) = [id |-> s.sending.id, index |-> s.sending.index + 1]
        /\ Advance(s.sending) \in Chain
    BY <1>1 DEF Advance, Chain
  <1>4. /\ [s EXCEPT !.sending = Advance(s.sending)] \in State
        /\ [s EXCEPT !.sending = Advance(s.sending),
                     !.messages_sent = s.messages_sent + 1] \in State
    BY <1>1, <1>3, Zenon DEF State
  <1> QED
    BY <1>1, <1>2, <1>3, <1>4, Zenon

\* What encrypt puts on the wire is a message.
LEMMA SealedType ==
    ASSUME NEW p \in Peers, NEW s \in State, CanSend(s), NEW encrypted,
           nextBody \in Nat
    PROVE  Sealed(p, s, encrypted) \in Message
  <1>1. s.dh_local \in Nat /\ s.sending \in Chain /\ KeyAt(s.sending) \in Key
    BY AdvancedSendState, Zenon
  <1>2. s.sending.index \in Nat /\ s.previous_counter \in Nat
    BY <1>1, Zenon DEF State, Chain
  <1> QED
    BY <1>1, <1>2, Zenon DEF Sealed, Message

\* The two sessions, what is saved of them and what they send keep their
\* types.
LEMMA InitType == Init => TypeOK
  <1> SUFFICES ASSUME Init PROVE TypeOK
    BY Zenon
  <1>1. <<>> \in Root
    BY DEF Root
  <1>2. NewChain(<<>>) \in Chain
    BY <1>1, Zenon DEF NewChain, Chain
  <1>3. FromSharedSecret(TRUE, 0, 1) \in State /\ FromSharedSecret(FALSE, 1, 0) \in State
    BY <1>1, <1>2, BoundsAssumption, Zenon DEF FromSharedSecret, State
  <1> QED
    BY <1>3, Zenon DEF Init, TypeOK

\* Every step of the sessions, restarts included, keeps the types.
LEMMA NextType == TypeOK /\ [Exchange \/ Restart]_vars => TypeOK'
  <1> SUFFICES ASSUME TypeOK, [Exchange \/ Restart]_vars PROVE TypeOK'
    BY Zenon
  <1> USE DEF TypeOK
  <1>1. ASSUME NEW p \in Peers, NEW aged \in Ages, Encrypt(p, aged) PROVE TypeOK'
    <2> DEFINE s == SendState(st[p], aged)
               m == Sealed(p, s, HeaderEncryption /\ ~Rotates(st[p], aged))
    <2>1. s \in State /\ CanSend(s)
      BY <1>1, SendStateType, Zenon DEF Encrypt
    <2>2. [s EXCEPT !.sending = Advance(@), !.messages_sent = @ + 1] \in State
      BY <2>1, AdvancedSendState, Zenon
    <2>3. m \in Message
      BY <2>1, SealedType, Zenon
    <2>4. /\ st' = [st EXCEPT ![p] = [s EXCEPT !.sending = Advance(@),
                                               !.messages_sent = @ + 1]]
          /\ sent' = sent \cup {m}
          /\ nextBody' = nextBody + 1
          /\ nextDh' \in {nextDh, nextDh + 1}
          /\ UNCHANGED <<disk, opened, reopened>>
      BY <1>1, Zenon DEF Encrypt
    <2> HIDE DEF s, m
    <2> QED
      BY <2>2, <2>3, <2>4
  <1>2. ASSUME NEW p \in Peers, NEW aged \in Ages, EncryptFails(p, aged) PROVE TypeOK'
    <2> DEFINE s == SendState(st[p], aged)
    <2>1. s \in State /\ CanSend(s)
      BY <1>2, SendStateType, Zenon DEF EncryptFails
    <2>2. [s EXCEPT !.sending = Advance(@)] \in State
      BY <2>1, AdvancedSendState, Zenon
    <2>3. /\ st' = [st EXCEPT ![p] = [s EXCEPT !.sending = Advance(@)]]
          /\ nextBody' = nextBody + 1
          /\ nextDh' \in {nextDh, nextDh + 1}
          /\ UNCHANGED <<disk, sent, opened, reopened>>
      BY <1>2, Zenon DEF EncryptFails
    <2> HIDE DEF s
    <2> QED
      BY <2>2, <2>3
  <1>3. ASSUME NEW p \in Peers, NEW m \in sent, Decrypt(p, m) PROVE TypeOK'
    <2>1. PICK t \in State : st' = [st EXCEPT ![p] = t]
      <3>1. CASE OpensSkipped(st[p], m) /\ st' = [st EXCEPT ![p] = AfterSkipped(st[p], m)]
        <4>1. AfterSkipped(st[p], m) \in State
          BY ZenonT(120) DEF AfterSkipped, State
        <4> QED
          BY <3>1, <4>1, Zenon
      <3>2. CASE OpensNext(st[p], m, nextDh) /\ st' = [st EXCEPT ![p] = AfterNext(st[p], m, nextDh)]
        BY <3>2, OpensNextFacts, Zenon
      <3> QED
        BY <1>3, <3>1, <3>2, Zenon DEF Decrypt
    <2>2. /\ nextDh' \in {nextDh, nextDh + 1}
          /\ opened' = opened \cup {m}
          /\ reopened' = reopened \cup ({m} \cap opened)
          /\ UNCHANGED <<disk, nextBody, sent>>
      BY <1>3, Zenon DEF Decrypt
    <2> QED
      BY <2>1, <2>2
  <1>4. ASSUME NEW p \in Peers, NEW m \in sent, DecryptRejects(p, m) PROVE TypeOK'
    BY <1>4, Zenon DEF DecryptRejects, vars
  <1>5. ASSUME NEW p \in Peers, SerializeState(p) PROVE TypeOK'
    <2>1. Serialized(st[p]) \in State
      BY ZenonT(60) DEF Serialized, State
    <2> QED
      BY <1>5, <2>1, Zenon DEF SerializeState
  <1>6. ASSUME NEW p \in Peers, DeserializeState(p) PROVE TypeOK'
    <2> DEFINE loaded == disk[p]
               primes == loaded.dh_remote # None /\ loaded.sending # None
               s == IF primes THEN PerformDhRatchet(loaded, nextDh) ELSE loaded
    <2>1. loaded \in State
      BY <1>6, Zenon DEF DeserializeState
    <2>2. s \in State
      BY <2>1, PerformDhRatchetType, Zenon
    <2>3. PICK kept \in Truncated(s.skipped, s.max_skip) :
              st' = [st EXCEPT ![p] = [s EXCEPT !.skipped = kept]]
      BY <1>6, Zenon DEF DeserializeState
    <2>4. kept \subseteq s.skipped
      BY <2>3, Zenon DEF Truncated
    <2>5. /\ nextDh' \in {nextDh, nextDh + 1}
          /\ UNCHANGED <<disk, nextBody, sent, opened, reopened>>
      BY <1>6, Zenon DEF DeserializeState
    <2> HIDE DEF s
    <2>6. [s EXCEPT !.skipped = kept] \in State
      BY <2>2, <2>4, Zenon DEF State
    <2> QED
      BY <2>3, <2>5, <2>6
  <1>7. ASSUME UNCHANGED vars PROVE TypeOK'
    BY <1>7, Zenon DEF vars
  <1> QED
    BY <1>1, <1>2, <1>3, <1>4, <1>5, <1>6, <1>7, Zenon DEF Exchange, Restart

\* Type correctness of the sessions, with restarts.
THEOREM TypeCorrect == RestartSpec => []TypeOK
  BY InitType, NextType, PTL DEF RestartSpec

-----------------------------------------------------------------------------
(* No message key is used twice *)

\* The root keys and chain ids that are built from the pairs 0 .. k-1.
Known(k) == Seq(SUBSET (0 .. (k - 1)))

\* A key pair generated later takes no chain away.
LEMMA KnownGrows ==
    ASSUME NEW k \in Nat
    PROVE  Known(k) \subseteq Known(k + 1)
  BY DEF Known

\* kdf_rk on known pairs stays within the known chains.
LEMMA KnownKdf ==
    ASSUME NEW k \in Nat, NEW root \in Known(k), NEW a \in Nat, NEW b \in Nat, a < k, b < k
    PROVE  KdfRk(root, a, b) \in Known(k)
  BY DEF Known, KdfRk

\* A chain made with a pair that has just been generated is a new chain.
LEMMA FreshKdf ==
    ASSUME NEW k \in Nat, NEW j \in Nat, NEW root \in Known(j), NEW b \in Nat
    PROVE  KdfRk(root, k, b) \notin Known(k)
  <1> DEFINE r == KdfRk(root, k, b)
  <1>1. /\ r[Len(root) + 1] = {k, b}
        /\ Len(r) = Len(root) + 1
        /\ Len(root) \in Nat
    BY DEF KdfRk, Known
  <1>2. ASSUME r \in Known(k) PROVE FALSE
    <2> DEFINE S == SUBSET (0 .. (k - 1))
    <2>0. r \in Seq(S) /\ Len(root) + 1 \in 1 .. Len(r)
      BY <1>1, <1>2 DEF Known
    <2> HIDE DEF S, r
    <2>1. r[Len(root) + 1] \in S
      BY <2>0
    <2> USE DEF S
    <2> QED
      BY <1>1, <2>1
  <1> QED
    BY <1>2, Zenon

\* What a session may hold when the pairs 0 .. k-1 have been generated.
SessionKnown(s, k) ==
    /\ s.dh_remote # None
    /\ s.dh_remote < k
    /\ s.dh_local # None => s.dh_local < k
    /\ s.root \in Known(k)

\* The inductive invariant behind NoKeyReuse: everything is built from the
\* pairs generated so far, so that a chain made with the next one is new; a
\* session's sending chain is ahead of every message sent on it, and is not
\* its peer's.
KeyInv ==
    /\ TypeOK
    /\ \A p \in Peers :
        /\ SessionKnown(st[p], nextDh)
        /\ disk[p] # None => SessionKnown(disk[p], nextDh)
        /\ st[p].sending # None =>
            /\ st[p].sending.id \in Known(nextDh)
            /\ st[Peer(p)].sending # None
                 => st[p].sending.id # st[Peer(p)].sending.id
            /\ \A m \in sent : m.key.chain = st[p].sending.id
                                 => m.key.n < st[p].sending.index
    /\ \A m \in sent : m.key.chain \in Known(nextDh) /\ m.dh < nextDh
    /\ NoKeyReuse

\* What a session holds stays known when another pair is generated.
LEMMA SessionKnownGrows ==
    ASSUME NEW s \in State, NEW k \in Nat, SessionKnown(s, k)
    PROVE  SessionKnown(s, k + 1)
  <1>1. s.dh_remote \in Nat /\ (s.dh_local # None => s.dh_local \in Nat)
    BY Zenon DEF SessionKnown, State
  <1> QED
    BY <1>1, KnownGrows DEF SessionKnown

\* perform_dh_ratchet starts a chain nobody has used.
LEMMA PerformDhRatchetFresh ==
    ASSUME NEW s \in State, NEW k \in Nat, SessionKnown(s, k)
    PROVE  LET t == PerformDhRatchet(s, k)
           IN  /\ SessionKnown(t, k + 1)
               /\ t.sending \in Chain
               /\ t.sending.index = 0
               /\ t.sending.id \in Known(k + 1)
               /\ t.sending.id \notin Known(k)
  <1> DEFINE t == PerformDhRatchet(s, k)
             id == KdfRk(s.root, k, s.dh_remote)
  <1>1. s.dh_remote \in Nat /\ s.dh_remote < k + 1 /\ s.root \in Known(k)
    BY DEF SessionKnown, State
  <1>2. s.root \in Known(k + 1)
    BY <1>1, KnownGrows, Zenon
  <1>3. id \in Known(k + 1) /\ id \notin Known(k)
    BY <1>1, <1>2, KnownKdf, FreshKdf
  <1>4. /\ t \in State
        /\ t.dh_local = k
        /\ t.dh_remote = s.dh_remote
        /\ t.root = id
        /\ t.sending = NewChain(id)
    BY <1>1, PerformDhRatchetType, NoneAssumption, Zenon
  <1>5. t.sending \in Chain
    <2>1. s.root \in Root
      BY Zenon DEF State
    <2>2. id \in Root
      BY <1>1, <2>1, KdfRkType, Zenon
    <2> QED
      BY <1>4, <2>2 DEF NewChain, Chain
  <1> HIDE DEF t, id
  <1>6. t.sending.id = id /\ t.sending.index = 0
    BY <1>4 DEF NewChain
  <1>7. SessionKnown(t, k + 1)
    BY <1>1, <1>3, <1>4 DEF SessionKnown
  <1> QED
    BY <1>3, <1>5, <1>6, <1>7, Zenon DEF t

\* There are two peers, each the other's.
LEMMA PeerFacts ==
    ASSUME NEW p \in Peers
    PROVE  /\ Peer(p) \in Peers
           /\ Peer(p) # p
           /\ Peer(Peer(p)) = p
           /\ \A q \in Peers : q = p \/ q = Peer(p)
  BY PeersAssumption DEF Peers, Peer

\* A chain is fit to send on when it is made of known pairs, is not the
\* peer's, and is ahead of every message in msgs.
FitToSend(c, k, other, msgs) ==
    /\ c.id \in Known(k)
    /\ other # None => c.id # other.id
    /\ \A m \in msgs : m.key.chain = c.id => m.key.n < c.index

\* The state encrypt sends from has a chain that is fit to send on.
LEMMA SendStateFit ==
    ASSUME KeyInv, NEW p \in Peers, NEW aged
    PROVE  LET s == SendState(st[p], aged)
               k == IF Rotates(st[p], aged) THEN nextDh + 1 ELSE nextDh
           IN  /\ s \in State
               /\ SessionKnown(s, k)
               /\ s.sending # None => FitToSend(s.sending, k, st[Peer(p)].sending, sent)
  <1> DEFINE s == SendState(st[p], aged)
  <1>1. st[p] \in State /\ nextDh \in Nat /\ SessionKnown(st[p], nextDh)
    BY Zenon DEF KeyInv, TypeOK
  <1>2. CASE ~Rotates(st[p], aged)
    <2>1. s = st[p]
      BY <1>2, Zenon DEF SendState
    <2>2. s.sending # None => FitToSend(s.sending, nextDh, st[Peer(p)].sending, sent)
      BY <2>1, Zenon DEF KeyInv, FitToSend
    <2> QED
      BY <1>1, <1>2, <2>1, <2>2, Zenon
  <1>3. CASE Rotates(st[p], aged)
    <2>1. s = PerformDhRatchet(st[p], nextDh)
      BY <1>3, Zenon DEF SendState
    <2>2. /\ SessionKnown(s, nextDh + 1)
          /\ s.sending.id \in Known(nextDh + 1)
          /\ s.sending.id \notin Known(nextDh)
      BY <1>1, <2>1, PerformDhRatchetFresh
    <2>3. st[Peer(p)].sending # None => st[Peer(p)].sending.id \in Known(nextDh)
      BY PeerFacts, Zenon DEF KeyInv
    <2>4. \A m \in sent : m.key.chain \in Known(nextDh)
      BY Zenon DEF KeyInv
    <2>5. FitToSend(s.sending, nextDh + 1, st[Peer(p)].sending, sent)
      BY <2>2, <2>3, <2>4, Zenon DEF FitToSend
    <2>6. s \in State
      BY <1>1, <2>1, PerformDhRatchetType, Zenon
    <2> QED
      BY <1>3, <2>2, <2>5, <2>6, Zenon
  <1> QED
    BY <1>2, <1>3, Zenon

\* A step of one session preserves the invariant when that session ends with
\* a chain that is fit to send on, and the one message it may have sent has a
\* key of its own on a chain that is not the peer's.
LEMMA KeyInvStep ==
    ASSUME KeyInv, TypeOK', NEW p \in Peers,
           nextDh' \in {nextDh, nextDh + 1},
           st'[Peer(p)] = st[Peer(p)],
           SessionKnown(st'[p], nextDh'),
           st'[p].sending # None =>
               FitToSend(st'[p].sending, nextDh', st[Peer(p)].sending, sent'),
           \A q \in Peers : disk'[q] # None => disk'[q] = disk[q] \/ SessionKnown(disk'[q], nextDh'),
           sent \subseteq sent',
           \A m \in sent' \ sent :
               /\ m.key.chain \in Known(nextDh')
               /\ m.dh < nextDh'
               /\ st[Peer(p)].sending # None => m.key.chain # st[Peer(p)].sending.id
               /\ \A o \in sent : o.key # m.key
               /\ \A o \in sent' \ sent : o = m
    PROVE  KeyInv'
  <1>0. nextDh \in Nat /\ nextDh' \in Nat
    BY Zenon DEF KeyInv, TypeOK
  <1>1. Known(nextDh) \subseteq Known(nextDh')
    BY <1>0, KnownGrows, Zenon
  <1>2. ASSUME NEW s \in State, SessionKnown(s, nextDh) PROVE SessionKnown(s, nextDh')
    BY <1>0, <1>2, SessionKnownGrows
  <1>3. ASSUME NEW q \in Peers PROVE SessionKnown(st'[q], nextDh')
    <2>1. st[q] \in State /\ SessionKnown(st[q], nextDh)
      BY Zenon DEF KeyInv, TypeOK
    <2> QED
      BY <1>2, <2>1, PeerFacts, Zenon
  <1>4. ASSUME NEW q \in Peers, disk'[q] # None PROVE SessionKnown(disk'[q], nextDh')
    <2>1. disk[q] # None => disk[q] \in State /\ SessionKnown(disk[q], nextDh)
      BY Zenon DEF KeyInv, TypeOK
    <2> QED
      BY <1>2, <1>4, <2>1, Zenon
  <1>5. \A m \in sent' : m.key.chain \in Known(nextDh') /\ m.dh < nextDh'
    <2>1. ASSUME NEW m \in sent PROVE m.key.chain \in Known(nextDh') /\ m.dh < nextDh'
      <3>1. m.key.chain \in Known(nextDh) /\ m.dh < nextDh /\ m.dh \in Nat
        BY <2>1, Zenon DEF KeyInv, TypeOK, Message
      <3> QED
        BY <1>0, <1>1, <3>1
    <2> QED
      BY <2>1, Zenon
  <1>6. NoKeyReuse'
    BY Zenon DEF KeyInv, NoKeyReuse
  <1>7. ASSUME NEW q \in Peers, st'[q].sending # None
        PROVE  FitToSend(st'[q].sending, nextDh', st'[Peer(q)].sending, sent')
    <2>1. CASE q = p
      BY <1>7, <2>1, Zenon
    <2>2. CASE q = Peer(p)
      <3>1. st[q].sending # None /\ st'[q].sending = st[q].sending /\ Peer(q) = p
        BY <1>7, <2>2, PeerFacts, Zenon
      <3>2. /\ st[q].sending.id \in Known(nextDh)
            /\ \A m \in sent : m.key.chain = st[q].sending.id => m.key.n < st[q].sending.index
        BY <3>1, Zenon DEF KeyInv
      <3>3. \A m \in sent' \ sent : m.key.chain # st[q].sending.id
        BY <2>2, <3>1, Zenon
      <3>4. st'[p].sending # None => st[q].sending.id # st'[p].sending.id
        BY <2>2, <3>1, Zenon DEF FitToSend
      <3> QED
        BY <1>1, <3>1, <3>2, <3>3, <3>4, Zenon DEF FitToSend
    <2> QED
      BY <2>1, <2>2, PeerFacts, Zenon
  <1> QED
    BY <1>3, <1>4, <1>5, <1>6, <1>7, Zenon DEF KeyInv, FitToSend

\* dh_ratchet after a message of the peer: the session stays within the
\* known pairs and gets a new chain to send on.
LEMMA OpensNextFit ==
    ASSUME KeyInv, NEW p \in Peers, NEW m \in sent, OpensNext(st[p], m, nextDh)
    PROVE  LET a == AfterNext(st[p], m, nextDh)
               k == IF NeedsRatchet(st[p], m) THEN nextDh + 1 ELSE nextDh
           IN  /\ SessionKnown(a, k)
               /\ a.sending # None => FitToSend(a.sending, k, st[Peer(p)].sending, sent)
  <1> DEFINE s == st[p]
             r == Ratcheted(s, m, nextDh)
             a == AfterNext(s, m, nextDh)
  <1>1. /\ s \in State
        /\ nextDh \in Nat
        /\ m \in Message
        /\ SessionKnown(s, nextDh)
        /\ m.dh \in Nat /\ m.pn \in Nat
        /\ m.dh < nextDh
    BY Zenon DEF KeyInv, TypeOK, Message
  <1>2. /\ a.root = r.root
        /\ a.sending = r.sending
        /\ a.dh_local = r.dh_local
        /\ a.dh_remote = r.dh_remote
    BY <1>1, OpensNextFacts, ZenonT(120)
  <1>3. CASE ~NeedsRatchet(s, m)
    <2>1. r = s
      BY <1>3, Zenon DEF Ratcheted
    <2>2. s.sending # None => FitToSend(s.sending, nextDh, st[Peer(p)].sending, sent)
      BY Zenon DEF KeyInv, FitToSend
    <2> HIDE DEF a, r
    <2> QED
      BY <1>1, <1>2, <1>3, <2>1, <2>2, Zenon DEF SessionKnown, a
  <1>4. CASE NeedsRatchet(s, m)
    <2> DEFINE b == SkipMessageKeys(s, m.pn)
               root1 == KdfRk(b.root, b.dh_local, m.dh)
               root2 == KdfRk(root1, nextDh, m.dh)
    <2>1. CanSkip(s, m.pn) /\ s.dh_local # None
      BY <1>4, Zenon DEF OpensNext
    <2>2. b \in State /\ b.root = s.root /\ b.dh_local = s.dh_local
      BY <1>1, <2>1, SkipMessageKeysType, Zenon
    <2>3. b.dh_local \in Nat /\ b.dh_local < nextDh /\ b.root \in Known(nextDh)
      BY <1>1, <2>1, <2>2, Zenon DEF SessionKnown, State
    <2>4. root1 \in Known(nextDh)
      BY <1>1, <2>3, KnownKdf, Zenon
    <2>5. root2 \notin Known(nextDh)
      BY <1>1, <2>4, FreshKdf, Zenon
    <2>6. root1 \in Known(nextDh + 1)
      BY <1>1, <2>4, KnownGrows, Zenon
    <2>7. root2 \in Known(nextDh + 1)
      BY <1>1, <2>6, KnownKdf
    <2>8. /\ r.root = root2
          /\ r.sending = NewChain(root2)
          /\ r.dh_local = nextDh
          /\ r.dh_remote = m.dh
      BY <1>1, <1>4, <2>1, <2>2, DhRatchetType, SMTT(30) DEF Ratcheted
    <2> HIDE DEF root1, root2, r, a
    <2>9. SessionKnown(a, nextDh + 1)
      BY <1>1, <1>2, <2>7, <2>8, NoneAssumption, SMTT(30) DEF SessionKnown
    <2>10. a.sending.id = root2
      BY <1>2, <2>8, SMTT(30) DEF NewChain
    <2>11. st[Peer(p)].sending # None => st[Peer(p)].sending.id \in Known(nextDh)
      BY PeerFacts, Zenon DEF KeyInv
    <2>12. \A o \in sent : o.key.chain \in Known(nextDh)
      BY Zenon DEF KeyInv
    <2>13. FitToSend(a.sending, nextDh + 1, st[Peer(p)].sending, sent)
      BY <2>5, <2>7, <2>10, <2>11, <2>12, Zenon DEF FitToSend
    <2> QED
      BY <1>4, <2>9, <2>13, Zenon DEF a
  <1> QED
    BY <1>3, <1>4, Zenon

\* from_shared_secret gives the two sessions different sending chains: only
\* the initiator has one.
LEMMA KeyInvInit == Init => KeyInv
  <1> SUFFICES ASSUME Init PROVE KeyInv
    BY Zenon
  <1>1. TypeOK
    BY InitType, Zenon
  <1>2. <<>> \in Known(2)
    BY DEF Known
  <1>3. /\ st[Initiator] = FromSharedSecret(TRUE, 0, 1)
        /\ st[Responder] = FromSharedSecret(FALSE, 1, 0)
        /\ nextDh = 2
        /\ sent = {}
        /\ \A p \in Peers : disk[p] = None
    BY PeersAssumption, Zenon DEF Init, Peers
  <1>4. /\ SessionKnown(st[Initiator], nextDh)
        /\ SessionKnown(st[Responder], nextDh)
        /\ st[Initiator].sending = NewChain(<<>>)
        /\ st[Responder].sending = None
    BY <1>2, <1>3, NoneAssumption DEF SessionKnown, FromSharedSecret
  <1>5. NewChain(<<>>).id = <<>>
    BY Zenon DEF NewChain
  <1> QED
    BY <1>1, <1>2, <1>3, <1>4, <1>5, PeersAssumption, ZenonT(60) DEF KeyInv, Peers, Peer, NoKeyReuse

\* encrypt, decrypt, serialize_state and deserialize_state preserve KeyInv.
LEMMA KeyInvNext == KeyInv /\ [Exchange \/ Restart]_vars => KeyInv'
  <1> SUFFICES ASSUME KeyInv, [Exchange \/ Restart]_vars PROVE KeyInv'
    BY Zenon
  <1>0. TypeOK /\ TypeOK'
    BY NextType, Zenon DEF KeyInv
  <1>1. ASSUME NEW p \in Peers, NEW aged \in Ages, Encrypt(p, aged) PROVE KeyInv'
    <2> DEFINE s == SendState(st[p], aged)
               k == IF Rotates(st[p], aged) THEN nextDh + 1 ELSE nextDh
               t == [s EXCEPT !.sending = Advance(@), !.messages_sent = @ + 1]
               m == Sealed(p, s, HeaderEncryption /\ ~Rotates(st[p], aged))
    <2>1. /\ CanSend(s)
          /\ st' = [st EXCEPT ![p] = t]
          /\ sent' = sent \cup {m}
          /\ nextDh' = k
          /\ disk' = disk
      BY <1>1, Zenon DEF Encrypt
    <2>2. /\ s \in State
          /\ SessionKnown(s, k)
          /\ s.sending # None => FitToSend(s.sending, k, st[Peer(p)].sending, sent)
      BY SendStateFit, Zenon
    <2>3. /\ s.dh_local \in Nat
          /\ s.sending \in Chain
          /\ Advance(s.sending) = [id |-> s.sending.id, index |-> s.sending.index + 1]
      BY <2>1, <2>2, AdvancedSendState, Zenon
    <2>4. FitToSend(s.sending, k, st[Peer(p)].sending, sent)
      BY <2>1, <2>2, Zenon DEF CanSend
    <2>5. /\ m.key = [chain |-> s.sending.id, n |-> s.sending.index]
          /\ m.dh = s.dh_local
      BY Zenon DEF Sealed, KeyAt
    <2>6. /\ st'[p] = t
          /\ st'[Peer(p)] = st[Peer(p)]
      BY <1>0, <2>1, PeerFacts, Zenon DEF TypeOK
    <2> HIDE DEF m, k
    <2>7. /\ t.sending = [id |-> s.sending.id, index |-> s.sending.index + 1]
          /\ t.dh_local = s.dh_local
          /\ t.dh_remote = s.dh_remote
          /\ t.root = s.root
      BY <2>2, <2>3, Zenon DEF State
    <2> HIDE DEF s, t
    <2>8. SessionKnown(t, k)
      BY <2>2, <2>7, Zenon DEF SessionKnown
    <2>9. \A o \in sent : o.key.chain = s.sending.id => o.key.n < s.sending.index /\ o.key.n \in Nat
      BY <1>0, <2>4, Zenon DEF FitToSend, TypeOK, Message, Key
    <2>10. FitToSend(t.sending, k, st[Peer(p)].sending, sent')
      BY <2>1, <2>3, <2>4, <2>5, <2>7, <2>9 DEF FitToSend, Chain
    <2>11. /\ m.key.chain \in Known(k)
           /\ st[Peer(p)].sending # None => m.key.chain # st[Peer(p)].sending.id
      BY <2>4, <2>5 DEF FitToSend
    <2>12. m.dh < k
      BY <2>1, <2>2, <2>5, ZenonT(60) DEF SessionKnown, CanSend
    <2>13. \A o \in sent : o.key # m.key
      BY <2>3, <2>5, <2>9 DEF Chain
    <2>14. nextDh' \in {nextDh, nextDh + 1}
      BY <2>1, Zenon DEF k
    <2> QED
      BY <1>0, <2>1, <2>6, <2>8, <2>10, <2>11, <2>12, <2>13, <2>14, KeyInvStep, ZenonT(60)
  <1>2. ASSUME NEW p \in Peers, NEW aged \in Ages, EncryptFails(p, aged) PROVE KeyInv'
    <2> DEFINE s == SendState(st[p], aged)
               k == IF Rotates(st[p], aged) THEN nextDh + 1 ELSE nextDh
               t == [s EXCEPT !.sending = Advance(@)]
    <2>1. /\ CanSend(s)
          /\ st' = [st EXCEPT ![p] = t]
          /\ nextDh' = k
          /\ UNCHANGED <<disk, sent>>
      BY <1>2, SMTT(30) DEF EncryptFails
    <2>2. /\ s \in State
          /\ SessionKnown(s, k)
          /\ s.sending # None => FitToSend(s.sending, k, st[Peer(p)].sending, sent)
      BY SendStateFit, Zenon
    <2>3. /\ s.sending \in Chain
          /\ Advance(s.sending) = [id |-> s.sending.id, index |-> s.sending.index + 1]
      BY <2>1, <2>2, AdvancedSendState, Zenon
    <2>4. FitToSend(s.sending, k, st[Peer(p)].sending, sent)
      BY <2>1, <2>2, Zenon DEF CanSend
    <2>6. /\ st'[p] = t
          /\ st'[Peer(p)] = st[Peer(p)]
      BY <1>0, <2>1, PeerFacts, Zenon DEF TypeOK
    <2> HIDE DEF k
    <2>7. /\ t.sending = [id |-> s.sending.id, index |-> s.sending.index + 1]
          /\ t.dh_local = s.dh_local
          /\ t.dh_remote = s.dh_remote
          /\ t.root = s.root
      BY <2>2, <2>3, ZenonT(60) DEF State
    <2> HIDE DEF s, t
    <2>8. SessionKnown(t, k)
      BY <2>2, <2>7, Zenon DEF SessionKnown
    <2>9. \A o \in sent : o.key.chain = s.sending.id => o.key.n < s.sending.index /\ o.key.n \in Nat
      BY <1>0, <2>4, Zenon DEF FitToSend, TypeOK, Message, Key
    <2>10. FitToSend(t.sending, k, st[Peer(p)].sending, sent')
      BY <2>1, <2>3, <2>4, <2>7, <2>9, SMTT(30) DEF FitToSend, Chain
    <2>14. nextDh' \in {nextDh, nextDh + 1}
      BY <2>1, Zenon DEF k
    <2> QED
      BY <1>0, <2>1, <2>6, <2>8, <2>10, <2>14, KeyInvStep, ZenonT(60)
  <1>3. ASSUME NEW p \in Peers, NEW m \in sent, Decrypt(p, m) PROVE KeyInv'
    <2>0. st[p] \in State /\ m \in Message /\ nextDh \in Nat
      BY <1>0, Zenon DEF TypeOK
    <2>1. disk' = disk /\ sent' = sent
      BY <1>3, Zenon DEF Decrypt
    <2>2. CASE /\ st' = [st EXCEPT ![p] = AfterSkipped(st[p], m)]
               /\ nextDh' = nextDh
      <3> DEFINE t == AfterSkipped(st[p], m)
      <3>1. /\ t.sending = st[p].sending
            /\ t.dh_local = st[p].dh_local
            /\ t.dh_remote = st[p].dh_remote
            /\ t.root = st[p].root
        BY <2>0, Zenon DEF AfterSkipped, State
      <3>2. st'[p] = t /\ st'[Peer(p)] = st[Peer(p)]
        BY <1>0, <2>2, PeerFacts, Zenon DEF TypeOK
      <3> HIDE DEF t
      <3>3. SessionKnown(t, nextDh)
        BY <3>1, Zenon DEF KeyInv, SessionKnown
      <3>4. t.sending # None => FitToSend(t.sending, nextDh, st[Peer(p)].sending, sent)
        BY <3>1, ZenonT(60) DEF KeyInv, FitToSend
      <3> QED
        BY <1>0, <2>1, <2>2, <3>2, <3>3, <3>4, KeyInvStep, Zenon
    <2>3. CASE /\ OpensNext(st[p], m, nextDh)
               /\ st' = [st EXCEPT ![p] = AfterNext(st[p], m, nextDh)]
               /\ nextDh' = IF NeedsRatchet(st[p], m) THEN nextDh + 1 ELSE nextDh
      <3> DEFINE t == AfterNext(st[p], m, nextDh)
      <3>1. /\ SessionKnown(t, nextDh')
            /\ t.sending # None => FitToSend(t.sending, nextDh', st[Peer(p)].sending, sent)
        BY <2>3, OpensNextFit, Zenon
      <3>2. st'[p] = t /\ st'[Peer(p)] = st[Peer(p)]
        BY <1>0, <2>3, PeerFacts, Zenon DEF TypeOK
      <3>3. nextDh' \in {nextDh, nextDh + 1}
        BY <2>3, Zenon
      <3> HIDE DEF t
      <3> QED
        BY <1>0, <2>1, <3>1, <3>2, <3>3, KeyInvStep, Zenon
    <2> QED
      BY <1>3, <2>2, <2>3, Zenon DEF Decrypt
  <1>4. ASSUME UNCHANGED vars PROVE KeyInv'
    BY <1>4, Zenon DEF KeyInv, TypeOK, NoKeyReuse, vars
  <1>5. ASSUME NEW p \in Peers, NEW m \in sent, DecryptRejects(p, m) PROVE KeyInv'
    BY <1>4, <1>5, Zenon DEF DecryptRejects
  <1>6. ASSUME NEW p \in Peers, SerializeState(p) PROVE KeyInv'
    <2> DEFINE d == Serialized(st[p])
    <2>1. /\ st[p] \in State
          /\ SessionKnown(st[p], nextDh)
          /\ disk' = [disk EXCEPT ![p] = d]
          /\ UNCHANGED <<st, nextDh, sent>>
      BY <1>0, <1>6, Zenon DEF SerializeState, TypeOK, KeyInv
    <2>2. d.dh_local = None /\ d.dh_remote = st[p].dh_remote /\ d.root = st[p].root
      BY <2>1, Zenon DEF Serialized, State
    <2> HIDE DEF d
    <2>3. SessionKnown(d, nextDh)
      BY <2>1, <2>2, Zenon DEF SessionKnown
    <2>4. \A q \in Peers : disk'[q] = disk[q] \/ disk'[q] = d
      BY <1>0, <2>1, Zenon DEF TypeOK
    <2>5. st[p].sending # None => FitToSend(st[p].sending, nextDh, st[Peer(p)].sending, sent)
      BY Zenon DEF KeyInv, FitToSend
    <2> QED
      BY <1>0, <2>1, <2>3, <2>4, <2>5, KeyInvStep, ZenonT(60)
  <1>7. ASSUME NEW p \in Peers, DeserializeState(p) PROVE KeyInv'
    <2> DEFINE loaded == disk[p]
               primes == loaded.dh_remote # None /\ loaded.sending # None
               s == IF primes THEN PerformDhRatchet(loaded, nextDh) ELSE loaded
    <2>1. loaded \in State /\ SessionKnown(loaded, nextDh) /\ nextDh \in Nat
      BY <1>0, <1>7, Zenon DEF DeserializeState, TypeOK, KeyInv
    <2>2. PICK kept : st' = [st EXCEPT ![p] = [s EXCEPT !.skipped = kept]]
      BY <1>7, Zenon DEF DeserializeState
    <2>3. /\ nextDh' = IF primes THEN nextDh + 1 ELSE nextDh
          /\ UNCHANGED <<disk, sent>>
      BY <1>7, Zenon DEF DeserializeState
    <2>4. s \in State
      BY <2>1, PerformDhRatchetType, Zenon
    <2>5. SessionKnown(s, nextDh')
      BY <2>1, <2>3, PerformDhRatchetFresh, Zenon
    <2>6. s.sending # None => FitToSend(s.sending, nextDh', st[Peer(p)].sending, sent)
      <3>1. CASE primes
        <4>1. /\ s.sending.id \in Known(nextDh + 1)
              /\ s.sending.id \notin Known(nextDh)
          BY <2>1, <3>1, PerformDhRatchetFresh, Zenon
        <4>2. st[Peer(p)].sending # None => st[Peer(p)].sending.id \in Known(nextDh)
          BY PeerFacts, Zenon DEF KeyInv
        <4>3. \A o \in sent : o.key.chain \in Known(nextDh)
          BY Zenon DEF KeyInv
        <4> QED
          BY <2>3, <3>1, <4>1, <4>2, <4>3, Zenon DEF FitToSend
      <3>2. CASE ~primes
        BY <2>1, <3>2, Zenon DEF SessionKnown
      <3> QED
        BY <3>1, <3>2, Zenon
    <2>7. nextDh' \in {nextDh, nextDh + 1}
      BY <2>3, Zenon
    <2> DEFINE t == [s EXCEPT !.skipped = kept]
    <2>8. st'[p] = t /\ st'[Peer(p)] = st[Peer(p)]
      BY <1>0, <2>2, PeerFacts, Zenon DEF TypeOK
    <2> HIDE DEF s
    <2>9. /\ t.sending = s.sending
          /\ t.dh_local = s.dh_local
          /\ t.dh_remote = s.dh_remote
          /\ t.root = s.root
      BY <2>4, Zenon DEF State
    <2> HIDE DEF t
    <2>10. SessionKnown(t, nextDh')
      BY <2>5, <2>9, Zenon DEF SessionKnown
    <2> QED
      BY <1>0, <2>3, <2>6, <2>7, <2>8, <2>9, <2>10, KeyInvStep, ZenonT(60)
  <1> QED
    BY <1>1, <1>2, <1>3, <1>4, <1>5, <1>6, <1>7, ZenonT(60) DEF Exchange, Restart

\* No two messages are encrypted under one message key, whatever is saved,
\* lost and loaded: encrypt advances the chain before it uses a key, and
\* deserialize_state leaves the saved chain for a new one.
THEOREM NoReuse == RestartSpec => []NoKeyReuse
  <1>1. KeyInv => NoKeyReuse
    BY Zenon DEF KeyInv
  <1> QED
    BY <1>1, KeyInvInit, KeyInvNext, PTL DEF RestartSpec

-----------------------------------------------------------------------------
(* No message is opened twice *)

\* The receiving chain has left the key behind: it is of an older chain, or
\* of the current one before its position.
Passed(s, k) ==
    /\ Len(k.chain) <= Len(s.root)
    /\ s.receiving # None /\ k.chain = s.receiving.id => k.n < s.receiving.index

\* A session that has used the keys in used: it has left them and the keys
\* in its cache behind, and no key is in the cache that was used or that
\* another entry holds.
Consistent(s, used) ==
    /\ s.receiving # None => Len(s.receiving.id) <= Len(s.root)
    /\ \A e \in s.skipped : Passed(s, e.key)
    /\ \A e, f \in s.skipped : e.key = f.key => e = f
    /\ \A k \in used : Passed(s, k) /\ \A e \in s.skipped : e.key # k

\* The keys of the messages that decrypt has opened for p.
Used(p) == {m.key : m \in {o \in opened : o.from = Peer(p)}}

\* The inductive invariant behind AtMostOnce.
OnceInv ==
    /\ TypeOK
    /\ reopened = {}
    /\ \A p \in Peers : Consistent(st[p], Used(p))

\* kdf_rk makes the root key one step longer.
LEMMA KdfRkLonger ==
    ASSUME NEW root \in Root, NEW a \in Nat, NEW b \in Nat
    PROVE  Len(KdfRk(root, a, b)) = Len(root) + 1 /\ Len(root) \in Nat
  BY DEF KdfRk, Root

\* A step that leaves the receiving side alone and at most extends the root
\* key, as encrypt does, keeps a session consistent.
LEMMA ConsistentSend ==
    ASSUME NEW s \in State, NEW t \in State, NEW used \in SUBSET Key, Consistent(s, used),
           t.receiving = s.receiving, t.skipped = s.skipped,
           Len(s.root) <= Len(t.root)
    PROVE  Consistent(t, used)
  <1>1. Len(s.root) \in Nat /\ Len(t.root) \in Nat
    BY DEF State, Root
  <1>2. \A k \in Key : Len(k.chain) \in Nat
    BY DEF Key, Root
  <1>3. \A e \in s.skipped : e.key \in Key
    BY Zenon DEF State, SkippedKey
  <1>4. s.receiving # None => Len(s.receiving.id) \in Nat
    BY DEF State, Chain, Root
  <1>5. \A k \in Key : Passed(s, k) => Passed(t, k)
    BY <1>1, <1>2 DEF Passed
  <1> QED
    BY <1>1, <1>3, <1>4, <1>5 DEF Consistent

\* skip_message_keys puts only keys into the cache that the chain had still
\* to yield.
LEMMA ConsistentSkip ==
    ASSUME NEW s \in State, NEW until \in Nat, CanSkip(s, until),
           NEW used \in SUBSET Key, Consistent(s, used)
    PROVE  Consistent(SkipMessageKeys(s, until), used)
  <1> DEFINE t == SkipMessageKeys(s, until)
             c == s.receiving
  <1>1. CASE c = None \/ until <= c.index
    BY <1>1, Zenon DEF SkipMessageKeys
  <1>2. CASE ~(c = None \/ until <= c.index)
    <2> DEFINE new == {[dh |-> s.dh_remote, n |-> i, key |-> [chain |-> c.id, n |-> i]] :
                          i \in c.index .. (until - 1)}
               kept == {e \in s.skipped : <<e.dh, e.n>> \notin Slots(new)}
    <2>1. t = [s EXCEPT !.skipped = kept \cup new,
                        !.receiving = [c EXCEPT !.index = until]]
      BY <1>2, Zenon DEF SkipMessageKeys
    <2>2. c \in Chain /\ c.index < until /\ c.index \in Nat
      BY <1>2 DEF State, Chain
    <2>3. kept \subseteq s.skipped
      BY Zenon
    <2>4. \A e \in new : /\ e.key.chain = c.id
                         /\ e.key.n \in Nat
                         /\ c.index <= e.key.n
                         /\ e.key.n < until
                         /\ \A f \in new : e.key = f.key => e = f
      BY <2>2, SMTT(30)
    <2> HIDE DEF new, kept, t
    <2>5. /\ t.root = s.root
          /\ t.skipped = kept \cup new
          /\ t.receiving = [id |-> c.id, index |-> until]
      BY <2>1, <2>2, Zenon DEF State, Chain
    <2>6. \A k \in Key : Passed(s, k) => Passed(t, k)
      BY <1>2, <2>2, <2>5 DEF Passed, Key
    <2>7. \A e \in s.skipped : e.key \in Key
      BY Zenon DEF State, SkippedKey
    <2>8. \A e \in new, k \in Key : Passed(s, k) => e.key # k
      BY <1>2, <2>2, <2>4 DEF Passed, Key
    <2>9. \A e \in new : Passed(t, e.key)
      BY <1>2, <2>4, <2>5, SMTT(30) DEF Passed, Consistent
    <2>10. \A e \in s.skipped : Passed(s, e.key)
      BY Zenon DEF Consistent
    <2>11. \A e \in kept \cup new : Passed(t, e.key)
      BY <2>3, <2>6, <2>7, <2>9, <2>10, ZenonT(60)
    <2>12. \A e, f \in kept \cup new : e.key = f.key => e = f
      BY <2>3, <2>4, <2>7, <2>8, <2>10, Zenon DEF Consistent
    <2>13. \A k \in used : Passed(t, k) /\ \A e \in kept \cup new : e.key # k
      BY <2>3, <2>6, <2>8, Zenon DEF Consistent
    <2>14. Len(t.receiving.id) <= Len(t.root)
      BY <1>2, <2>5 DEF Consistent
    <2> QED
      BY <2>5, <2>11, <2>12, <2>13, <2>14, Zenon DEF Consistent, t
  <1> QED
    BY <1>1, <1>2, Zenon

\* dh_ratchet starts a receiving chain that is longer than every chain that
\* was used before.
LEMMA ConsistentDhRatchet ==
    ASSUME NEW s \in State, s.dh_local # None, NEW remote \in Nat, NEW fresh \in Nat,
           NEW used \in SUBSET Key, Consistent(s, used)
    PROVE  Consistent(DhRatchet(s, remote, fresh), used)
  <1> DEFINE t == DhRatchet(s, remote, fresh)
             root1 == KdfRk(s.root, s.dh_local, remote)
             root2 == KdfRk(root1, fresh, remote)
  <1>1. /\ t.root = root2
        /\ t.receiving = NewChain(root1)
        /\ t.skipped = s.skipped
    BY DhRatchetType
  <1>2. s.root \in Root /\ s.dh_local \in Nat
    BY Zenon DEF State
  <1>3. root1 \in Root /\ Len(root1) = Len(s.root) + 1 /\ Len(s.root) \in Nat
    BY <1>2, KdfRkType, KdfRkLonger, Zenon
  <1>4. Len(root2) = Len(root1) + 1
    BY <1>3, KdfRkLonger, Zenon
  <1>5. \A e \in s.skipped : e.key \in Key
    BY Zenon DEF State, SkippedKey
  <1>6. \A k \in Key : Len(k.chain) \in Nat
    BY DEF Key, Root
  <1> HIDE DEF root1, root2, t
  <1>7. t.receiving.id = root1
    BY <1>1 DEF NewChain
  <1>8. \A k \in Key : Passed(s, k) => Passed(t, k)
    BY <1>1, <1>3, <1>4, <1>6, <1>7 DEF Passed
  <1> QED
    BY <1>1, <1>3, <1>4, <1>5, <1>7, <1>8 DEF Consistent, t

\* A message that is opened with a kept key was not opened before, and the
\* key is gone afterwards.
LEMMA ConsistentSkipped ==
    ASSUME NEW s \in State, NEW m \in Message, OpensSkipped(s, m),
           NEW used \in SUBSET Key, Consistent(s, used)
    PROVE  /\ m.key \notin used
           /\ Consistent(AfterSkipped(s, m), used \cup {m.key})
  <1>1. PICK e \in SkippedFor(s, m) : e.key = m.key
    BY Zenon DEF OpensSkipped
  <1>2. e \in s.skipped
    BY Zenon DEF SkippedFor
  <1> DEFINE t == AfterSkipped(s, m)
  <1>3. /\ t.root = s.root
        /\ t.receiving = s.receiving
        /\ t.skipped = s.skipped \ SkippedFor(s, m)
    BY Zenon DEF AfterSkipped, State
  <1> HIDE DEF t
  <1>4. m.key \notin used /\ Passed(s, m.key)
    BY <1>1, <1>2, Zenon DEF Consistent
  <1>5. \A f \in t.skipped : f.key # m.key
    BY <1>1, <1>2, <1>3, Zenon DEF Consistent
  <1>6. \A k : Passed(s, k) <=> Passed(t, k)
    BY <1>3, SMTT(30) DEF Passed
  <1> QED
    BY <1>3, <1>4, <1>5, <1>6, ZenonT(120) DEF Consistent, t

\* A message that is opened by stepping the chain to it was not opened
\* before, and the chain has left its key behind afterwards.
LEMMA ConsistentNext ==
    ASSUME NEW s \in State, NEW m \in Message, NEW fresh \in Nat, OpensNext(s, m, fresh),
           NEW used \in SUBSET Key, Consistent(s, used)
    PROVE  /\ m.key \notin used
           /\ Consistent(AfterNext(s, m, fresh), used \cup {m.key})
  <1> DEFINE r == Ratcheted(s, m, fresh)
             k == SkipMessageKeys(r, m.n)
             a == AfterNext(s, m, fresh)
  <1>0. m.n \in Nat /\ m.pn \in Nat /\ m.dh \in Nat /\ m.key \in Key
    BY Zenon DEF Message
  <1>1. Consistent(r, used)
    <2>1. CASE NeedsRatchet(s, m)
      <3> DEFINE b == SkipMessageKeys(s, m.pn)
      <3>1. CanSkip(s, m.pn) /\ s.dh_local # None
        BY <2>1, Zenon DEF OpensNext
      <3>2. b \in State /\ b.dh_local # None
        BY <1>0, <3>1, SkipMessageKeysType, Zenon
      <3>3. Consistent(b, used)
        BY <1>0, <3>1, ConsistentSkip, Zenon
      <3>4. r = DhRatchet(b, m.dh, fresh)
        BY <2>1, Zenon DEF Ratcheted
      <3> HIDE DEF b
      <3> QED
        BY <1>0, <3>2, <3>3, <3>4, ConsistentDhRatchet, ZenonT(60)
    <2>2. CASE ~NeedsRatchet(s, m)
      BY <2>2, SMTT(30) DEF Ratcheted
    <2> QED
      BY <2>1, <2>2, Zenon
  <1>2. /\ r \in State
        /\ CanSkip(r, m.n)
        /\ k \in State
        /\ k.receiving \in Chain
        /\ k.receiving.index = m.n
        /\ m.key = [chain |-> k.receiving.id, n |-> m.n]
        /\ a.receiving = [id |-> k.receiving.id, index |-> m.n + 1]
        /\ a.skipped = k.skipped
        /\ a.root = r.root
    BY OpensNextFacts, ZenonT(60)
  <1>3. k.root = r.root
    BY <1>0, <1>2, SkipMessageKeysType, ZenonT(60)
  <1> HIDE DEF r
  <1>4. Consistent(k, used)
    BY <1>0, <1>1, <1>2, ConsistentSkip, ZenonT(60)
  <1> HIDE DEF k, a
  <1>5. k.receiving # None
    BY <1>2, NoneAssumption, Zenon
  <1>6. m.key.chain = k.receiving.id /\ m.key.n = m.n
    BY <1>2
  <1>7. ~Passed(k, m.key)
    BY <1>0, <1>2, <1>5, <1>6, SMTT(30) DEF Passed
  <1>8. \A x \in Key : Passed(k, x) => Passed(a, x)
    BY <1>0, <1>2, <1>3, <1>5, SMTT(30) DEF Passed, Key
  <1>9. \A e \in k.skipped : e.key \in Key
    BY <1>2, Zenon DEF State, SkippedKey
  <1>10. Passed(a, m.key)
    <2>1. Len(k.receiving.id) <= Len(k.root)
      BY <1>4, <1>5, Zenon DEF Consistent
    <2>2. Len(m.key.chain) <= Len(a.root)
      BY <1>2, <1>3, <1>6, <2>1, ZenonT(60)
    <2>3. m.key.n < a.receiving.index
      BY <1>0, <1>2, <1>6, SMTT(30)
    <2> QED
      BY <2>2, <2>3, Zenon DEF Passed
  <1>11. \A e \in k.skipped : e.key # m.key
    BY <1>4, <1>7, Zenon DEF Consistent
  <1>12. m.key \notin used
    BY <1>4, <1>7, ZenonT(60) DEF Consistent
  <1>13. Len(a.receiving.id) <= Len(a.root)
    BY <1>2, <1>3, <1>4, <1>5, SMTT(30) DEF Consistent
  <1> QED
    BY <1>2, <1>4, <1>8, <1>9, <1>10, <1>11, <1>12, <1>13, ZenonT(60) DEF Consistent, a

\* A step of one session preserves the invariant when that session ends
\* consistent and nothing more is opened.
LEMMA OnceInvSend ==
    ASSUME OnceInv, TypeOK', NEW p \in Peers, NEW t \in State,
           st' = [st EXCEPT ![p] = t], UNCHANGED <<opened, reopened>>,
           t.receiving = st[p].receiving, t.skipped = st[p].skipped,
           Len(st[p].root) <= Len(t.root)
    PROVE  OnceInv'
  <1>1. ASSUME NEW q \in Peers PROVE Consistent(st'[q], Used(q)')
    <2>1. Used(q)' = Used(q)
      BY Zenon DEF Used
    <2>2. Used(q) \in SUBSET Key /\ st[q] \in State /\ Consistent(st[q], Used(q))
      BY DEF Used, OnceInv, TypeOK, Message
    <2>3. CASE q = p
      <3>1. st'[q] = t
        BY <2>3, Zenon DEF OnceInv, TypeOK
      <3> QED
        BY <2>1, <2>2, <2>3, <3>1, ConsistentSend, Zenon
    <2>4. CASE q # p
      <3>1. st'[q] = st[q]
        BY <2>4, Zenon DEF OnceInv, TypeOK
      <3> QED
        BY <2>1, <2>2, <3>1, Zenon
    <2> QED
      BY <2>3, <2>4, Zenon
  <1> QED
    BY <1>1, Zenon DEF OnceInv

\* Rotation before an encryption at most makes the root key longer.
LEMMA SendStateRoot ==
    ASSUME NEW s \in State, NEW aged, nextDh \in Nat
    PROVE  Len(s.root) <= Len(SendState(s, aged).root)
  <1>1. Len(s.root) \in Nat /\ s.root \in Root
    BY DEF State, Root
  <1>2. CASE Rotates(s, aged) /\ s.dh_remote # None
    <2>1. s.dh_remote \in Nat
      BY <1>2, Zenon DEF State
    <2>2. SendState(s, aged).root = KdfRk(s.root, nextDh, s.dh_remote)
      BY <1>2, PerformDhRatchetType, Zenon DEF SendState
    <2>3. Len(KdfRk(s.root, nextDh, s.dh_remote)) = Len(s.root) + 1
      BY <1>1, <2>1, KdfRkLonger, Zenon
    <2> QED
      BY <1>1, <2>2, <2>3
  <1>3. CASE ~Rotates(s, aged)
    BY <1>1, <1>3 DEF SendState
  <1>4. CASE s.dh_remote = None
    BY <1>1, <1>4 DEF SendState, PerformDhRatchet, State
  <1> QED
    BY <1>2, <1>3, <1>4, Zenon

\* No session has opened anything when it starts.
LEMMA OnceInvInit == Init => OnceInv
  <1> SUFFICES ASSUME Init PROVE OnceInv
    BY Zenon
  <1>1. TypeOK /\ reopened = {}
    BY InitType, Zenon DEF Init
  <1>2. ASSUME NEW p \in Peers PROVE Consistent(st[p], Used(p))
    <2>1. st[p] \in {FromSharedSecret(TRUE, 0, 1), FromSharedSecret(FALSE, 1, 0)}
      BY Zenon DEF Init
    <2>2. Used(p) = {}
      BY Zenon DEF Init, Used
    <2>3. st[p].skipped = {} /\ st[p].root = <<>>
      BY <2>1 DEF FromSharedSecret
    <2>4. st[p].receiving \in {None, NewChain(<<>>)}
      BY <2>1 DEF FromSharedSecret
    <2> QED
      BY <2>2, <2>3, <2>4 DEF Consistent, NewChain
  <1> QED
    BY <1>1, <1>2, Zenon DEF OnceInv

\* encrypt and decrypt preserve OnceInv.
LEMMA OnceInvNext == OnceInv /\ [Exchange]_vars => OnceInv'
  <1> SUFFICES ASSUME OnceInv, [Exchange]_vars PROVE OnceInv'
    BY Zenon
  <1>0. TypeOK /\ TypeOK'
    BY NextType, Zenon DEF OnceInv
  <1>1. ASSUME NEW p \in Peers, NEW aged \in Ages, Encrypt(p, aged) PROVE OnceInv'
    <2> DEFINE s == SendState(st[p], aged)
               t == [s EXCEPT !.sending = Advance(@), !.messages_sent = @ + 1]
    <2>0. st[p] \in State /\ nextDh \in Nat
      BY <1>0, Zenon DEF TypeOK
    <2>1. /\ CanSend(s)
          /\ st' = [st EXCEPT ![p] = t]
          /\ UNCHANGED <<opened, reopened>>
      BY <1>1, Zenon DEF Encrypt
    <2>2. /\ s \in State
          /\ s.receiving = st[p].receiving
          /\ s.skipped = st[p].skipped
          /\ Len(st[p].root) <= Len(s.root)
      BY <2>0, SendStateType, SendStateRoot, Zenon
    <2>3. t \in State
      BY <2>1, <2>2, AdvancedSendState, Zenon
    <2> HIDE DEF s
    <2>4. t.receiving = s.receiving /\ t.skipped = s.skipped /\ t.root = s.root
      BY <2>2, ZenonT(60) DEF State
    <2> HIDE DEF t
    <2> QED
      BY <1>0, <2>1, <2>2, <2>3, <2>4, OnceInvSend, Zenon
  <1>2. ASSUME NEW p \in Peers, NEW aged \in Ages, EncryptFails(p, aged) PROVE OnceInv'
    <2> DEFINE s == SendState(st[p], aged)
               t == [s EXCEPT !.sending = Advance(@)]
    <2>0. st[p] \in State /\ nextDh \in Nat
      BY <1>0, Zenon DEF TypeOK
    <2>1. /\ CanSend(s)
          /\ st' = [st EXCEPT ![p] = t]
          /\ UNCHANGED <<opened, reopened>>
      BY <1>2, SMTT(30) DEF EncryptFails
    <2>2. /\ s \in State
          /\ s.receiving = st[p].receiving
          /\ s.skipped = st[p].skipped
          /\ Len(st[p].root) <= Len(s.root)
      BY <2>0, SendStateType, SendStateRoot, Zenon
    <2>3. t \in State
      BY <2>1, <2>2, AdvancedSendState, Zenon
    <2> HIDE DEF s
    <2>4. t.receiving = s.receiving /\ t.skipped = s.skipped /\ t.root = s.root
      BY <2>2, Zenon DEF State
    <2> HIDE DEF t
    <2> QED
      BY <1>0, <2>1, <2>2, <2>3, <2>4, OnceInvSend, Zenon
  <1>3. ASSUME NEW p \in Peers, NEW m \in sent, Decrypt(p, m) PROVE OnceInv'
    <2>0. /\ st[p] \in State
          /\ m \in Message
          /\ nextDh \in Nat
          /\ Used(p) \in SUBSET Key
          /\ Consistent(st[p], Used(p))
          /\ m.from = Peer(p)
      BY <1>0, <1>3 DEF TypeOK, OnceInv, Used, Message, Decrypt
    <2>1. PICK t \in State : /\ st' = [st EXCEPT ![p] = t]
                             /\ m.key \notin Used(p)
                             /\ Consistent(t, Used(p) \cup {m.key})
      <3>1. CASE /\ OpensSkipped(st[p], m)
                 /\ st' = [st EXCEPT ![p] = AfterSkipped(st[p], m)]
        <4>1. AfterSkipped(st[p], m) \in State
          BY <2>0, Zenon DEF AfterSkipped, State
        <4> QED
          BY <2>0, <3>1, <4>1, ConsistentSkipped, ZenonT(60)
      <3>2. CASE /\ OpensNext(st[p], m, nextDh)
                 /\ st' = [st EXCEPT ![p] = AfterNext(st[p], m, nextDh)]
        <4>1. AfterNext(st[p], m, nextDh) \in State
          BY <2>0, <3>2, OpensNextFacts, Zenon
        <4> QED
          BY <2>0, <3>2, <4>1, ConsistentNext, ZenonT(60)
      <3> QED
        BY <1>3, <3>1, <3>2, ZenonT(60) DEF Decrypt
    <2>2. /\ opened' = opened \cup {m}
          /\ reopened' = reopened \cup ({m} \cap opened)
      BY <1>3, Zenon DEF Decrypt
    <2>3. m \notin opened
      BY <2>0, <2>1, Zenon DEF Used
    <2>4. reopened' = {}
      BY <2>2, <2>3, Zenon DEF OnceInv
    <2>5. ASSUME NEW q \in Peers PROVE Consistent(st'[q], Used(q)')
      <3>1. CASE q = p
        <4>1. Used(q)' = Used(p) \cup {m.key}
          BY <2>0, <2>2, <3>1, ZenonT(60) DEF Used
        <4>2. st'[q] = t
          BY <1>0, <2>1, <3>1, ZenonT(60) DEF TypeOK
        <4> QED
          BY <2>1, <4>1, <4>2, Zenon
      <3>2. CASE q = Peer(p)
        <4>1. Used(q)' = Used(q)
          BY <2>0, <2>2, <3>2, PeerFacts DEF Used
        <4>2. st'[q] = st[q]
          BY <1>0, <2>1, <3>2, PeerFacts, Zenon DEF TypeOK
        <4> QED
          BY <4>1, <4>2, ZenonT(60) DEF OnceInv
      <3> QED
        BY <3>1, <3>2, PeerFacts, Zenon
    <2> QED
      BY <1>0, <2>4, <2>5, Zenon DEF OnceInv
  <1>4. ASSUME UNCHANGED vars PROVE OnceInv'
    BY <1>4, Zenon DEF OnceInv, TypeOK, Used, vars
  <1>5. ASSUME NEW p \in Peers, NEW m \in sent, DecryptRejects(p, m) PROVE OnceInv'
    BY <1>4, <1>5, Zenon DEF DecryptRejects
  <1> QED
    BY <1>1, <1>2, <1>3, <1>4, <1>5, Zenon DEF Exchange

\* decrypt never returns the plaintext of one message twice in the life of a
\* session, however often and in whatever order the network offers it.
THEOREM OpenedOnce == Spec => []AtMostOnce
  <1>1. OnceInv => AtMostOnce
    BY Zenon DEF OnceInv, AtMostOnce
  <1> QED
    BY <1>1, OnceInvInit, OnceInvNext, PTL DEF Spec

-----------------------------------------------------------------------------
(* The cache of skipped keys *)

\* One key for a dh_public and a message number, as in a map.
OneKeyPerSlot(skipped) ==
    \A e \in skipped, f \in skipped : e.dh = f.dh /\ e.n = f.n => e = f

\* What is known of a state of a session, saved or not.
Cached(s) ==
    /\ IsFiniteSet(s.skipped)
    /\ OneKeyPerSlot(s.skipped)
    /\ s.max_skip <= MaxSkip

Fits(s) == Cached(s) /\ Cardinality(s.skipped) <= MaxSkip

CacheInv ==
    /\ TypeOK
    /\ \A p \in Peers : Fits(st[p])
    /\ \A p \in Peers : disk[p] # None => Cached(disk[p])

\* The slots of the numbers from a to b under one dh_public.
ChainSlots(dh, a, b) == {<<dh, i>> : i \in a .. b}

\* The counters the model adds one to.
LEMMA Successor ==
    \A k \in Nat : /\ k + 1 \in Nat /\ k <= k + 1 /\ k < k + 1
                  /\ \A x \in Nat : x < k => x < k + 1 /\ x # k
  OBVIOUS

\* A chain at a position, and one at its start.
LEMMA ChainFields ==
    /\ \A id : NewChain(id).id = id /\ NewChain(id).index = 0
    /\ \A id \in Root, n \in Nat : [id |-> id, index |-> n] # None
  BY NoneAssumption DEF NewChain, Chain

\* A chain that has not moved has no slots, and neither has an empty cache.
LEMMA NoSlots == \A dh : Slots({}) = {} /\ ChainSlots(dh, 0, 0 - 1) = {}
  BY DEF Slots, ChainSlots

\* No slots count for nothing.
LEMMA NoneCounted == IsFiniteSet({}) /\ \A n : n = 0 => Cardinality({}) <= n /\ n <= n /\ n <= 0
  BY FS_EmptySet

\* There are no more slots than keys, and finitely many of a chain.
LEMMA SlotsFinite ==
    ASSUME NEW skipped, IsFiniteSet(skipped), NEW dh, NEW a \in Int, NEW b \in Int
    PROVE  IsFiniteSet(Slots(skipped) \cup ChainSlots(dh, a, b))
  <1> DEFINE before == {<<dh, i>> : i \in a .. b}
             f == [e \in skipped |-> <<e.dh, e.n>>]
             g == [i \in a .. b |-> <<dh, i>>]
  <1>1. f \in Surjection(skipped, Slots(skipped))
    BY Zenon DEF Surjection, Slots
  <1>2. g \in Surjection(a .. b, before)
    BY Zenon DEF Surjection
  <1> HIDE DEF f, g, before
  <1>3. IsFiniteSet(Slots(skipped))
    BY <1>1, FS_Surjection, Zenon
  <1>4. IsFiniteSet(before)
    BY <1>2, FS_Interval, FS_Surjection
  <1>5. IsFiniteSet(Slots(skipped) \cup before)
    BY <1>3, <1>4, FS_Union, Zenon
  <1> QED
    BY <1>5, Zenon DEF before, ChainSlots

\* skip_message_keys fills the cache up to max_skip and no further: the check
\* of the last insertion covers all of them.
LEMMA SkipFits ==
    ASSUME NEW s \in State, NEW until \in Nat, CanSkip(s, until), Fits(s)
    PROVE  Fits(SkipMessageKeys(s, until))
  <1>1. CASE s.receiving = None \/ until <= s.receiving.index
    BY <1>1, Zenon DEF SkipMessageKeys
  <1>2. CASE ~(s.receiving = None \/ until <= s.receiving.index)
    <2> DEFINE c == s.receiving
               k == SkipMessageKeys(s, until)
               new == {[dh |-> s.dh_remote, n |-> i, key |-> [chain |-> c.id, n |-> i]] :
                          i \in c.index .. (until - 1)}
               kept == {e \in s.skipped : <<e.dh, e.n>> \notin Slots(new)}
               all == kept \cup new
               before == {<<s.dh_remote, i>> : i \in c.index .. (until - 2)}
               last == <<s.dh_remote, until - 1>>
               room == Slots(s.skipped) \cup before
               f == [e \in all |-> <<e.dh, e.n>>]
    <2>1. c \in Chain /\ c.index \in Nat /\ s.dh_remote \in Nat /\ until > c.index
      BY <1>2 DEF CanSkip, State, Chain
    <2>2. k = [s EXCEPT !.skipped = all, !.receiving = [c EXCEPT !.index = until]]
      BY <1>2, Zenon DEF SkipMessageKeys
    <2>3. /\ Cardinality(room) < s.max_skip
          /\ s.max_skip \in Nat
      BY <1>2, <2>1, Zenon DEF CanSkip, State
    <2>4. IsFiniteSet(room)
      <3>1. IsFiniteSet(s.skipped) /\ c.index \in Int /\ until - 2 \in Int
        BY <2>1 DEF Fits, Cached
      <3>2. IsFiniteSet(Slots(s.skipped) \cup ChainSlots(s.dh_remote, c.index, until - 2))
        BY <3>1, SlotsFinite, Zenon
      <3> QED
        BY <3>2, Zenon DEF ChainSlots
    <2>5. \A e \in new, g \in new : e.n = g.n => e = g
      OBVIOUS
    <2>6. \A e \in new : <<e.dh, e.n>> \in before \cup {last}
      <3> SUFFICES ASSUME NEW i \in c.index .. (until - 1)
                   PROVE  <<s.dh_remote, i>> \in before \cup {last}
        OBVIOUS
      <3>1. i = until - 1 \/ i \in c.index .. (until - 2)
        BY <2>1
      <3> QED
        BY <3>1, Zenon
    <2>7. \A e \in kept, g \in new : ~(e.dh = g.dh /\ e.n = g.n)
      BY Zenon DEF Slots
    <2> HIDE DEF new
    <2>8. OneKeyPerSlot(all)
      BY <2>5, <2>7, Zenon DEF OneKeyPerSlot, Fits, Cached
    <2>9. \A e \in all : <<e.dh, e.n>> \in room \cup {last}
      BY <2>6, Zenon DEF Slots
    <2> HIDE DEF all, room, last, k
    <2>10. f \in Injection(all, room \cup {last})
      <3>1. f \in [all -> room \cup {last}]
        BY <2>9, Zenon
      <3>2. \A e \in all, g \in all : f[e] = f[g] => e = g
        <4> SUFFICES ASSUME NEW e \in all, NEW g \in all, <<e.dh, e.n>> = <<g.dh, g.n>>
                     PROVE  e = g
          BY Zenon
        <4>1. e.dh = g.dh /\ e.n = g.n
          BY Zenon
        <4> QED
          BY <2>8, <4>1, Zenon DEF OneKeyPerSlot
      <3> HIDE DEF f
      <3> QED
        BY <3>1, <3>2, Zenon DEF Injection, IsInjective
    <2> HIDE DEF f
    <2>11. /\ IsFiniteSet(room \cup {last})
           /\ Cardinality(room) \in Nat
           /\ Cardinality(room \cup {last}) <= Cardinality(room) + 1
      <3>1. IsFiniteSet(room \cup {last}) /\ Cardinality(room) \in Nat
        BY <2>4, FS_AddElement, FS_CardinalityType, Zenon
      <3>2. Cardinality(room \cup {last})
                = IF last \in room THEN Cardinality(room) ELSE Cardinality(room) + 1
        BY <2>4, FS_AddElement, Zenon
      <3> QED
        BY <3>1, <3>2
    <2>12. /\ IsFiniteSet(all) /\ Cardinality(all) <= Cardinality(room \cup {last})
           /\ Cardinality(all) \in Nat /\ Cardinality(room \cup {last}) \in Nat
      BY <2>10, <2>11, FS_Injection, FS_CardinalityType, Zenon
    <2>13. Cardinality(all) <= s.max_skip
      BY <2>3, <2>11, <2>12
    <2>14. k.skipped = all /\ k.max_skip = s.max_skip
      BY <2>2, Zenon DEF State
    <2>15. Cardinality(all) <= MaxSkip
      BY <2>3, <2>12, <2>13, BoundsAssumption DEF Fits, Cached
    <2> QED
      BY <2>8, <2>12, <2>14, <2>15, Zenon DEF Fits, Cached, k
  <1> QED
    BY <1>1, <1>2, Zenon

\* Truncating the cache that was read back leaves no more than max.
LEMMA TruncatedFits ==
    ASSUME NEW skipped, IsFiniteSet(skipped), OneKeyPerSlot(skipped),
           NEW max \in Nat, max <= MaxSkip, NEW kept \in Truncated(skipped, max)
    PROVE  /\ IsFiniteSet(kept) /\ OneKeyPerSlot(kept)
           /\ Cardinality(kept) <= MaxSkip
  <1>1. kept \in SUBSET skipped
    BY Zenon DEF Truncated
  <1>2. IsFiniteSet(kept) /\ Cardinality(skipped) \in Nat
    BY <1>1, FS_Subset, FS_CardinalityType, Zenon
  <1>3. Cardinality(kept) <= max
    BY <1>2 DEF Truncated
  <1>4. Cardinality(kept) \in Nat
    BY <1>2, FS_CardinalityType, Zenon
  <1> QED
    BY <1>1, <1>2, <1>3, <1>4, BoundsAssumption DEF OneKeyPerSlot

\* A step that replaces one session by one that fits keeps the invariant.
LEMMA CacheStep ==
    ASSUME CacheInv, TypeOK', NEW p \in Peers, NEW t, st' = [st EXCEPT ![p] = t],
           Fits(t), disk' = disk
    PROVE  CacheInv'
  <1>1. \A q \in Peers : st'[q] = t \/ st'[q] = st[q]
    BY Zenon DEF CacheInv, TypeOK
  <1>2. \A q \in Peers : Fits(st'[q])
    BY <1>1, Zenon DEF CacheInv
  <1> QED
    BY <1>2, Zenon DEF CacheInv

\* encrypt leaves the skipped keys alone, and so does the ratchet it may take.
LEMMA SendFits ==
    ASSUME TypeOK, NEW s \in State, Fits(s), NEW aged, CanSend(SendState(s, aged))
    PROVE  LET r == SendState(s, aged)
           IN  /\ Fits([r EXCEPT !.sending = Advance(@), !.messages_sent = @ + 1])
               /\ Fits([r EXCEPT !.sending = Advance(@)])
  <1> DEFINE r == SendState(s, aged)
  <1>1. r \in State /\ r.skipped = s.skipped
    BY SendStateType, Zenon DEF TypeOK
  <1>2. r.max_skip = s.max_skip
    BY Zenon DEF SendState, PerformDhRatchet, State
  <1> HIDE DEF r
  <1>3. \A c, n : /\ [r EXCEPT !.sending = c, !.messages_sent = n].skipped = r.skipped
                  /\ [r EXCEPT !.sending = c, !.messages_sent = n].max_skip = r.max_skip
                  /\ [r EXCEPT !.sending = c].skipped = r.skipped
                  /\ [r EXCEPT !.sending = c].max_skip = r.max_skip
    BY <1>1, Zenon DEF State
  <1> QED
    BY <1>1, <1>2, <1>3, Zenon DEF Fits, Cached, r

\* The clone that decrypt commits fits: both of its loops check the room.
LEMMA NextFits ==
    ASSUME NEW s \in State, NEW m \in Message, NEW fresh \in Nat, Fits(s),
           OpensNext(s, m, fresh)
    PROVE  Fits(AfterNext(s, m, fresh))
  <1> DEFINE r == Ratcheted(s, m, fresh)
             k == SkipMessageKeys(r, m.n)
             a == AfterNext(s, m, fresh)
  <1>0. m.n \in Nat /\ m.pn \in Nat /\ m.dh \in Nat
    BY Zenon DEF Message
  <1>1. r \in State /\ k \in State /\ CanSkip(r, m.n) /\ a.skipped = k.skipped
    BY OpensNextFacts, Zenon
  <1>2. Fits(r)
    <2>1. CASE NeedsRatchet(s, m)
      <3> DEFINE b == SkipMessageKeys(s, m.pn)
      <3>1. CanSkip(s, m.pn) /\ s.dh_local # None
        BY <2>1, Zenon DEF OpensNext
      <3>2. Fits(b) /\ b \in State /\ b.dh_local # None
        BY <1>0, <3>1, SkipFits, SkipMessageKeysType, Zenon
      <3>3. r = DhRatchet(b, m.dh, fresh)
        BY <2>1, Zenon DEF Ratcheted
      <3> HIDE DEF b, r
      <3>4. r.skipped = b.skipped /\ r.max_skip = b.max_skip
        BY <1>0, <3>2, <3>3, DhRatchetType
      <3> QED
        BY <3>2, <3>4, Zenon DEF Fits, Cached
    <2>2. CASE ~NeedsRatchet(s, m)
      BY <2>2, Zenon DEF Ratcheted
    <2> QED
      BY <2>1, <2>2, Zenon
  <1>3. Fits(k)
    BY <1>0, <1>1, <1>2, SkipFits, Zenon
  <1>4. a = [k EXCEPT !.receiving = Advance(k.receiving),
                      !.messages_received = k.messages_received + 1]
    BY Zenon DEF AfterNext
  <1> HIDE DEF a, k, r
  <1>5. a.max_skip = k.max_skip
    BY <1>1, <1>4, Zenon DEF State
  <1> QED
    BY <1>1, <1>3, <1>5, Zenon DEF Fits, Cached, a

\* The caches start empty.
LEMMA CacheInit == Init => CacheInv
  <1> SUFFICES ASSUME Init PROVE CacheInv
    BY Zenon
  <1>1. \A p \in Peers : st[p].skipped = {} /\ st[p].max_skip = MaxSkip
    BY Zenon DEF Init, FromSharedSecret
  <1>2. IsFiniteSet({}) /\ Cardinality({}) = 0 /\ OneKeyPerSlot({})
    BY FS_EmptySet, Zenon DEF OneKeyPerSlot
  <1>3. \A p \in Peers : Fits(st[p])
    <2> SUFFICES ASSUME NEW p \in Peers PROVE Fits(st[p])
      BY Zenon
    <2>1. PICK skipped, max : skipped = st[p].skipped /\ max = st[p].max_skip
      BY Zenon
    <2>2. skipped = {} /\ max = MaxSkip
      BY <1>1, <2>1, Zenon
    <2>3. /\ IsFiniteSet(skipped) /\ OneKeyPerSlot(skipped)
          /\ Cardinality(skipped) <= MaxSkip /\ max <= MaxSkip
      BY <1>2, <2>2, BoundsAssumption
    <2> QED
      BY <2>1, <2>3, Zenon DEF Fits, Cached
  <1> QED
    BY <1>3, InitType, Zenon DEF CacheInv, Init

\* Every step of the sessions, restarts included, keeps the caches in bounds.
LEMMA CacheNext == CacheInv /\ [Exchange \/ Restart]_vars => CacheInv'
  <1> SUFFICES ASSUME CacheInv, [Exchange \/ Restart]_vars PROVE CacheInv'
    BY Zenon
  <1>0. TypeOK /\ TypeOK' /\ \A p \in Peers : st[p] \in State /\ Fits(st[p])
    BY NextType, Zenon DEF CacheInv, TypeOK
  <1>1. ASSUME NEW p \in Peers, NEW aged \in Ages, Encrypt(p, aged) \/ EncryptFails(p, aged)
        PROVE  CacheInv'
    <2> DEFINE r == SendState(st[p], aged)
               a == [r EXCEPT !.sending = Advance(@), !.messages_sent = @ + 1]
               b == [r EXCEPT !.sending = Advance(@)]
    <2>1. CanSend(r) /\ disk' = disk /\ (st' = [st EXCEPT ![p] = a] \/ st' = [st EXCEPT ![p] = b])
      BY <1>1, Zenon DEF Encrypt, EncryptFails
    <2>2. Fits(a) /\ Fits(b)
      BY <1>0, <2>1, SendFits, Zenon
    <2> HIDE DEF a, b
    <2> QED
      BY <1>0, <2>1, <2>2, CacheStep, ZenonT(60)
  <1>2. ASSUME NEW p \in Peers, NEW m \in sent, Decrypt(p, m) PROVE CacheInv'
    <2>0. m \in Message /\ nextDh \in Nat /\ disk' = disk
      BY <1>0, <1>2, Zenon DEF TypeOK, Decrypt
    <2>1. CASE OpensNext(st[p], m, nextDh) /\ st' = [st EXCEPT ![p] = AfterNext(st[p], m, nextDh)]
      BY <1>0, <2>0, <2>1, NextFits, CacheStep, Zenon
    <2>2. CASE st' = [st EXCEPT ![p] = AfterSkipped(st[p], m)]
      <3> DEFINE a == AfterSkipped(st[p], m)
      <3>1. a.skipped \in SUBSET st[p].skipped /\ a.max_skip = st[p].max_skip
        BY <1>0, Zenon DEF AfterSkipped, State
      <3> HIDE DEF a
      <3>2. /\ IsFiniteSet(a.skipped) /\ Cardinality(a.skipped) <= Cardinality(st[p].skipped)
            /\ Cardinality(a.skipped) \in Nat /\ Cardinality(st[p].skipped) \in Nat
        BY <1>0, <3>1, FS_Subset, FS_CardinalityType, Zenon DEF Fits, Cached
      <3>3. Fits(a)
        BY <1>0, <3>1, <3>2, BoundsAssumption DEF Fits, Cached, OneKeyPerSlot
      <3> QED
        BY <1>0, <2>0, <2>2, <3>3, CacheStep, ZenonT(60) DEF a
    <2> QED
      BY <1>2, <2>1, <2>2, Zenon DEF Decrypt
  <1>3. ASSUME UNCHANGED vars PROVE CacheInv'
    BY <1>0, <1>3, Zenon DEF CacheInv, vars
  <1>4. ASSUME NEW p \in Peers, SerializeState(p) PROVE CacheInv'
    <2> DEFINE d == Serialized(st[p])
    <2>1. d.skipped = st[p].skipped /\ d.max_skip = 0
      BY <1>0, Zenon DEF Serialized, State
    <2>2. disk' = [disk EXCEPT ![p] = d] /\ st' = st
      BY <1>4, Zenon DEF SerializeState
    <2> HIDE DEF d
    <2>3. Cached(d)
      BY <1>0, <2>1, BoundsAssumption DEF Fits, Cached
    <2>4. \A q \in Peers : disk'[q] = d \/ disk'[q] = disk[q]
      BY <1>0, <2>2, Zenon DEF TypeOK
    <2> QED
      BY <1>0, <2>2, <2>3, <2>4, Zenon DEF CacheInv
  <1>5. ASSUME NEW p \in Peers, DeserializeState(p) PROVE CacheInv'
    <2> DEFINE loaded == disk[p]
               primes == loaded.dh_remote # None /\ loaded.sending # None
               s == IF primes THEN PerformDhRatchet(loaded, nextDh) ELSE loaded
    <2>1. loaded \in State /\ Cached(loaded) /\ nextDh \in Nat
      BY <1>0, <1>5, Zenon DEF DeserializeState, TypeOK, CacheInv
    <2>2. s \in State /\ s.skipped = loaded.skipped
      BY <2>1, PerformDhRatchetType, Zenon
    <2>3. s.max_skip = loaded.max_skip
      BY <2>1, Zenon DEF PerformDhRatchet, State
    <2>4. PICK kept \in Truncated(s.skipped, s.max_skip) :
              st' = [st EXCEPT ![p] = [s EXCEPT !.skipped = kept]]
      BY <1>5, Zenon DEF DeserializeState
    <2>5. disk' = disk
      BY <1>5, Zenon DEF DeserializeState
    <2> HIDE DEF s, loaded
    <2> DEFINE t == [s EXCEPT !.skipped = kept]
    <2>6. t.skipped = kept /\ t.max_skip = s.max_skip /\ s.max_skip \in Nat
      BY <2>2, Zenon DEF State
    <2>7. IsFiniteSet(kept) /\ OneKeyPerSlot(kept) /\ Cardinality(kept) <= MaxSkip
      BY <2>1, <2>2, <2>3, <2>6, TruncatedFits, Zenon DEF Cached
    <2> HIDE DEF t
    <2>8. Fits(t)
      BY <2>1, <2>3, <2>6, <2>7, ZenonT(60) DEF Fits, Cached
    <2> QED
      BY <1>0, <2>4, <2>5, <2>8, CacheStep, ZenonT(60) DEF t
  <1> QED
    BY <1>1, <1>2, <1>3, <1>4, <1>5, ZenonT(60) DEF Exchange, Restart, DecryptRejects

\* The cache of skipped keys stays within max_skipped_messages, whatever gaps
\* the network makes and whatever is saved and loaded.
THEOREM CacheBounded == RestartSpec => []SkippedBounded
  <1>1. CacheInv => SkippedBounded
    BY Zenon DEF CacheInv, Fits, SkippedBounded
  <1> QED
    BY <1>1, CacheInit, CacheNext, PTL DEF RestartSpec

-----------------------------------------------------------------------------
(* The receiving chain is the peer's *)

\* The receiving chain of a state of p's session is the first one, or one that
\* a message of the peer was sent on under the recorded dh_public.
FromPeer(p, s) ==
    s.receiving # None =>
        \/ p = Responder /\ s.receiving.id = <<>> /\ s.dh_remote = 0
        \/ \E m \in sent : /\ m.from = Peer(p)
                           /\ m.dh = s.dh_remote
                           /\ m.key.chain = s.receiving.id

SourceInv ==
    /\ TypeOK
    /\ \A p \in Peers : FromPeer(p, st[p])
    /\ \A p \in Peers : disk[p] # None => FromPeer(p, disk[p])

\* A step that replaces one session by one with a receiving chain of the peer,
\* or with the same one, keeps the invariant.
LEMMA SourceStep ==
    ASSUME SourceInv, TypeOK', NEW p \in Peers, NEW t, st' = [st EXCEPT ![p] = t],
           FromPeer(p, t), disk' = disk, sent \subseteq sent'
    PROVE  SourceInv'
  <1>1. \A q \in Peers : (q = p /\ st'[q] = t) \/ st'[q] = st[q]
    BY Zenon DEF SourceInv, TypeOK
  <1>2. \A s : \A q \in Peers : FromPeer(q, s) => FromPeer(q, s)'
    BY Zenon DEF FromPeer
  <1>3. ASSUME NEW q \in Peers PROVE FromPeer(q, st[q])'
    BY <1>1, <1>2 DEF SourceInv, FromPeer
  <1>4. ASSUME NEW q \in Peers, disk'[q] # None PROVE FromPeer(q, disk[q])'
    BY <1>2, <1>4, Zenon DEF SourceInv, FromPeer
  <1> QED
    BY <1>3, <1>4, Zenon DEF SourceInv

\* What does not touch the receiving chain and the recorded dh_public.
LEMMA SourceSame ==
    ASSUME NEW p, NEW s, NEW t, FromPeer(p, s),
           t.receiving = s.receiving, t.dh_remote = s.dh_remote
    PROVE  FromPeer(p, t)
  BY Zenon DEF FromPeer

\* The responder starts with the initiator's chain to receive on.
LEMMA SourceInit == Init => SourceInv
  <1> SUFFICES ASSUME Init PROVE SourceInv
    BY Zenon
  <1>1. st[Initiator].receiving = None
    BY Zenon DEF Init, Peers, FromSharedSecret
  <1>2. st[Responder].receiving = NewChain(<<>>) /\ st[Responder].dh_remote = 0
    BY PeersAssumption, Zenon DEF Init, Peers, FromSharedSecret
  <1>3. NewChain(<<>>).id = <<>>
    BY Zenon DEF NewChain
  <1>4. \A p \in Peers : FromPeer(p, st[p])
    BY <1>1, <1>2, <1>3, ZenonT(60) DEF FromPeer, Peers
  <1> QED
    BY <1>4, InitType, Zenon DEF SourceInv, Init

\* Every step of the sessions, restarts included, keeps the receiving chains
\* chains of the peer: the clone is committed after the message authenticates.
LEMMA SourceNext == SourceInv /\ [Exchange \/ Restart]_vars => SourceInv'
  <1> SUFFICES ASSUME SourceInv, [Exchange \/ Restart]_vars PROVE SourceInv'
    BY Zenon
  <1>0. TypeOK /\ TypeOK' /\ \A p \in Peers : st[p] \in State /\ FromPeer(p, st[p])
    BY NextType, Zenon DEF SourceInv, TypeOK
  <1>1. ASSUME NEW p \in Peers, NEW aged \in Ages, Encrypt(p, aged) \/ EncryptFails(p, aged)
        PROVE  SourceInv'
    <2> DEFINE r == SendState(st[p], aged)
    <2>1. /\ disk' = disk /\ sent \subseteq sent'
          /\ \/ st' = [st EXCEPT ![p] = [r EXCEPT !.sending = Advance(@)]]
             \/ st' = [st EXCEPT ![p] = [r EXCEPT !.sending = Advance(@), !.messages_sent = @ + 1]]
      BY <1>1, Zenon DEF Encrypt, EncryptFails
    <2>2. r \in State /\ r.receiving = st[p].receiving /\ r.dh_remote = st[p].dh_remote
      BY <1>0, SendStateType, Zenon DEF TypeOK
    <2> HIDE DEF r
    <2>3. PICK t : st' = [st EXCEPT ![p] = t] /\ t.receiving = r.receiving /\ t.dh_remote = r.dh_remote
      BY <2>1, <2>2, Zenon DEF State
    <2>4. FromPeer(p, t)
      BY <1>0, <2>2, <2>3, SourceSame, ZenonT(60)
    <2> QED
      BY <1>0, <2>1, <2>3, <2>4, SourceStep, ZenonT(60)
  <1>2. ASSUME NEW p \in Peers, NEW m \in sent, Decrypt(p, m) PROVE SourceInv'
    <2>0. m \in Message /\ nextDh \in Nat /\ disk' = disk /\ sent' = sent /\ m.from = Peer(p)
      BY <1>0, <1>2, Zenon DEF TypeOK, Decrypt
    <2>1. CASE OpensNext(st[p], m, nextDh) /\ st' = [st EXCEPT ![p] = AfterNext(st[p], m, nextDh)]
      <3> DEFINE s == st[p]
                 a == AfterNext(s, m, nextDh)
                 r == Ratcheted(s, m, nextDh)
      <3> DEFINE k == SkipMessageKeys(r, m.n)
      <3>1. /\ a.receiving.id = m.key.chain
            /\ a.dh_remote = r.dh_remote
        <4>1. /\ a.receiving = [id |-> k.receiving.id, index |-> m.n + 1]
              /\ m.key = [chain |-> k.receiving.id, n |-> m.n]
              /\ a.dh_remote = r.dh_remote
          BY <1>0, <2>0, <2>1, OpensNextFacts, ZenonT(60)
        <4> HIDE DEF a, k, r
        <4> QED
          BY <4>1
      <3>2. r.dh_remote = m.dh
        <4>1. CASE NeedsRatchet(s, m)
          <5> DEFINE b == SkipMessageKeys(s, m.pn)
          <5>1. m.pn \in Nat /\ m.dh \in Nat /\ CanSkip(s, m.pn) /\ s.dh_local # None
            BY <2>0, <2>1, <4>1, Zenon DEF OpensNext, Message
          <5>2. b \in State /\ b.dh_local # None
            BY <1>0, <5>1, SkipMessageKeysType, Zenon
          <5>3. r = DhRatchet(b, m.dh, nextDh)
            BY <4>1, Zenon DEF Ratcheted
          <5> QED
            BY <2>0, <5>1, <5>2, <5>3, DhRatchetType
        <4>2. CASE ~NeedsRatchet(s, m)
          BY <4>2, Zenon DEF NeedsRatchet, Ratcheted
        <4> QED
          BY <4>1, <4>2, Zenon
      <3> HIDE DEF a, r
      <3>3. FromPeer(p, a)
        BY <2>0, <3>1, <3>2, ZenonT(60) DEF FromPeer
      <3> QED
        BY <1>0, <2>0, <2>1, <3>3, SourceStep, ZenonT(60) DEF a
    <2>2. CASE st' = [st EXCEPT ![p] = AfterSkipped(st[p], m)]
      <3> DEFINE a == AfterSkipped(st[p], m)
      <3>1. a.receiving = st[p].receiving /\ a.dh_remote = st[p].dh_remote
        BY <1>0, Zenon DEF AfterSkipped, State
      <3> HIDE DEF a
      <3>2. FromPeer(p, a)
        BY <1>0, <3>1, SourceSame, Zenon
      <3> QED
        BY <1>0, <2>0, <2>2, <3>2, SourceStep, ZenonT(60) DEF a
    <2> QED
      BY <1>2, <2>1, <2>2, Zenon DEF Decrypt
  <1>3. ASSUME UNCHANGED vars PROVE SourceInv'
    BY <1>0, <1>3, Zenon DEF SourceInv, vars, FromPeer
  <1>4. ASSUME NEW p \in Peers, SerializeState(p) PROVE SourceInv'
    <2> DEFINE d == Serialized(st[p])
    <2>1. d.receiving = st[p].receiving /\ d.dh_remote = st[p].dh_remote
      BY <1>0, Zenon DEF Serialized, State
    <2>2. disk' = [disk EXCEPT ![p] = d] /\ st' = st /\ sent' = sent
      BY <1>4, Zenon DEF SerializeState
    <2> HIDE DEF d
    <2>3. FromPeer(p, d)
      BY <1>0, <2>1, SourceSame, Zenon
    <2>4. \A q \in Peers : (q = p /\ disk'[q] = d) \/ disk'[q] = disk[q]
      BY <1>0, <2>2, Zenon DEF TypeOK
    <2>5. ASSUME NEW q \in Peers, disk'[q] # None PROVE FromPeer(q, disk[q])'
      BY <2>2, <2>3, <2>4, <2>5 DEF SourceInv, FromPeer
    <2>6. ASSUME NEW q \in Peers PROVE FromPeer(q, st[q])'
      BY <1>0, <2>2, Zenon DEF FromPeer
    <2> QED
      BY <1>0, <2>5, <2>6, Zenon DEF SourceInv
  <1>5. ASSUME NEW p \in Peers, DeserializeState(p) PROVE SourceInv'
    <2> DEFINE loaded == disk[p]
               primes == loaded.dh_remote # None /\ loaded.sending # None
               s == IF primes THEN PerformDhRatchet(loaded, nextDh) ELSE loaded
    <2>1. loaded \in State /\ FromPeer(p, loaded) /\ nextDh \in Nat
      BY <1>0, <1>5, Zenon DEF DeserializeState, TypeOK, SourceInv
    <2>2. s \in State /\ s.receiving = loaded.receiving /\ s.dh_remote = loaded.dh_remote
      BY <2>1, PerformDhRatchetType, Zenon
    <2>3. PICK kept : st' = [st EXCEPT ![p] = [s EXCEPT !.skipped = kept]]
      BY <1>5, Zenon DEF DeserializeState
    <2>4. disk' = disk /\ sent' = sent
      BY <1>5, Zenon DEF DeserializeState
    <2> HIDE DEF s, loaded
    <2> DEFINE t == [s EXCEPT !.skipped = kept]
    <2>5. t.receiving = s.receiving /\ t.dh_remote = s.dh_remote
      BY <2>2, Zenon DEF State
    <2> HIDE DEF t
    <2>6. FromPeer(p, t)
      BY <2>1, <2>2, <2>5, SourceSame, ZenonT(60)
    <2> QED
      BY <1>0, <2>3, <2>4, <2>6, SourceStep, Zenon DEF t
  <1> QED
    BY <1>1, <1>2, <1>3, <1>4, <1>5, Zenon DEF Exchange, Restart, DecryptRejects

\* A session receives only on chains that its peer sends on, whatever messages
\* it tried to ratchet to and whatever was saved and loaded.
THEOREM CommitsToPeer == RestartSpec => []ReceivingChainIsPeers
  <1>1. SourceInv => ReceivingChainIsPeers
    BY Zenon DEF SourceInv, FromPeer, ReceivingChainIsPeers
  <1> QED
    BY <1>1, SourceInit, SourceNext, PTL DEF RestartSpec

-----------------------------------------------------------------------------
(* Whatever was sent can be decrypted *)

\* Room for every message that is ever sent, headers in the clear, and no chain
\* that gets too old.
Roomy == ~HeaderEncryption /\ ~AgeRotation /\ MaxBody < MaxSkip

\* How many keys the sending chain has yielded.
Issued(s) == IF s.sending = None THEN 0 ELSE s.sending.index

\* In what follows s is the sender's state, r the receiver's.  How many keys the
\* sender took from the chain that the receiver has as its receiving chain: the
\* sender is still on that chain, or has one ratchet step more.
Heard(s, r) == IF r.dh_remote = s.dh_local THEN Issued(s) ELSE s.previous_counter

\* The receiver's places are among those the sender has passed.
Positions(s, r, k) ==
    /\ IF r.receiving = None THEN Heard(s, r) = 0 ELSE r.receiving.index <= Heard(s, r)
    /\ \A e \in r.skipped :
           /\ e.dh < k
           /\ e.dh = r.dh_remote => r.receiving # None /\ e.n < r.receiving.index
           /\ e.dh = s.dh_local => r.dh_remote = s.dh_local

\* A message of the sender belongs to its sending chain, to the receiver's
\* receiving chain, or to one before.
OnWire(s, r, msgs, k) ==
    \A m \in msgs :
        /\ m.key.n = m.n
        /\ m.dh < k
        /\ m.dh = s.dh_local =>
               /\ s.sending # None /\ m.key.chain = s.sending.id
               /\ m.n < Issued(s) /\ m.pn = s.previous_counter
        /\ m.dh = r.dh_remote =>
               r.receiving # None /\ m.key.chain = r.receiving.id /\ m.n < Heard(s, r)

\* A skipped key is the key of the message in its slot.
Matching(r, msgs) ==
    \A m \in msgs, e \in r.skipped : e.dh = m.dh /\ e.n = m.n => e.key = m.key

\* What was not opened is in the cache, ahead on the receiving chain, or on a
\* chain one ratchet step ahead.
Ahead(s, r, left) ==
    \A m \in left :
        \/ <<m.dh, m.n>> \in Slots(r.skipped)
        \/ m.dh = r.dh_remote /\ m.n >= r.receiving.index
        \/ m.dh = s.dh_local /\ r.dh_remote # s.dh_local

\* The slots of the cache, and those that it may yet have to take: one for each
\* call of encrypt at most.
Spent(s, r) ==
    Slots(r.skipped) \cup ChainSlots(s.dh_local, 0, Issued(s) - 1)
                     \cup ChainSlots(r.dh_remote, 0, Heard(s, r) - 1)

Counted(s, r, b) ==
    /\ IsFiniteSet(Spent(s, r)) /\ Cardinality(Spent(s, r)) <= b
    /\ Issued(s) <= b /\ s.previous_counter <= b

\* One direction of the conversation.
Direction(s, r, msgs, left, b, k) ==
    /\ Positions(s, r, k)
    /\ OnWire(s, r, msgs, k)
    /\ Matching(r, msgs)
    /\ Ahead(s, r, left)
    /\ Counted(s, r, b)

\* Before the responder has sent anything: both are on the initiator's chain.
Starts(i, r) ==
    /\ i.root = <<>> /\ i.sending # None /\ i.sending.id = <<>> /\ i.receiving = None
    /\ i.dh_local = 0 /\ i.dh_remote = 1
    /\ r.root = <<>> /\ r.sending = None /\ r.receiving # None /\ r.receiving.id = <<>>
    /\ r.dh_local = 1 /\ r.dh_remote = 0 /\ r.previous_counter = 0
    /\ i.skipped = {}

\* s made the last ratchet step, on the key that r is still on.
Leads(s, r) ==
    /\ s.sending # None /\ s.sending.id = s.root
    /\ r.sending # None /\ r.sending.id = r.root
    /\ s.receiving # None /\ s.receiving.id = r.root
    /\ s.dh_remote = r.dh_local /\ r.dh_remote # s.dh_local
    /\ s.root = Append(r.root, {s.dh_local, r.dh_local})

\* The keys that a session has are known, and its cache is as configured.
Running(s, k) ==
    /\ s.dh_local \in Nat /\ s.dh_local < k
    /\ s.dh_remote \in Nat /\ s.dh_remote < k
    /\ s.max_skip = MaxSkip

From(p) == {m \in sent : m.from = p}

Way(p) == Direction(st[p], st[Peer(p)], From(p), From(p) \ opened, nextBody, nextDh)

InStep ==
    \/ Starts(st[Initiator], st[Responder]) /\ From(Responder) = {}
    \/ \E p \in Peers : Leads(st[p], st[Peer(p)])

WireInv ==
    /\ nextBody <= MaxBody /\ nextDh >= 2
    /\ \A m \in sent : m.header_key = None
    /\ \A p \in Peers : Running(st[p], nextDh)
    /\ InStep
    /\ \A p \in Peers : Way(p)

\* What skip_message_keys puts into the cache.
Added(r, until, e) ==
    /\ r.receiving # None /\ e.dh = r.dh_remote
    /\ e.n \in r.receiving.index .. (until - 1)
    /\ e.key = [chain |-> r.receiving.id, n |-> e.n]

\* skip_message_keys: no slot is lost, those up to the number are filled, and
\* the chain stands there.
LEMMA SkipEffect ==
    ASSUME NEW r \in State, NEW until \in Nat, CanSkip(r, until)
    PROVE  LET k == SkipMessageKeys(r, until)
           IN  /\ \A e \in k.skipped : e \in r.skipped \/ Added(r, until, e)
               /\ Slots(r.skipped) \subseteq Slots(k.skipped)
               /\ r.receiving # None =>
                      /\ ChainSlots(r.dh_remote, r.receiving.index, until - 1)
                             \subseteq Slots(k.skipped)
                      /\ k.receiving.id = r.receiving.id
                      /\ k.receiving.index = IF until <= r.receiving.index
                                             THEN r.receiving.index ELSE until
               /\ k.previous_counter = r.previous_counter
  <1>1. CASE r.receiving = None \/ until <= r.receiving.index
    <2>1. SkipMessageKeys(r, until) = r
      BY <1>1, Zenon DEF SkipMessageKeys
    <2>2. r.receiving # None =>
              /\ r.receiving.index \in Nat /\ until <= r.receiving.index
              /\ ChainSlots(r.dh_remote, r.receiving.index, until - 1) = {}
      BY <1>1 DEF ChainSlots, State, Chain
    <2> QED
      BY <2>1, <2>2, Zenon
  <1>2. CASE ~(r.receiving = None \/ until <= r.receiving.index)
    <2> DEFINE c == r.receiving
               k == SkipMessageKeys(r, until)
               new == {[dh |-> r.dh_remote, n |-> i, key |-> [chain |-> c.id, n |-> i]] :
                          i \in c.index .. (until - 1)}
               kept == {e \in r.skipped : <<e.dh, e.n>> \notin Slots(new)}
               all == kept \cup new
    <2>1. c \in Chain /\ c.index \in Nat /\ r.dh_remote \in Nat
      BY <1>2 DEF CanSkip, State, Chain
    <2>2. k = [r EXCEPT !.skipped = all, !.receiving = [c EXCEPT !.index = until]]
      BY <1>2, Zenon DEF SkipMessageKeys
    <2>3. \A e \in new : Added(r, until, e)
      BY <1>2 DEF Added
    <2>4. ChainSlots(r.dh_remote, c.index, until - 1) = Slots(new)
      <3>1. Slots(new) = {<<e.dh, e.n>> : e \in new}
        BY Zenon DEF Slots
      <3>2. ASSUME NEW i \in c.index .. (until - 1) PROVE <<r.dh_remote, i>> \in Slots(new)
        <4> DEFINE e == [dh |-> r.dh_remote, n |-> i, key |-> [chain |-> c.id, n |-> i]]
        <4>1. e \in new /\ e.dh = r.dh_remote /\ e.n = i
          BY Zenon
        <4> HIDE DEF e, new
        <4> QED
          BY <3>1, <4>1, Zenon
      <3>3. ASSUME NEW e \in new PROVE <<e.dh, e.n>> \in ChainSlots(r.dh_remote, c.index, until - 1)
        BY DEF ChainSlots
      <3> HIDE DEF new
      <3> QED
        BY <3>1, <3>2, <3>3, Zenon DEF ChainSlots
    <2> HIDE DEF new
    <2>5. Slots(all) = Slots(r.skipped) \cup Slots(new)
      BY Zenon DEF Slots
    <2>6. \A e \in all : e \in r.skipped \/ Added(r, until, e)
      BY <2>3, Zenon
    <2> HIDE DEF all, k, c
    <2>7. /\ k.skipped = all /\ k.receiving = [c EXCEPT !.index = until]
          /\ k.previous_counter = r.previous_counter
      BY <2>2, Zenon DEF State
    <2>8. k.receiving.id = c.id /\ k.receiving.index = until
      BY <2>1, <2>7, Zenon DEF Chain
    <2> QED
      BY <1>2, <2>4, <2>5, <2>6, <2>7, <2>8, Zenon DEF k, c
  <1> QED
    BY <1>1, <1>2, Zenon

\* There is room to skip as long as the slots are among a few that were spent.
LEMMA SkipRoom ==
    ASSUME NEW r \in State, NEW until \in Nat, NEW b \in Nat, NEW all,
           r.dh_remote \in Nat, r.max_skip = MaxSkip, b < MaxSkip, until <= b,
           IsFiniteSet(all), Cardinality(all) <= b,
           Slots(r.skipped) \subseteq all,
           ChainSlots(r.dh_remote, 0, until - 1) \subseteq all
    PROVE  CanSkip(r, until)
  <1> SUFFICES ASSUME r.receiving # None, until > r.receiving.index
               PROVE  /\ until <= r.receiving.index + MaxSkip
                      /\ until <= MaxMessages
                      /\ Cardinality(Slots(r.skipped) \cup
                             {<<r.dh_remote, i>> : i \in r.receiving.index .. (until - 2)}) < MaxSkip
    BY NoneAssumption, Zenon DEF CanSkip
  <1>1. r.receiving.index \in Nat
    BY Zenon DEF State, Chain
  <1> DEFINE before == {<<r.dh_remote, i>> : i \in r.receiving.index .. (until - 2)}
             room == Slots(r.skipped) \cup before
  <1>2. before \subseteq ChainSlots(r.dh_remote, 0, until - 1)
    BY <1>1 DEF ChainSlots
  <1>3. room \in SUBSET all
    BY <1>2, Zenon
  <1> HIDE DEF room
  <1>4. IsFiniteSet(room) /\ Cardinality(room) <= Cardinality(all)
    BY <1>3, FS_Subset, Zenon
  <1>5. Cardinality(room) \in Nat /\ Cardinality(all) \in Nat
    BY <1>4, FS_CardinalityType, Zenon
  <1>6. Cardinality(room) < MaxSkip
    BY <1>4, <1>5, BoundsAssumption
  <1> QED
    BY <1>1, <1>6, BoundsAssumption DEF room

\* Only these parts of the two states matter.
LEMMA SameDirection ==
    ASSUME NEW s, NEW r, NEW t, NEW u, NEW msgs, NEW left, NEW b, NEW k,
           Direction(s, r, msgs, left, b, k),
           t.dh_local = s.dh_local, t.sending = s.sending,
           t.previous_counter = s.previous_counter,
           u.dh_remote = r.dh_remote, u.receiving = r.receiving, u.skipped = r.skipped
    PROVE  Direction(t, u, msgs, left, b, k)
  <1>1. Issued(t) = Issued(s)
    BY Zenon DEF Issued
  <1>2. Heard(t, u) = Heard(s, r)
    BY <1>1, Zenon DEF Heard
  <1>3. Spent(t, u) = Spent(s, r)
    BY <1>1, <1>2, Zenon DEF Spent
  <1>4. Positions(t, u, k) /\ OnWire(t, u, msgs, k)
    BY <1>1, <1>2, Zenon DEF Direction, Positions, OnWire
  <1>5. Matching(u, msgs) /\ Ahead(t, u, left) /\ Counted(t, u, b)
    BY <1>1, <1>3, Zenon DEF Direction, Matching, Ahead, Counted
  <1> QED
    BY <1>4, <1>5, Zenon DEF Direction

\* Nor do fewer messages that were not opened.
LEMMA FewerLeft ==
    ASSUME NEW s, NEW r, NEW msgs, NEW left, NEW b, NEW k,
           Direction(s, r, msgs, left, b, k), NEW less \in SUBSET left
    PROVE  Direction(s, r, msgs, less, b, k)
  BY Zenon DEF Direction, Ahead

\* More key pairs and more calls of encrypt do no harm.
LEMMA LaterDirection ==
    ASSUME NEW s \in State, NEW r \in State, NEW msgs \in SUBSET Message, NEW left,
           NEW b \in Nat, NEW k \in Nat, Direction(s, r, msgs, left, b, k),
           NEW c \in Nat, NEW l \in Nat, b <= c, k <= l
    PROVE  Direction(s, r, msgs, left, c, l)
  <1>1. Positions(s, r, l)
    <2>1. \A e \in r.skipped : e.dh \in Nat
      BY Zenon DEF State, SkippedKey
    <2> QED
      BY <2>1 DEF Direction, Positions
  <1>2. OnWire(s, r, msgs, l)
    <2>1. \A m \in msgs : m.dh \in Nat
      BY Zenon DEF Message
    <2> QED
      BY <2>1 DEF Direction, OnWire
  <1>3. Counted(s, r, c)
    <2>1. Issued(s) \in Nat /\ s.previous_counter \in Nat
      BY Zenon DEF Issued, State, Chain
    <2>2. IsFiniteSet(Spent(s, r)) /\ Cardinality(Spent(s, r)) \in Nat
      BY FS_CardinalityType, Zenon DEF Direction, Counted
    <2> QED
      BY <2>1, <2>2 DEF Direction, Counted
  <1> QED
    BY <1>1, <1>2, <1>3, Zenon DEF Direction

\* The numbers that the two sides count with.
LEMMA CountTypes ==
    ASSUME NEW s \in State, NEW r \in State
    PROVE  /\ Issued(s) \in Nat /\ s.previous_counter \in Nat /\ Heard(s, r) \in Nat
           /\ r.receiving # None => r.receiving.index \in Nat
           /\ \A e \in r.skipped : e \in SkippedKey /\ e.n \in Nat /\ e.dh \in Nat
  <1>1. Issued(s) \in Nat /\ s.previous_counter \in Nat
    BY Zenon DEF Issued, State, Chain
  <1> QED
    BY <1>1, Zenon DEF Heard, State, Chain, SkippedKey

\* Fewer slots are still few.
LEMMA FewerSpent ==
    ASSUME NEW s, NEW r, NEW t \in State, NEW u \in State, NEW b \in Nat, Counted(s, r, b),
           Spent(t, u) \subseteq Spent(s, r), Issued(t) <= b, t.previous_counter <= b
    PROVE  Counted(t, u, b)
  <1>1. /\ IsFiniteSet(Spent(t, u)) /\ Cardinality(Spent(t, u)) <= Cardinality(Spent(s, r))
        /\ IsFiniteSet(Spent(s, r)) /\ Cardinality(Spent(s, r)) <= b
    BY FS_Subset, Zenon DEF Counted
  <1>2. Cardinality(Spent(t, u)) \in Nat /\ Cardinality(Spent(s, r)) \in Nat
    BY <1>1, FS_CardinalityType, ZenonT(60)
  <1> QED
    BY <1>1, <1>2 DEF Counted

\* decrypt steps the receiving chain to a message on it: what lies before goes
\* into the cache.
LEMMA Stepped ==
    ASSUME NEW s \in State, NEW r \in State, NEW t \in State,
           NEW msgs \in SUBSET Message, NEW left \in SUBSET msgs, NEW b \in Nat, NEW k \in Nat,
           Direction(s, r, msgs, left, b, k), r.dh_remote \in Nat, r.dh_remote < k,
           \A m1 \in msgs, m2 \in msgs : m1.key = m2.key => m1 = m2,
           NEW m \in msgs, m.dh = r.dh_remote, m.n >= r.receiving.index, CanSkip(r, m.n),
           t.skipped = SkipMessageKeys(r, m.n).skipped, t.dh_remote = r.dh_remote,
           t.receiving = [id |-> r.receiving.id, index |-> m.n + 1]
    PROVE  Direction(s, t, msgs, left \ {m}, b, k)
  <1>0. m.n \in Nat /\ \A o \in msgs : o \in Message /\ o.n \in Nat /\ o.dh \in Nat /\ o.key \in Key
    BY Zenon DEF Message
  <1>1. /\ r.receiving # None /\ m.key.chain = r.receiving.id /\ m.key.n = m.n
        /\ m.n < Heard(s, r)
    BY Zenon DEF Direction, OnWire
  <1>2. /\ Issued(s) \in Nat /\ s.previous_counter \in Nat /\ Heard(s, r) \in Nat
        /\ r.receiving.index \in Nat
        /\ \A e \in r.skipped : e \in SkippedKey /\ e.n \in Nat /\ e.dh \in Nat
    BY <1>1, CountTypes, Zenon
  <1>3. Heard(s, t) = Heard(s, r)
    BY Zenon DEF Heard
  <1>4. /\ \A e \in t.skipped : e \in r.skipped \/ Added(r, m.n, e)
        /\ Slots(r.skipped) \subseteq Slots(t.skipped)
        /\ ChainSlots(r.dh_remote, r.receiving.index, m.n - 1) \subseteq Slots(t.skipped)
    BY <1>0, <1>1, SkipEffect, ZenonT(60)
  <1>5. t.receiving # None /\ t.receiving.id = r.receiving.id /\ t.receiving.index = m.n + 1
    <2>1. t.receiving \in Chain
      BY <1>0, <1>1 DEF State, Chain
    <2> QED
      BY <2>1, NoneAssumption
  <1>6. \A e \in r.skipped : /\ e.dh < k
                             /\ e.dh = r.dh_remote => e.n < r.receiving.index
                             /\ e.dh = s.dh_local => r.dh_remote = s.dh_local
    BY Zenon DEF Direction, Positions
  <1>7. Positions(s, t, k)
    <2>1. t.receiving.index <= Heard(s, t)
      BY <1>0, <1>1, <1>2, <1>3, <1>5
    <2>2. ASSUME NEW e \in t.skipped
          PROVE  /\ e.dh < k
                 /\ e.dh = t.dh_remote => e.n < t.receiving.index
                 /\ e.dh = s.dh_local => t.dh_remote = s.dh_local
      <3>1. CASE e \in r.skipped
        BY <1>0, <1>2, <1>5, <1>6, <3>1
      <3>2. CASE Added(r, m.n, e)
        <4>1. e.dh = r.dh_remote /\ e.n \in r.receiving.index .. (m.n - 1)
          BY <3>2, Zenon DEF Added
        <4> QED
          BY <1>0, <1>2, <1>5, <4>1
      <3> QED
        BY <1>4, <3>1, <3>2, ZenonT(60)
    <2> QED
      BY <1>5, <2>1, <2>2, ZenonT(60) DEF Positions
  <1>8. OnWire(s, t, msgs, k)
    BY <1>1, <1>3, <1>5, ZenonT(60) DEF Direction, OnWire
  <1>9. Matching(t, msgs)
    <2> SUFFICES ASSUME NEW o \in msgs, NEW e \in t.skipped, e.dh = o.dh, e.n = o.n
                 PROVE  e.key = o.key
      BY Zenon DEF Matching
    <2>1. CASE e \in r.skipped
      BY <2>1, Zenon DEF Direction, Matching
    <2>2. CASE Added(r, m.n, e)
      <3>1. o.key.n = o.n /\ o.key.chain = r.receiving.id
        BY <2>2, ZenonT(120) DEF Added, Direction, OnWire
      <3>2. e.key = [chain |-> r.receiving.id, n |-> o.n]
        BY <2>2, Zenon DEF Added
      <3> QED
        BY <1>0, <3>1, <3>2, ZenonT(60) DEF Key
    <2> QED
      BY <1>4, <2>1, <2>2, ZenonT(60)
  <1>10. Ahead(s, t, left \ {m})
    <2> SUFFICES ASSUME NEW o \in left \ {m}
                 PROVE  \/ <<o.dh, o.n>> \in Slots(t.skipped)
                        \/ o.dh = t.dh_remote /\ o.n >= t.receiving.index
                        \/ o.dh = s.dh_local /\ t.dh_remote # s.dh_local
      BY Zenon DEF Ahead
    <2>1. CASE o.dh = r.dh_remote /\ o.n >= r.receiving.index
      <3>1. o.n # m.n
        <4>1. o.key.n = o.n /\ o.key.chain = r.receiving.id
          BY <2>1, ZenonT(60) DEF Direction, OnWire
        <4>2. o.n = m.n => o.key = m.key
          BY <1>0, <1>1, <4>1 DEF Key
        <4> QED
          BY <4>2, Zenon
      <3>2. CASE o.n < m.n
        <4>1. o.n \in r.receiving.index .. (m.n - 1)
          BY <1>0, <1>2, <2>1, <3>2
        <4> QED
          BY <1>4, <2>1, <4>1, ZenonT(60) DEF ChainSlots
      <3>3. CASE o.n > m.n
        BY <1>0, <1>5, <2>1, <3>3
      <3> QED
        BY <1>0, <3>1, <3>2, <3>3
    <2>2. CASE \/ <<o.dh, o.n>> \in Slots(r.skipped)
               \/ o.dh = s.dh_local /\ r.dh_remote # s.dh_local
      BY <1>4, <2>2, ZenonT(60)
    <2>3. \/ <<o.dh, o.n>> \in Slots(r.skipped)
          \/ o.dh = r.dh_remote /\ o.n >= r.receiving.index
          \/ o.dh = s.dh_local /\ r.dh_remote # s.dh_local
      <3>1. Ahead(s, r, left) /\ o \in left
        BY Zenon DEF Direction
      <3> QED
        BY <3>1, Zenon DEF Ahead
    <2> QED
      BY <2>1, <2>2, <2>3, Zenon
  <1>11. Counted(s, t, b)
    <2>1. Slots(t.skipped) \subseteq Slots(r.skipped) \cup ChainSlots(r.dh_remote, 0, Heard(s, r) - 1)
      <3> SUFFICES ASSUME NEW e \in t.skipped
                   PROVE  <<e.dh, e.n>> \in Slots(r.skipped)
                              \cup ChainSlots(r.dh_remote, 0, Heard(s, r) - 1)
        BY DEF Slots
      <3>1. CASE e \in r.skipped
        BY <3>1, Zenon DEF Slots
      <3>2. CASE Added(r, m.n, e)
        <4>1. e.dh = r.dh_remote /\ e.n \in 0 .. (Heard(s, r) - 1)
          BY <1>0, <1>1, <1>2, <3>2 DEF Added
        <4> QED
          BY <4>1, ZenonT(60) DEF ChainSlots
      <3> QED
        BY <1>4, <3>1, <3>2, ZenonT(60)
    <2>2. Spent(s, t) \subseteq Spent(s, r)
      BY <1>3, <2>1, Zenon DEF Spent
    <2> QED
      BY <2>2, FewerSpent, ZenonT(60) DEF Direction, Counted
  <1> QED
    BY <1>7, <1>8, <1>9, <1>10, <1>11, ZenonT(60) DEF Direction

\* The receiver ratchets to the sender's chain: the rest of the chain before
\* goes into the cache, up to the number that the header gives.
LEMMA Turned ==
    ASSUME NEW s \in State, NEW r \in State, NEW t \in State,
           NEW msgs \in SUBSET Message, NEW left \in SUBSET msgs, NEW b \in Nat, NEW k \in Nat,
           Direction(s, r, msgs, left, b, k), r.dh_remote \in Nat, r.dh_remote < k,
           s.sending # None, s.dh_local \in Nat, r.dh_remote # s.dh_local,
           NEW pn \in Nat, pn = s.previous_counter, CanSkip(r, pn),
           t.skipped = SkipMessageKeys(r, pn).skipped, t.dh_remote = s.dh_local,
           t.receiving = NewChain(s.sending.id)
    PROVE  Direction(s, t, msgs, left, b, k)
  <1>0. \A o \in msgs : o \in Message /\ o.n \in Nat /\ o.dh \in Nat /\ o.key \in Key
    BY Zenon DEF Message
  <1>1. Heard(s, r) = pn /\ Heard(s, t) = Issued(s)
    BY Zenon DEF Heard
  <1>2. /\ Issued(s) \in Nat
        /\ r.receiving # None => r.receiving.index \in Nat
        /\ \A e \in r.skipped : e \in SkippedKey /\ e.n \in Nat /\ e.dh \in Nat
    BY CountTypes, Zenon
  <1>3. /\ \A e \in t.skipped : e \in r.skipped \/ Added(r, pn, e)
        /\ Slots(r.skipped) \subseteq Slots(t.skipped)
        /\ r.receiving # None =>
               ChainSlots(r.dh_remote, r.receiving.index, pn - 1) \subseteq Slots(t.skipped)
    BY SkipEffect, ZenonT(60)
  <1>4. t.receiving # None /\ t.receiving.id = s.sending.id /\ t.receiving.index = 0
    <2>1. s.sending \in Chain
      BY Zenon DEF State
    <2>2. t.receiving \in Chain
      BY <2>1 DEF NewChain, Chain
    <2> QED
      BY <2>2, NoneAssumption DEF NewChain
  <1>5. \A e \in r.skipped : e.dh < k /\ e.dh # s.dh_local
    BY Zenon DEF Direction, Positions
  <1>6. \A e \in t.skipped : e.dh < k /\ e.dh # s.dh_local
    BY <1>3, <1>5, ZenonT(60) DEF Added
  <1>7. Positions(s, t, k)
    BY <1>1, <1>2, <1>4, <1>6 DEF Positions
  <1>8. OnWire(s, t, msgs, k)
    BY <1>1, <1>4, ZenonT(60) DEF Direction, OnWire
  <1>9. Matching(t, msgs)
    <2> SUFFICES ASSUME NEW o \in msgs, NEW e \in t.skipped, e.dh = o.dh, e.n = o.n
                 PROVE  e.key = o.key
      BY Zenon DEF Matching
    <2>1. CASE e \in r.skipped
      BY <2>1, Zenon DEF Direction, Matching
    <2>2. CASE Added(r, pn, e)
      <3>1. o.key.n = o.n /\ o.key.chain = r.receiving.id
        BY <2>2, Zenon DEF Added, Direction, OnWire
      <3>2. e.key = [chain |-> r.receiving.id, n |-> o.n]
        BY <2>2, Zenon DEF Added
      <3> QED
        BY <1>0, <3>1, <3>2, ZenonT(60) DEF Key
    <2> QED
      BY <1>3, <2>1, <2>2, ZenonT(60)
  <1>10. Ahead(s, t, left)
    <2> SUFFICES ASSUME NEW o \in left
                 PROVE  \/ <<o.dh, o.n>> \in Slots(t.skipped)
                        \/ o.dh = t.dh_remote /\ o.n >= t.receiving.index
      BY Zenon DEF Ahead
    <2>1. CASE o.dh = r.dh_remote /\ o.n >= r.receiving.index
      <3>1. r.receiving # None /\ o.n < pn
        BY <1>1, <2>1, Zenon DEF Direction, OnWire
      <3>2. o.n \in r.receiving.index .. (pn - 1)
        BY <1>0, <1>2, <2>1, <3>1
      <3> QED
        BY <1>3, <2>1, <3>1, <3>2, ZenonT(60) DEF ChainSlots
    <2>2. CASE <<o.dh, o.n>> \in Slots(r.skipped)
      BY <1>3, <2>2, ZenonT(60)
    <2>3. CASE o.dh = s.dh_local
      BY <1>0, <1>4, <2>3
    <2>4. \/ <<o.dh, o.n>> \in Slots(r.skipped)
          \/ o.dh = r.dh_remote /\ o.n >= r.receiving.index
          \/ o.dh = s.dh_local
      <3>1. Ahead(s, r, left)
        BY Zenon DEF Direction
      <3> QED
        BY <3>1, Zenon DEF Ahead
    <2> QED
      BY <2>1, <2>2, <2>3, <2>4, ZenonT(60)
  <1>11. Counted(s, t, b)
    <2>1. Slots(t.skipped) \subseteq Slots(r.skipped) \cup ChainSlots(r.dh_remote, 0, pn - 1)
      <3> SUFFICES ASSUME NEW e \in t.skipped
                   PROVE  <<e.dh, e.n>> \in Slots(r.skipped) \cup ChainSlots(r.dh_remote, 0, pn - 1)
        BY Zenon DEF Slots
      <3>1. CASE e \in r.skipped
        BY <3>1, Zenon DEF Slots
      <3>2. CASE Added(r, pn, e)
        <4>1. e.dh = r.dh_remote /\ e.n \in 0 .. (pn - 1)
          BY <1>2, <3>2 DEF Added
        <4> QED
          BY <4>1, Zenon DEF ChainSlots
      <3> QED
        BY <1>3, <3>1, <3>2, ZenonT(60)
    <2>2. Spent(s, t) \subseteq Spent(s, r)
      BY <1>1, <2>1, Zenon DEF Spent
    <2> QED
      BY <2>2, FewerSpent, ZenonT(60) DEF Direction, Counted
  <1> QED
    BY <1>7, <1>8, <1>9, <1>10, <1>11, ZenonT(60) DEF Direction

\* The sender ratchets: the receiver is one step behind, and the header of the
\* new chain gives the length of the one it is on.
LEMMA TurnedBack ==
    ASSUME NEW s \in State, NEW r \in State, NEW t \in State,
           NEW msgs \in SUBSET Message, NEW left \in SUBSET msgs, NEW b \in Nat, NEW k \in Nat,
           Direction(s, r, msgs, left, b, k), s.sending # None,
           r.dh_remote = s.dh_local, r.dh_remote \in Nat, r.dh_remote < k,
           t.dh_local = k, t.previous_counter = s.sending.index,
           t.sending # None, t.sending.index = 0
    PROVE  Direction(t, r, msgs, left, b, k + 1)
  <1>0. \A o \in msgs : o.dh \in Nat /\ o.dh < k
    BY Zenon DEF Message, Direction, OnWire
  <1>1. /\ Issued(s) = s.sending.index /\ Issued(s) \in Nat /\ Issued(t) = 0
        /\ r.dh_remote # t.dh_local
        /\ Heard(s, r) = Issued(s) /\ Heard(t, r) = Issued(s)
        /\ t.previous_counter = Issued(s)
    BY CountTypes DEF Heard, Issued
  <1>2. \A e \in r.skipped : e.dh \in Nat /\ e.dh < k
    BY CountTypes, Zenon DEF Direction, Positions
  <1>3. Positions(t, r, k + 1)
    BY <1>1, <1>2 DEF Direction, Positions
  <1>4. OnWire(t, r, msgs, k + 1)
    BY <1>0, <1>1 DEF Direction, OnWire
  <1>5. Matching(r, msgs)
    BY Zenon DEF Direction
  <1>6. Ahead(t, r, left)
    BY <1>1, Zenon DEF Direction, Ahead
  <1>7. Counted(t, r, b)
    <2>1. ChainSlots(t.dh_local, 0, Issued(t) - 1) = {}
      BY <1>1 DEF ChainSlots
    <2>2. Spent(t, r) \subseteq Spent(s, r)
      BY <1>1, <2>1, ZenonT(60) DEF Spent
    <2>3. Issued(t) <= b /\ t.previous_counter <= b
      BY <1>1 DEF Direction, Counted
    <2> QED
      BY <2>2, <2>3, FewerSpent, Zenon DEF Direction
  <1> QED
    BY <1>3, <1>4, <1>5, <1>6, <1>7, ZenonT(60) DEF Direction

\* A message is opened with a skipped key, which leaves the cache: the slot was
\* of no other message.
LEMMA Taken ==
    ASSUME NEW s \in State, NEW r \in State, NEW t \in State,
           NEW msgs \in SUBSET Message, NEW left \in SUBSET msgs, NEW b \in Nat, NEW k \in Nat,
           Direction(s, r, msgs, left, b, k),
           \A m1 \in msgs, m2 \in msgs : m1.key = m2.key => m1 = m2,
           NEW m \in msgs, SkippedFor(r, m) # {},
           t.skipped = r.skipped \ SkippedFor(r, m),
           t.dh_remote = r.dh_remote, t.receiving = r.receiving
    PROVE  Direction(s, t, msgs, left \ {m}, b, k)
  <1>1. Heard(s, t) = Heard(s, r)
    BY ZenonT(60) DEF Heard
  <1>2. Positions(s, t, k) /\ OnWire(s, t, msgs, k) /\ Matching(t, msgs)
    BY <1>1 DEF Direction, Positions, OnWire, Matching
  <1>3. ASSUME NEW o \in left \ {m}, <<o.dh, o.n>> \in Slots(r.skipped)
        PROVE  <<o.dh, o.n>> \in Slots(t.skipped)
    <2>1. PICK e \in r.skipped : e.dh = o.dh /\ e.n = o.n
      BY <1>3, Zenon DEF Slots
    <2>2. e.key = o.key
      BY <2>1, Zenon DEF Direction, Matching
    <2>3. e \notin SkippedFor(r, m)
      <3> SUFFICES ASSUME e \in SkippedFor(r, m) PROVE FALSE
        BY Zenon
      <3>1. e.key = m.key
        BY Zenon DEF SkippedFor, Direction, Matching
      <3> QED
        BY <2>2, <3>1, ZenonT(60)
    <2> QED
      BY <2>1, <2>3, Zenon DEF Slots
  <1>4. Ahead(s, t, left \ {m})
    BY <1>3, Zenon DEF Direction, Ahead
  <1>5. Counted(s, t, b)
    <2>1. Slots(t.skipped) \subseteq Slots(r.skipped)
      BY Zenon DEF Slots
    <2>2. Spent(s, t) \subseteq Spent(s, r)
      BY <1>1, <2>1, Zenon DEF Spent
    <2> QED
      BY <2>2, FewerSpent, Zenon DEF Direction, Counted
  <1> QED
    BY <1>2, <1>4, <1>5, ZenonT(60) DEF Direction

\* The sender takes one key more from its chain, for a message or for none.
LEMMA Sends ==
    ASSUME NEW s \in State, NEW r \in State, NEW t \in State,
           NEW msgs \in SUBSET Message, NEW left \in SUBSET msgs, NEW b \in Nat, NEW k \in Nat,
           Direction(s, r, msgs, left, b, k), s.sending # None,
           s.dh_local \in Nat, s.dh_local < k, r.dh_remote \in Nat,
           r.dh_remote = s.dh_local => r.receiving # None /\ r.receiving.id = s.sending.id,
           t.dh_local = s.dh_local, t.previous_counter = s.previous_counter,
           t.sending = [id |-> s.sending.id, index |-> s.sending.index + 1]
    PROVE  /\ Direction(t, r, msgs, left, b + 1, k)
           /\ \A m \in Message :
                  (/\ m.dh = s.dh_local /\ m.n = s.sending.index /\ m.pn = s.previous_counter
                   /\ m.key = KeyAt(s.sending))
                  => Direction(t, r, msgs \cup {m}, left \cup {m}, b + 1, k)
  <1>0. /\ \A o \in msgs : o.dh \in Nat /\ o.n \in Nat
        /\ s.sending \in Chain /\ s.sending.index \in Nat
    BY Zenon DEF Message, State, Chain
  <1>1. t.sending # None /\ t.sending.id = s.sending.id /\ t.sending.index = s.sending.index + 1
    <2>1. t.sending \in Chain
      BY <1>0 DEF Chain
    <2> QED
      BY <2>1, NoneAssumption
  <1>2. /\ Issued(s) = s.sending.index /\ Issued(t) = Issued(s) + 1
        /\ Issued(s) \in Nat /\ Heard(s, r) \in Nat /\ Heard(t, r) \in Nat
        /\ s.previous_counter \in Nat
        /\ r.receiving # None => r.receiving.index \in Nat
    BY <1>1, CountTypes, ZenonT(60) DEF Issued
  <1>3. /\ Heard(t, r) >= Heard(s, r)
        /\ r.receiving = None => Heard(t, r) = 0
    <2>1. r.receiving = None => r.dh_remote # s.dh_local
      BY ZenonT(60)
    <2> QED
      BY <1>2, <2>1 DEF Heard, Direction, Positions
  <1>4. Positions(t, r, k)
    BY <1>2, <1>3 DEF Direction, Positions
  <1>5. OnWire(t, r, msgs, k)
    BY <1>0, <1>1, <1>2, <1>3 DEF Direction, OnWire
  <1>6. Matching(r, msgs) /\ Ahead(t, r, left)
    BY Zenon DEF Direction, Ahead
  <1>7. Counted(t, r, b + 1)
    <2> DEFINE x == <<s.dh_local, s.sending.index>>
    <2>1. ChainSlots(t.dh_local, 0, Issued(t) - 1)
              \subseteq ChainSlots(s.dh_local, 0, Issued(s) - 1) \cup {x}
      <3> SUFFICES ASSUME NEW i \in 0 .. (Issued(t) - 1)
                   PROVE  <<s.dh_local, i>> \in ChainSlots(s.dh_local, 0, Issued(s) - 1) \cup {x}
        BY Zenon DEF ChainSlots
      <3>1. i = s.sending.index \/ i \in 0 .. (Issued(s) - 1)
        BY <1>2
      <3> QED
        BY <3>1, Zenon DEF ChainSlots
    <2>2. ChainSlots(r.dh_remote, 0, Heard(t, r) - 1)
              \subseteq ChainSlots(r.dh_remote, 0, Heard(s, r) - 1) \cup
                        ChainSlots(t.dh_local, 0, Issued(t) - 1)
      <3>1. CASE r.dh_remote = s.dh_local
        BY <3>1, Zenon DEF Heard
      <3>2. CASE r.dh_remote # s.dh_local
        BY <3>2, Zenon DEF Heard
      <3> QED
        BY <3>1, <3>2, Zenon
    <2> DEFINE all == Spent(s, r) \cup {x}
    <2>3. Spent(t, r) \in SUBSET all
      BY <2>1, <2>2, Zenon DEF Spent
    <2>4. IsFiniteSet(Spent(s, r)) /\ Cardinality(Spent(s, r)) <= b
      BY Zenon DEF Direction, Counted
    <2>5. Cardinality(Spent(s, r)) \in Nat /\ IsFiniteSet(all)
      BY <2>4, FS_CardinalityType, FS_AddElement, Zenon
    <2>6. Cardinality(all) = IF x \in Spent(s, r) THEN Cardinality(Spent(s, r))
                                                  ELSE Cardinality(Spent(s, r)) + 1
      BY <2>4, FS_AddElement, Zenon
    <2> HIDE DEF all
    <2>7. IsFiniteSet(Spent(t, r)) /\ Cardinality(Spent(t, r)) <= Cardinality(all)
      BY <2>3, <2>5, FS_Subset, ZenonT(60)
    <2>8. Cardinality(Spent(t, r)) \in Nat
      BY <2>7, FS_CardinalityType, ZenonT(60)
    <2>9. Issued(t) <= b + 1 /\ t.previous_counter <= b + 1
      BY <1>2 DEF Direction, Counted
    <2> QED
      BY <2>4, <2>5, <2>6, <2>7, <2>8, <2>9 DEF Counted
  <1>8. Direction(t, r, msgs, left, b + 1, k)
    BY <1>4, <1>5, <1>6, <1>7, ZenonT(60) DEF Direction
  <1>9. ASSUME NEW m \in Message, m.dh = s.dh_local, m.n = s.sending.index,
               m.pn = s.previous_counter, m.key = KeyAt(s.sending)
        PROVE  Direction(t, r, msgs \cup {m}, left \cup {m}, b + 1, k)
    <2>1. m.key.chain = s.sending.id /\ m.key.n = s.sending.index
      BY <1>9 DEF KeyAt
    <2>2. m.n < Issued(t) /\ (m.dh = r.dh_remote => m.n < Heard(t, r))
      BY <1>2, <1>9 DEF Heard
    <2>3. OnWire(t, r, msgs \cup {m}, k)
      BY <1>1, <1>5, <1>9, <2>1, <2>2, ZenonT(60) DEF OnWire
    <2>4. ASSUME NEW e \in r.skipped, e.dh = m.dh, e.n = m.n PROVE FALSE
      <3>1. r.dh_remote = s.dh_local
        BY <1>9, <2>4, Zenon DEF Direction, Positions
      <3>2. e.n \in Nat /\ e.n < r.receiving.index /\ r.receiving.index <= Issued(s)
        BY <1>9, <2>4, <3>1, CountTypes, ZenonT(60) DEF Direction, Positions, Heard
      <3> QED
        BY <1>2, <1>9, <2>4, <3>1, <3>2
    <2>5. Matching(r, msgs \cup {m})
      BY <1>6, <2>4, Zenon DEF Matching
    <2>6. r.dh_remote = s.dh_local => m.n >= r.receiving.index
      BY <1>2, <1>9, Zenon DEF Direction, Positions, Heard
    <2>7. Ahead(t, r, left \cup {m})
      BY <1>6, <1>9, <2>6, ZenonT(60) DEF Ahead
    <2> QED
      BY <1>4, <1>7, <2>3, <2>5, <2>7, ZenonT(60) DEF Direction
  <1> QED
    BY <1>8, <1>9, ZenonT(60)

\* The responder's first ratchet step: there is nothing on the way from it.
LEMMA FirstTurn ==
    ASSUME NEW i \in State, NEW r \in State, NEW t \in State, NEW b \in Nat, NEW k \in Nat,
           Starts(i, r), k >= 2, t.dh_local = k, t.previous_counter = 0,
           t.sending # None, t.sending.index = 0
    PROVE  Direction(t, i, {}, {}, b, k + 1)
  <1>1. Issued(t) = 0 /\ Heard(t, i) = 0 /\ i.skipped = {} /\ i.receiving = None
    BY Zenon DEF Issued, Heard, Starts
  <1>2. Positions(t, i, k + 1) /\ OnWire(t, i, {}, k + 1) /\ Matching(i, {}) /\ Ahead(t, i, {})
    BY <1>1, Zenon DEF Positions, OnWire, Matching, Ahead
  <1>3. Spent(t, i) = {}
    BY <1>1 DEF Spent, Slots, ChainSlots
  <1>4. Counted(t, i, b)
    BY <1>1, <1>3, FS_EmptySet DEF Counted
  <1> QED
    BY <1>2, <1>4, Zenon DEF Direction

\* The receiver can skip to every number that the sender has reached.
LEMMA SkipsTo ==
    ASSUME NEW s \in State, NEW r \in State, NEW msgs, NEW left, NEW b \in Nat, NEW k \in Nat,
           Direction(s, r, msgs, left, b, k), Running(r, k), b < MaxSkip,
           NEW until \in Nat, until <= Heard(s, r)
    PROVE  CanSkip(r, until)
  <1>1. /\ Heard(s, r) \in Nat /\ Heard(s, r) <= b
    BY CountTypes, Zenon DEF Direction, Counted, Heard
  <1>2. ChainSlots(r.dh_remote, 0, until - 1) \subseteq ChainSlots(r.dh_remote, 0, Heard(s, r) - 1)
    BY <1>1 DEF ChainSlots
  <1>3. /\ IsFiniteSet(Spent(s, r)) /\ Cardinality(Spent(s, r)) <= b
        /\ Slots(r.skipped) \subseteq Spent(s, r)
        /\ ChainSlots(r.dh_remote, 0, until - 1) \subseteq Spent(s, r)
    BY <1>2, Zenon DEF Direction, Counted, Spent
  <1>4. until <= b
    BY <1>1
  <1> QED
    BY <1>3, <1>4, SkipRoom, Zenon DEF Running

\* A message that lies ahead on the receiving chain has the key that the chain
\* yields there.
LEMMA OpensOn ==
    ASSUME NEW s \in State, NEW r \in State, NEW msgs \in SUBSET Message, NEW left,
           NEW b \in Nat, NEW k \in Nat,
           Direction(s, r, msgs, left, b, k), Running(r, k), b < MaxSkip,
           NEW m \in msgs, m.dh = r.dh_remote, m.n >= r.receiving.index
    PROVE  /\ r.receiving # None /\ CanSkip(r, m.n) /\ m.n < MaxMessages
           /\ m.key = KeyAt(SkipMessageKeys(r, m.n).receiving)
  <1>0. m.n \in Nat /\ m.key \in Key
    BY Zenon DEF Message
  <1>1. r.receiving # None /\ m.key.chain = r.receiving.id /\ m.key.n = m.n /\ m.n < Heard(s, r)
    BY Zenon DEF Direction, OnWire
  <1>2. Heard(s, r) \in Nat /\ Heard(s, r) <= b /\ r.receiving.index \in Nat
    BY <1>1, CountTypes, Zenon DEF Direction, Counted, Heard
  <1>3. CanSkip(r, m.n)
    <2>1. m.n <= Heard(s, r)
      BY <1>0, <1>1, <1>2
    <2> QED
      BY <1>0, <2>1, SkipsTo, ZenonT(60)
  <1>4. m.n < MaxMessages
    <2>1. b < MaxMessages /\ MaxMessages \in Nat
      BY BoundsAssumption
    <2> QED
      BY <1>0, <1>1, <1>2, <2>1
  <1> DEFINE c == SkipMessageKeys(r, m.n).receiving
  <1>5. c.id = r.receiving.id /\ c.index = m.n
    BY <1>0, <1>1, <1>2, <1>3, SkipEffect
  <1> HIDE DEF c
  <1>6. m.key = KeyAt(c)
    BY <1>0, <1>1, <1>5, Zenon DEF KeyAt, Key
  <1> QED
    BY <1>1, <1>3, <1>4, <1>6, Zenon DEF c

\* t is what the ratchet step to the chain of m makes of the receiver r of s.
TurnedTo(t, s, r, m, fresh) ==
    /\ t \in State
    /\ t.skipped = SkipMessageKeys(r, m.pn).skipped
    /\ t.dh_remote = s.dh_local /\ t.dh_local = fresh
    /\ t.receiving = NewChain(s.sending.id)
    /\ t.root = Append(s.root, {fresh, s.dh_local})
    /\ t.sending = NewChain(t.root)
    /\ t.max_skip = MaxSkip /\ t.previous_counter = r.sending.index

\* The clone after the ratchet step to a chain of the sender, which leads.
LEMMA RatchetedTo ==
    ASSUME NEW s \in State, NEW r \in State, NEW m \in Message, NEW k \in Nat, NEW fresh \in Nat,
           Leads(s, r), Running(s, k), Running(r, k), m.dh = s.dh_local, CanSkip(r, m.pn)
    PROVE  NeedsRatchet(r, m) /\ TurnedTo(Ratcheted(r, m, fresh), s, r, m, fresh)
  <1> DEFINE u == SkipMessageKeys(r, m.pn)
             t == Ratcheted(r, m, fresh)
  <1>0. m.pn \in Nat /\ m.dh \in Nat /\ r.dh_local # None /\ s.root \in Root /\ r.root \in Root
    BY NoneAssumption, Zenon DEF Message, Running, State
  <1>1. NeedsRatchet(r, m)
    BY Zenon DEF NeedsRatchet, Leads
  <1>2. /\ u \in State /\ u.root = r.root /\ u.sending = r.sending
        /\ u.dh_local = r.dh_local /\ u.dh_remote = r.dh_remote /\ u.max_skip = r.max_skip
    BY <1>0, SkipMessageKeysType, Zenon
  <1>3. t = DhRatchet(u, m.dh, fresh)
    BY <1>1, Zenon DEF Ratcheted
  <1> HIDE DEF u, t
  <1>4. KdfRk(u.root, u.dh_local, m.dh) = s.root
    <2>1. {r.dh_local, m.dh} = {s.dh_local, r.dh_local}
      BY Zenon
    <2> QED
      BY <1>2, <2>1, Zenon DEF KdfRk, Leads
  <1>5. KdfRk(s.root, fresh, m.dh) = Append(s.root, {fresh, s.dh_local})
    BY ZenonT(60) DEF KdfRk
  <1>6. /\ t \in State /\ t.root = KdfRk(s.root, fresh, m.dh)
        /\ t.receiving = NewChain(s.root) /\ t.sending = NewChain(KdfRk(s.root, fresh, m.dh))
        /\ t.dh_local = fresh /\ t.dh_remote = m.dh /\ t.skipped = u.skipped
        /\ t.max_skip = u.max_skip
    BY <1>0, <1>2, <1>3, <1>4, DhRatchetType
  <1>7. t.previous_counter = r.sending.index
    <2>1. r.sending # None
      BY Zenon DEF Leads
    <2> QED
      BY <1>2, <1>3, <2>1, Zenon DEF DhRatchet, State
  <1> QED
    BY <1>1, <1>2, <1>5, <1>6, <1>7, ZenonT(60) DEF u, t, Running, Leads, TurnedTo

\* Whatever is left of the sender's messages opens at once.
LEMMA OpensLeft ==
    ASSUME NEW s \in State, NEW r \in State, NEW msgs \in SUBSET Message,
           NEW left \in SUBSET msgs, NEW b \in Nat, NEW k \in Nat,
           Direction(s, r, msgs, left, b, k), Running(s, k), Running(r, k), b < MaxSkip,
           NEW m \in left, m.header_key = None, NEW fresh \in Nat, k <= fresh,
           m.dh = s.dh_local /\ r.dh_remote # s.dh_local => Leads(s, r)
    PROVE  Opens(r, m, fresh)
  <1>0. m \in Message /\ m.n \in Nat /\ m.pn \in Nat /\ m \in msgs
    BY Zenon DEF Message
  <1>1. HeaderReadable(r, m)
    BY Zenon DEF HeaderReadable
  <1>2. CASE SkippedFor(r, m) # {}
    <2>1. \A e \in SkippedFor(r, m) : e.key = m.key
      BY Zenon DEF SkippedFor, Direction, Matching
    <2> QED
      BY <1>1, <1>2, <2>1, ZenonT(60) DEF Opens, OpensSkipped
  <1>3. CASE SkippedFor(r, m) = {}
    <2>1. \/ m.dh = r.dh_remote /\ m.n >= r.receiving.index
          \/ m.dh = s.dh_local /\ r.dh_remote # s.dh_local
      <3>1. <<m.dh, m.n>> \notin Slots(r.skipped)
        BY <1>3 DEF Slots, SkippedFor
      <3>2. Ahead(s, r, left)
        BY Zenon DEF Direction
      <3> QED
        BY <3>1, <3>2, Zenon DEF Ahead
    <2>2. CASE m.dh = r.dh_remote /\ m.n >= r.receiving.index
      <3>1. ~NeedsRatchet(r, m) /\ Ratcheted(r, m, fresh) = r
        BY <2>2, NoneAssumption, Zenon DEF NeedsRatchet, Ratcheted, Running
      <3>2. /\ r.receiving # None /\ CanSkip(r, m.n) /\ m.n < MaxMessages
            /\ m.key = KeyAt(SkipMessageKeys(r, m.n).receiving)
        BY <1>0, <2>2, OpensOn, ZenonT(60)
      <3> QED
        BY <1>1, <1>3, <2>2, <3>1, <3>2, Zenon DEF Opens, OpensNext
    <2>3. CASE m.dh = s.dh_local /\ r.dh_remote # s.dh_local
      <3> DEFINE t == Ratcheted(r, m, fresh)
      <3>1. m.pn = s.previous_counter /\ s.sending # None /\ Heard(s, r) = m.pn
        BY <1>0, <2>3, ZenonT(60) DEF Direction, OnWire, Heard
      <3>2. CanSkip(r, m.pn)
        BY <1>0, <3>1, SkipsTo, CountTypes
      <3>3. /\ NeedsRatchet(r, m) /\ t \in State
            /\ t.skipped = SkipMessageKeys(r, m.pn).skipped
            /\ t.dh_remote = s.dh_local /\ t.dh_local = fresh
            /\ t.receiving = NewChain(s.sending.id) /\ t.max_skip = MaxSkip
        <4>1. NeedsRatchet(r, m) /\ TurnedTo(t, s, r, m, fresh)
          BY <1>0, <2>3, <3>2, RatchetedTo, Zenon
        <4> HIDE DEF t
        <4> QED
          BY <4>1, Zenon DEF TurnedTo
      <3> HIDE DEF t
      <3>4. Direction(s, t, msgs, left, b, k)
        BY <1>0, <2>3, <3>1, <3>2, <3>3, Turned, ZenonT(60) DEF Running
      <3>5. Direction(s, t, msgs, left, b, fresh + 1) /\ Running(t, fresh + 1)
        <4>1. /\ r.dh_remote \in Nat
              /\ fresh + 1 \in Nat /\ k <= fresh + 1 /\ b <= b /\ fresh < fresh + 1
              /\ s.dh_local \in Nat /\ s.dh_local < fresh + 1
          BY DEF Running
        <4>2. Running(t, fresh + 1)
          BY <3>3, <4>1, ZenonT(60) DEF Running
        <4> QED
          BY <3>3, <3>4, <4>1, <4>2, LaterDirection, ZenonT(60)
      <3>6. m.dh = t.dh_remote /\ m.n >= t.receiving.index
        <4>1. t.receiving.index = 0
          BY <3>3, ChainFields, Zenon
        <4>2. m.n >= t.receiving.index
          BY <1>0, <4>1
        <4> QED
          BY <2>3, <3>3, <4>2, Zenon
      <3>7. /\ t.receiving # None /\ CanSkip(t, m.n) /\ m.n < MaxMessages
            /\ m.key = KeyAt(SkipMessageKeys(t, m.n).receiving)
        BY <1>0, <3>3, <3>5, <3>6, OpensOn
      <3>8. r.dh_local # None
        BY NoneAssumption, Zenon DEF Running
      <3> QED
        BY <1>1, <1>3, <3>2, <3>6, <3>7, <3>8, ZenonT(60) DEF Opens, OpensNext, t
    <2> QED
      BY <2>1, <2>2, <2>3, ZenonT(60)
  <1> QED
    BY <1>2, <1>3, Zenon

\* t is at the same ratchet step and on the same chains as s.
SameRatchet(t, s) ==
    /\ t.root = s.root /\ t.dh_local = s.dh_local /\ t.dh_remote = s.dh_remote
    /\ t.previous_counter = s.previous_counter
    /\ s.sending = None => t.sending = None
    /\ s.sending # None => t.sending # None /\ t.sending.id = s.sending.id
    /\ s.receiving = None => t.receiving = None
    /\ s.receiving # None => t.receiving # None /\ t.receiving.id = s.receiving.id

\* A session that keeps its ratchet keeps in step.
LEMMA StaysInStep ==
    ASSUME InStep, NEW p \in Peers, NEW t, NEW s, s = st[p],
           st'[p] = t, st'[Peer(p)] = st[Peer(p)], SameRatchet(t, s),
           From(Peer(p))' = From(Peer(p)),
           From(p)' = From(p) \/ s.sending # None,
           t.skipped = s.skipped \/ From(Peer(p)) # {}
    PROVE  InStep'
  <1>1. CASE \E q \in Peers : Leads(st[q], st[Peer(q)])
    <2>1. PICK q \in Peers : Leads(st[q], st[Peer(q)])
      BY <1>1, Zenon
    <2>2. CASE q = p
      <3>1. Leads(t, st[Peer(p)])
        BY <2>1, <2>2, ZenonT(60) DEF Leads, SameRatchet
      <3> QED
        BY <3>1, Zenon DEF InStep
    <2>3. CASE q = Peer(p)
      <3>1. Peer(q) = p
        BY <2>3, PeerFacts, Zenon
      <3>2. Leads(st[q], t)
        BY <2>1, <3>1, ZenonT(60) DEF Leads, SameRatchet
      <3> QED
        BY <2>3, <3>1, <3>2, Zenon DEF InStep
    <2> QED
      BY <2>2, <2>3, PeerFacts, ZenonT(60)
  <1>2. CASE Starts(st[Initiator], st[Responder]) /\ From(Responder) = {}
    <2>1. /\ Peer(Initiator) = Responder /\ Peer(Responder) = Initiator
          /\ p = Initiator \/ p = Responder
      BY PeersAssumption, Zenon DEF Peer, Peers
    <2>2. CASE p = Initiator
      <3>1. Starts(t, st[Responder])
        BY <1>2, <2>1, <2>2, ZenonT(60) DEF Starts, SameRatchet
      <3> QED
        BY <1>2, <2>1, <2>2, <3>1, ZenonT(60) DEF InStep
    <2>3. CASE p = Responder
      <3>1. Starts(st[Initiator], t) /\ s.sending = None
        BY <1>2, <2>1, <2>3, ZenonT(60) DEF Starts, SameRatchet
      <3> QED
        BY <1>2, <2>1, <2>3, <3>1, ZenonT(60) DEF InStep
    <2> QED
      BY <2>1, <2>2, <2>3, Zenon
  <1> QED
    BY <1>1, <1>2, Zenon DEF InStep

\* A step of one peer keeps the invariant when both directions hold after it.
LEMMA WireStep ==
    ASSUME TypeOK, WireInv, NEW p \in Peers, NEW q, q = Peer(p), NEW t \in State,
           st' = [st EXCEPT ![p] = t],
           nextBody' <= MaxBody, nextDh' \in Nat, nextDh <= nextDh',
           \A m \in sent' : m.header_key = None,
           Running(t, nextDh'), InStep',
           Direction(t, st[q], From(p)', From(p)' \ opened', nextBody', nextDh'),
           Direction(st[q], t, From(q)', From(q)' \ opened', nextBody', nextDh')
    PROVE  WireInv'
  <1>1. q \in Peers /\ q # p /\ Peer(q) = p /\ \A o \in Peers : o = p \/ o = q
    BY PeerFacts, Zenon
  <1>2. st'[p] = t /\ st'[q] = st[q]
    BY <1>1, ZenonT(60) DEF TypeOK
  <1>3. Running(st[q], nextDh')
    BY <1>1 DEF WireInv, Running, TypeOK
  <1>4. Way(p)'
    BY <1>1, <1>2, Zenon DEF Way
  <1>5. Way(q)'
    BY <1>1, <1>2, Zenon DEF Way
  <1>6. \A o \in Peers : Running(st'[o], nextDh')
    BY <1>1, <1>2, <1>3, Zenon
  <1>7. ASSUME NEW o \in Peers PROVE Way(o)'
    BY <1>1, <1>4, <1>5, ZenonT(60)
  <1>8. nextDh' >= 2
    BY DEF WireInv, TypeOK
  <1> QED
    BY <1>6, <1>7, <1>8, Zenon DEF WireInv

\* The messages of each peer, and what a step does to them.
LEMMA FromFacts ==
    ASSUME TypeOK, NEW p \in Peers
    PROVE  /\ From(p) \in SUBSET Message
           /\ (From(p) \ opened) \in SUBSET From(p)
           /\ sent' = sent => From(p)' = From(p)
           /\ \A m : sent' = sent \cup {m} =>
                  From(p)' = IF m.from = p THEN From(p) \cup {m} ELSE From(p)
  BY Zenon DEF From, TypeOK

\* A peer with a chain to send on is not going to replace it.
LEMMA KeepsChain ==
    ASSUME Roomy, TypeOK, WireInv, NEW p \in Peers, st[p].sending # None, nextBody < MaxBody
    PROVE  SendState(st[p], FALSE) = st[p] /\ ~Rotates(st[p], FALSE)
  <1>1. /\ st[p].sending.index = Issued(st[p]) /\ Issued(st[p]) <= nextBody
        /\ Issued(st[p]) \in Nat /\ nextBody \in Nat
    <2>1. st[p] \in State /\ st[Peer(p)] \in State
      BY PeerFacts, Zenon DEF TypeOK
    <2> QED
      BY <2>1, CountTypes, ZenonT(60) DEF Issued, TypeOK, WireInv, Way, Direction, Counted
  <1> QED
    BY <1>1, BoundsAssumption DEF SendState, Rotates, NeedsRotation, Roomy

\* The responder's first message: it ratchets before it has anything to send on.
LEMMA FirstSend ==
    ASSUME TypeOK, WireInv, NEW p \in Peers, st[p].sending = None
    PROVE  LET s == PerformDhRatchet(st[p], nextDh)
               q == Peer(p)
           IN  /\ s \in State /\ From(p) = {} /\ Leads(s, st[q]) /\ Running(s, nextDh + 1)
               /\ Direction(s, st[q], {}, {}, nextBody, nextDh + 1)
               /\ Direction(st[q], s, From(q), From(q) \ opened, nextBody, nextDh + 1)
  <1> DEFINE s == PerformDhRatchet(st[p], nextDh)
             q == Peer(p)
  <1>0. /\ st[p] \in State /\ st[q] \in State /\ q \in Peers /\ Peer(q) = p
        /\ nextDh \in Nat /\ nextDh >= 2 /\ nextBody \in Nat
    BY PeerFacts, Zenon DEF TypeOK, WireInv
  <1>1. Starts(st[q], st[p]) /\ From(p) = {}
    <2>1. ASSUME NEW o \in Peers, Leads(st[o], st[Peer(o)]) PROVE FALSE
      BY <2>1, PeerFacts, Zenon DEF Leads
    <2>2. Starts(st[Initiator], st[Responder]) /\ From(Responder) = {}
      BY <2>1, Zenon DEF WireInv, InStep
    <2>3. p = Responder /\ q = Initiator
      BY <2>2, PeersAssumption, Zenon DEF Starts, Peers, Peer
    <2> QED
      BY <2>2, <2>3, Zenon
  <1>2. /\ st[p].dh_remote = 0 /\ st[p].dh_remote # None /\ st[p].root = <<>>
        /\ st[q].dh_remote = 1 /\ st[q].dh_local = 0 /\ st[q].root = <<>>
        /\ st[q].sending # None /\ st[q].sending.id = <<>>
        /\ st[p].receiving # None /\ st[p].receiving.id = <<>> /\ st[p].previous_counter = 0
    BY <1>1, NoneAssumption DEF Starts
  <1>3. /\ s \in State /\ s.dh_local = nextDh /\ s.dh_remote = 0
        /\ s.receiving = st[p].receiving /\ s.skipped = st[p].skipped
        /\ s.root = KdfRk(<<>>, nextDh, 0) /\ s.sending = NewChain(KdfRk(<<>>, nextDh, 0))
    <2> DEFINE o == st[p]
    <2>1. o \in State /\ o.dh_remote # None /\ o.dh_remote = 0 /\ o.root = <<>>
      BY <1>0, <1>2, Zenon
    <2> HIDE DEF o
    <2>2. /\ PerformDhRatchet(o, nextDh) \in State
          /\ PerformDhRatchet(o, nextDh).dh_local = nextDh
          /\ PerformDhRatchet(o, nextDh).dh_remote = o.dh_remote
          /\ PerformDhRatchet(o, nextDh).receiving = o.receiving
          /\ PerformDhRatchet(o, nextDh).skipped = o.skipped
          /\ PerformDhRatchet(o, nextDh).root = KdfRk(o.root, nextDh, o.dh_remote)
          /\ PerformDhRatchet(o, nextDh).sending = NewChain(KdfRk(o.root, nextDh, o.dh_remote))
      BY <1>0, <2>1, PerformDhRatchetType, ZenonT(60)
    <2> QED
      BY <2>1, <2>2, ZenonT(60) DEF o
  <1>4. s.previous_counter = 0 /\ s.max_skip = st[p].max_skip
    BY <1>0, <1>2, ZenonT(60) DEF PerformDhRatchet, State
  <1> HIDE DEF s
  <1>5. s.sending # None /\ s.sending.id = s.root /\ s.sending.index = 0
    <2>1. KdfRk(<<>>, nextDh, 0) \in Root
      <3>1. st[p].root \in Root /\ 0 \in Nat
        BY <1>0, Zenon DEF State
      <3> QED
        BY <1>0, <1>2, <3>1, KdfRkType, ZenonT(60)
    <2>2. NewChain(KdfRk(<<>>, nextDh, 0)) \in Chain
      BY <2>1, Zenon DEF NewChain, Chain
    <2> QED
      BY <1>3, <2>2, NoneAssumption DEF NewChain
  <1>6. Leads(s, st[q])
    <2>1. s.root = Append(st[q].root, {s.dh_local, st[q].dh_local})
      BY <1>2, <1>3, Zenon DEF KdfRk
    <2>2. st[q].dh_remote # s.dh_local
      BY <1>0, <1>2, <1>3
    <2> QED
      BY <1>2, <1>3, <1>5, <2>1, <2>2, ZenonT(60) DEF Leads
  <1>7. Running(s, nextDh + 1)
    BY <1>0, <1>3, <1>4 DEF Running, WireInv
  <1>8. Direction(s, st[q], {}, {}, nextBody, nextDh + 1)
    BY <1>0, <1>1, <1>3, <1>4, <1>5, FirstTurn, ZenonT(60)
  <1>9. Direction(st[q], s, From(q), From(q) \ opened, nextBody, nextDh + 1)
    <2>1. Direction(st[q], st[p], From(q), From(q) \ opened, nextBody, nextDh)
      BY <1>0, Zenon DEF WireInv, Way
    <2>2. Direction(st[q], s, From(q), From(q) \ opened, nextBody, nextDh)
      BY <1>2, <1>3, <2>1, SameDirection, ZenonT(60)
    <2>3. nextDh + 1 \in Nat /\ nextDh <= nextDh + 1 /\ nextBody <= nextBody
      BY <1>0
    <2> QED
      BY <1>0, <1>3, <2>2, <2>3, FromFacts, LaterDirection, ZenonT(60)
  <1> QED
    BY <1>1, <1>3, <1>6, <1>7, <1>8, <1>9, ZenonT(60) DEF s

\* What encrypt sends from, whether it ratchets first or not.
LEMMA SendReady ==
    ASSUME Roomy, TypeOK, WireInv, NEW p \in Peers, nextBody < MaxBody
    PROVE  LET s == SendState(st[p], FALSE)
               q == Peer(p)
               k == IF Rotates(st[p], FALSE) THEN nextDh + 1 ELSE nextDh
           IN  /\ s \in State /\ Running(s, k) /\ s.sending # None
               /\ Direction(s, st[q], From(p), From(p) \ opened, nextBody, k)
               /\ Direction(st[q], s, From(q), From(q) \ opened, nextBody, k)
               /\ st[q].dh_remote = s.dh_local =>
                      st[q].receiving # None /\ st[q].receiving.id = s.sending.id
               /\ s = st[p] \/ Leads(s, st[q])
               /\ s = st[p] => k = nextDh /\ st[p].sending # None
  <1> DEFINE q == Peer(p)
  <1>0. /\ st[p] \in State /\ st[q] \in State /\ q \in Peers /\ Peer(q) = p /\ q # p
    BY PeerFacts, Zenon DEF TypeOK
  <1>1. CASE st[p].sending = None
    <2>1. Rotates(st[p], FALSE) /\ SendState(st[p], FALSE) = PerformDhRatchet(st[p], nextDh)
      BY <1>1, Zenon DEF Rotates, SendState
    <2> DEFINE s == PerformDhRatchet(st[p], nextDh)
    <2>2. /\ s \in State /\ From(p) = {} /\ Leads(s, st[q]) /\ Running(s, nextDh + 1)
          /\ Direction(s, st[q], {}, {}, nextBody, nextDh + 1)
          /\ Direction(st[q], s, From(q), From(q) \ opened, nextBody, nextDh + 1)
      BY <1>1, FirstSend, ZenonT(60)
    <2> HIDE DEF s
    <2>3. From(p) \ opened = {}
      BY <2>2, Zenon
    <2>4. s.sending # None /\ st[q].dh_remote # s.dh_local
      BY <2>2, Zenon DEF Leads
    <2>5. s # st[p]
      BY <1>1, <2>4, ZenonT(60)
    <2> QED
      BY <2>1, <2>2, <2>3, <2>4, <2>5, ZenonT(60) DEF s
  <1>2. CASE st[p].sending # None
    <2>1. SendState(st[p], FALSE) = st[p] /\ ~Rotates(st[p], FALSE)
      BY <1>2, KeepsChain, ZenonT(60)
    <2>2. /\ Direction(st[p], st[q], From(p), From(p) \ opened, nextBody, nextDh)
          /\ Direction(st[q], st[p], From(q), From(q) \ opened, nextBody, nextDh)
          /\ Running(st[p], nextDh)
      BY <1>0, Zenon DEF WireInv, Way
    <2>3. st[q].dh_remote = st[p].dh_local =>
              st[q].receiving # None /\ st[q].receiving.id = st[p].sending.id
      <3>1. ASSUME NEW o \in Peers, Leads(st[o], st[Peer(o)]), st[q].dh_remote = st[p].dh_local
            PROVE  st[q].receiving # None /\ st[q].receiving.id = st[p].sending.id
        <4>1. o = q
          BY <3>1, PeerFacts, ZenonT(60) DEF Leads
        <4> QED
          BY <1>0, <3>1, <4>1, ZenonT(60) DEF Leads
      <3>2. ASSUME Starts(st[Initiator], st[Responder])
            PROVE  st[q].receiving # None /\ st[q].receiving.id = st[p].sending.id
        <4>1. p = Initiator /\ q = Responder
          BY <1>2, <3>2, PeersAssumption, ZenonT(60) DEF Starts, Peers, Peer
        <4> QED
          BY <3>2, <4>1, ZenonT(60) DEF Starts
      <3> QED
        BY <3>1, <3>2, ZenonT(60) DEF WireInv, InStep
    <2> QED
      BY <1>0, <1>2, <2>1, <2>2, <2>3, ZenonT(60)
  <1> QED
    BY <1>1, <1>2, ZenonT(60)

\* encrypt, whether a message leaves or not.
LEMMA WireSends ==
    ASSUME Roomy, TypeOK, WireInv, NEW p \in Peers, Encrypt(p, FALSE) \/ EncryptFails(p, FALSE)
    PROVE  WireInv'
  <1> DEFINE q == Peer(p)
             s == SendState(st[p], FALSE)
             k == IF Rotates(st[p], FALSE) THEN nextDh + 1 ELSE nextDh
             h == HeaderEncryption /\ ~Rotates(st[p], FALSE)
             m == Sealed(p, s, h)
             t1 == [s EXCEPT !.sending = Advance(@), !.messages_sent = @ + 1]
             t2 == [s EXCEPT !.sending = Advance(@)]
  <1>1. /\ CanSend(s) /\ nextBody < MaxBody /\ nextBody' = nextBody + 1 /\ nextDh' = k
        /\ opened' = opened
        /\ (/\ st' = [st EXCEPT ![p] = t1] /\ sent' = sent \cup {m})
           \/ (/\ st' = [st EXCEPT ![p] = t2] /\ sent' = sent)
    BY Zenon DEF Encrypt, EncryptFails
  <1>2. /\ s \in State /\ Running(s, k) /\ s.sending # None
        /\ Direction(s, st[q], From(p), From(p) \ opened, nextBody, k)
        /\ Direction(st[q], s, From(q), From(q) \ opened, nextBody, k)
        /\ st[q].dh_remote = s.dh_local =>
               st[q].receiving # None /\ st[q].receiving.id = s.sending.id
        /\ s = st[p] \/ Leads(s, st[q])
        /\ s = st[p] => k = nextDh /\ st[p].sending # None
    BY <1>1, SendReady, ZenonT(60)
  <1>3. /\ q \in Peers /\ q # p /\ Peer(q) = p /\ st[q] \in State
        /\ nextDh \in Nat /\ nextBody \in Nat /\ k \in Nat /\ nextDh <= k
        /\ nextBody + 1 \in Nat /\ nextBody + 1 <= MaxBody
    <2>1. /\ q \in Peers /\ q # p /\ Peer(q) = p /\ st[q] \in State
          /\ nextDh \in Nat /\ nextBody \in Nat
      BY PeerFacts, Zenon DEF TypeOK
    <2>2. k \in Nat /\ nextDh <= k
      <3>1. k = nextDh \/ k = nextDh + 1
        BY Zenon
      <3> HIDE DEF k
      <3> QED
        BY <2>1, <3>1
    <2>3. nextBody + 1 \in Nat /\ nextBody + 1 <= MaxBody
      BY <1>1, <2>1, BoundsAssumption
    <2> QED
      BY <2>1, <2>2, <2>3, ZenonT(60)
  <1>4. /\ m \in Message /\ m.from = p /\ m.dh = s.dh_local /\ m.n = s.sending.index
        /\ m.pn = s.previous_counter /\ m.key = KeyAt(s.sending) /\ m.header_key = None
    <2>1. m \in Message
      BY <1>1, <1>2, <1>3, SealedType, ZenonT(60)
    <2>2. ~h
      BY Zenon DEF Roomy
    <2> HIDE DEF h
    <2> QED
      BY <2>1, <2>2, Zenon DEF Sealed
  <1>5. /\ s.sending \in Chain
        /\ Advance(s.sending) = [id |-> s.sending.id, index |-> s.sending.index + 1]
        /\ Advance(s.sending) \in Chain /\ t1 \in State /\ t2 \in State
    BY <1>1, <1>2, AdvancedSendState, ZenonT(60)
  <1> HIDE DEF s, k, m, h
  <1>6. \A t \in {t1, t2} :
            /\ t \in State /\ t.sending = Advance(s.sending)
            /\ t.root = s.root /\ t.dh_local = s.dh_local /\ t.dh_remote = s.dh_remote
            /\ t.receiving = s.receiving /\ t.skipped = s.skipped
            /\ t.max_skip = s.max_skip /\ t.previous_counter = s.previous_counter
    BY <1>2, <1>5, ZenonT(60) DEF State
  <1> HIDE DEF t1, t2
  <1>7. PICK t \in {t1, t2} : st' = [st EXCEPT ![p] = t]
    BY <1>1, Zenon
  <1>8. /\ t \in State /\ t.sending = Advance(s.sending)
        /\ t.root = s.root /\ t.dh_local = s.dh_local /\ t.dh_remote = s.dh_remote
        /\ t.receiving = s.receiving /\ t.skipped = s.skipped
        /\ t.max_skip = s.max_skip /\ t.previous_counter = s.previous_counter
    BY <1>6, ZenonT(60)
  <1>9. t.sending # None /\ t.sending.id = s.sending.id
    BY <1>5, <1>8, NoneAssumption
  <1>10. Running(t, k)
    BY <1>2, <1>8, ZenonT(60) DEF Running
  <1>11. /\ From(q)' = From(q)
         /\ From(p)' = From(p) \/ From(p)' = From(p) \cup {m}
    BY <1>1, <1>3, <1>4, FromFacts, ZenonT(60)
  <1>12. Direction(t, st[q], From(p)', From(p)' \ opened', nextBody', nextDh')
    <2>1. /\ s.dh_local \in Nat /\ s.dh_local < k /\ st[q].dh_remote \in Nat
      BY <1>2, <1>3, ZenonT(60) DEF Running, WireInv
    <2>2. From(p) \in SUBSET Message /\ (From(p) \ opened) \in SUBSET From(p)
      BY FromFacts, Zenon
    <2>3. /\ Direction(t, st[q], From(p), From(p) \ opened, nextBody + 1, k)
          /\ Direction(t, st[q], From(p) \cup {m}, (From(p) \ opened) \cup {m}, nextBody + 1, k)
      <3>1. t.sending = [id |-> s.sending.id, index |-> s.sending.index + 1]
        BY <1>5, <1>8, ZenonT(60)
      <3> QED
        BY <1>2, <1>3, <1>4, <1>8, <2>1, <2>2, <3>1, Sends, ZenonT(60)
    <2>4. (From(p) \cup {m}) \ opened \in SUBSET ((From(p) \ opened) \cup {m})
      BY Zenon
    <2>5. Direction(t, st[q], From(p) \cup {m}, (From(p) \cup {m}) \ opened, nextBody + 1, k)
      BY <2>3, <2>4, FewerLeft, ZenonT(60)
    <2> QED
      BY <1>1, <1>11, <2>3, <2>5, ZenonT(60)
  <1>13. Direction(st[q], t, From(q)', From(q)' \ opened', nextBody', nextDh')
    <2>1. Direction(st[q], t, From(q), From(q) \ opened, nextBody, k)
      BY <1>2, <1>8, SameDirection, ZenonT(60)
    <2>2. nextBody <= nextBody + 1 /\ k <= k /\ From(q) \in SUBSET Message
      BY <1>3, FromFacts
    <2>3. Direction(st[q], t, From(q), From(q) \ opened, nextBody + 1, k)
      BY <1>3, <1>8, <2>1, <2>2, LaterDirection, ZenonT(60)
    <2> QED
      BY <1>1, <1>11, <2>3, ZenonT(60)
  <1>14. st'[p] = t /\ st'[q] = st[q]
    BY <1>3, <1>7, ZenonT(60) DEF TypeOK
  <1>15. InStep'
    <2>1. CASE s = st[p]
      <3>1. SameRatchet(t, s) /\ s.sending # None /\ t.skipped = s.skipped
        BY <1>2, <1>8, <1>9, ZenonT(60) DEF SameRatchet
      <3>2. InStep /\ s = st[p]
        BY <2>1, Zenon DEF WireInv
      <3> QED
        BY <1>11, <1>14, <3>1, <3>2, StaysInStep, ZenonT(60)
    <2>2. CASE Leads(s, st[q])
      <3>1. Leads(t, st[q])
        BY <1>8, <1>9, <2>2, ZenonT(60) DEF Leads
      <3> QED
        BY <1>14, <3>1, ZenonT(60) DEF InStep
    <2> QED
      BY <1>2, <2>1, <2>2, ZenonT(60)
  <1>16. \A o \in sent' : o.header_key = None
    BY <1>1, <1>4, ZenonT(60) DEF WireInv
  <1> QED
    BY <1>1, <1>3, <1>7, <1>8, <1>10, <1>12, <1>13, <1>15, <1>16, WireStep, ZenonT(60)

\* decrypt with a skipped key.
LEMMA WireTakes ==
    ASSUME TypeOK, WireInv, NoKeyReuse, NEW p \in Peers, NEW m \in sent, m.from = Peer(p),
           OpensSkipped(st[p], m), st' = [st EXCEPT ![p] = AfterSkipped(st[p], m)],
           nextDh' = nextDh, nextBody' = nextBody, sent' = sent, opened' = opened \cup {m}
    PROVE  WireInv'
  <1> DEFINE q == Peer(p)
             r == st[p]
             t == AfterSkipped(r, m)
  <1>1. /\ q \in Peers /\ q # p /\ Peer(q) = p /\ st[q] \in State /\ r \in State
        /\ nextDh \in Nat /\ nextBody \in Nat
    BY PeerFacts, Zenon DEF TypeOK
  <1>2. /\ t \in State /\ t.root = r.root /\ t.sending = r.sending /\ t.receiving = r.receiving
        /\ t.dh_local = r.dh_local /\ t.dh_remote = r.dh_remote /\ t.max_skip = r.max_skip
        /\ t.previous_counter = r.previous_counter /\ t.skipped = r.skipped \ SkippedFor(r, m)
    BY <1>1, Zenon DEF AfterSkipped, State
  <1>3. /\ From(p) \in SUBSET Message /\ (From(p) \ opened) \in SUBSET From(p)
        /\ From(q) \in SUBSET Message /\ (From(q) \ opened) \in SUBSET From(q)
        /\ From(p)' = From(p) /\ From(q)' = From(q) /\ m \in From(q)
    BY <1>1, FromFacts, ZenonT(60) DEF From
  <1>4. \A m1 \in From(q), m2 \in From(q) : m1.key = m2.key => m1 = m2
    BY Zenon DEF NoKeyReuse, From
  <1>5. SkippedFor(r, m) # {}
    BY Zenon DEF OpensSkipped
  <1>6. /\ Direction(r, st[q], From(p), From(p) \ opened, nextBody, nextDh)
        /\ Direction(st[q], r, From(q), From(q) \ opened, nextBody, nextDh)
        /\ Running(r, nextDh)
    BY <1>1, Zenon DEF WireInv, Way
  <1>7. st'[p] = t /\ st'[q] = st[q] /\ st' = [st EXCEPT ![p] = t]
    BY <1>1, Zenon DEF TypeOK
  <1> HIDE DEF t, r, q
  <1>8. Direction(st[q], t, From(q)', From(q)' \ opened', nextBody', nextDh')
    <2>1. Direction(st[q], t, From(q), (From(q) \ opened) \ {m}, nextBody, nextDh)
      BY <1>1, <1>2, <1>3, <1>4, <1>5, <1>6, Taken, ZenonT(60)
    <2>2. (From(q) \ opened) \ {m} = From(q) \ (opened \cup {m})
      BY Zenon
    <2> QED
      BY <1>3, <2>1, <2>2, ZenonT(60)
  <1>9. Direction(t, st[q], From(p)', From(p)' \ opened', nextBody', nextDh')
    <2>1. Direction(t, st[q], From(p), From(p) \ opened, nextBody, nextDh)
      BY <1>2, <1>6, SameDirection, ZenonT(60)
    <2>2. From(p) \ (opened \cup {m}) \in SUBSET (From(p) \ opened)
      BY Zenon
    <2>3. Direction(t, st[q], From(p), From(p) \ (opened \cup {m}), nextBody, nextDh)
      BY <2>1, <2>2, FewerLeft, ZenonT(60)
    <2> QED
      BY <1>3, <2>3, ZenonT(60)
  <1>10. InStep'
    <2>1. SameRatchet(t, r)
      BY <1>2, Zenon DEF SameRatchet
    <2>2. InStep /\ r = st[p] /\ q = Peer(p)
      BY Zenon DEF WireInv, r, q
    <2>3. From(q) # {}
      BY <1>3, Zenon
    <2> QED
      BY <1>3, <1>7, <2>1, <2>2, <2>3, StaysInStep, ZenonT(60)
  <1>11. Running(t, nextDh')
    BY <1>2, <1>6, ZenonT(60) DEF Running
  <1>12. /\ nextBody' <= MaxBody /\ nextDh' \in Nat /\ nextDh <= nextDh'
         /\ \A o \in sent' : o.header_key = None
    BY <1>1 DEF WireInv
  <1> QED
    BY <1>2, <1>7, <1>8, <1>9, <1>10, <1>11, <1>12, WireStep, ZenonT(60) DEF q

\* What decrypt leaves alone when it steps the chain, in the clone that it
\* ratcheted or did not have to.
LEMMA AfterNextKeeps ==
    ASSUME NEW s \in State, NEW m \in Message, NEW fresh \in Nat, OpensNext(s, m, fresh)
    PROVE  LET r == Ratcheted(s, m, fresh)
               a == AfterNext(s, m, fresh)
           IN  a.previous_counter = r.previous_counter /\ a.max_skip = r.max_skip
  <1> DEFINE r == Ratcheted(s, m, fresh)
             k == SkipMessageKeys(r, m.n)
             a == AfterNext(s, m, fresh)
  <1>1. r \in State /\ CanSkip(r, m.n) /\ k \in State /\ m.n \in Nat
    BY OpensNextFacts, Zenon DEF Message
  <1>2. a = [k EXCEPT !.receiving = Advance(@), !.messages_received = @ + 1]
    BY Zenon DEF AfterNext
  <1> HIDE DEF r
  <1>3. k.previous_counter = r.previous_counter /\ k.max_skip = r.max_skip
    BY <1>1, SkipEffect, SkipMessageKeysType, ZenonT(60)
  <1> HIDE DEF k, a
  <1>4. a.previous_counter = k.previous_counter /\ a.max_skip = k.max_skip
    BY <1>1, <1>2, ZenonT(60) DEF State
  <1> QED
    BY <1>3, <1>4, Zenon DEF r, a

\* decrypt of a message that lies ahead on the receiving chain.
LEMMA WireSteps ==
    ASSUME TypeOK, WireInv, NoKeyReuse, NEW p \in Peers, NEW m \in sent, m.from = Peer(p),
           m.dh = st[p].dh_remote, OpensNext(st[p], m, nextDh),
           st' = [st EXCEPT ![p] = AfterNext(st[p], m, nextDh)],
           nextDh' = nextDh, nextBody' = nextBody, sent' = sent, opened' = opened \cup {m}
    PROVE  WireInv'
  <1> DEFINE q == Peer(p)
             r == st[p]
             t == AfterNext(r, m, nextDh)
  <1>1. /\ q \in Peers /\ q # p /\ Peer(q) = p /\ st[q] \in State /\ r \in State
        /\ nextDh \in Nat /\ nextBody \in Nat /\ m \in Message
    BY PeerFacts, Zenon DEF TypeOK
  <1>2. /\ Direction(r, st[q], From(p), From(p) \ opened, nextBody, nextDh)
        /\ Direction(st[q], r, From(q), From(q) \ opened, nextBody, nextDh)
        /\ Running(r, nextDh)
    BY <1>1, Zenon DEF WireInv, Way
  <1>3. Ratcheted(r, m, nextDh) = r
    BY <1>2, NoneAssumption, ZenonT(60) DEF Ratcheted, NeedsRatchet, Running
  <1>4. /\ t \in State /\ t.root = r.root /\ t.sending = r.sending
        /\ t.dh_local = r.dh_local /\ t.dh_remote = r.dh_remote
        /\ t.skipped = SkipMessageKeys(r, m.n).skipped
        /\ t.receiving = [id |-> r.receiving.id, index |-> m.n + 1]
        /\ r.receiving \in Chain /\ r.receiving.index <= m.n /\ CanSkip(r, m.n)
    <2> DEFINE c == Ratcheted(r, m, nextDh)
               u == SkipMessageKeys(c, m.n)
    <2>1. OpensNext(r, m, nextDh)
      BY Zenon
    <2> HIDE DEF r
    <2>2. /\ CanSkip(c, m.n) /\ c.receiving \in Chain /\ c.receiving.id = u.receiving.id
          /\ c.receiving.index <= m.n /\ t \in State
          /\ t.receiving = [id |-> u.receiving.id, index |-> m.n + 1] /\ t.skipped = u.skipped
          /\ t.root = c.root /\ t.sending = c.sending
          /\ t.dh_local = c.dh_local /\ t.dh_remote = c.dh_remote
      BY <1>1, <2>1, OpensNextFacts, ZenonT(60)
    <2> HIDE DEF t
    <2> QED
      BY <1>3, <2>2, ZenonT(60)
  <1>5. t.previous_counter = r.previous_counter /\ t.max_skip = r.max_skip
    BY <1>1, <1>3, AfterNextKeeps, ZenonT(60)
  <1>6. /\ From(p) \in SUBSET Message /\ (From(p) \ opened) \in SUBSET From(p)
        /\ From(q) \in SUBSET Message /\ (From(q) \ opened) \in SUBSET From(q)
        /\ From(p)' = From(p) /\ From(q)' = From(q) /\ m \in From(q)
    BY <1>1, FromFacts, Zenon DEF From
  <1>7. \A m1 \in From(q), m2 \in From(q) : m1.key = m2.key => m1 = m2
    BY Zenon DEF NoKeyReuse, From
  <1>8. st'[p] = t /\ st'[q] = st[q] /\ st' = [st EXCEPT ![p] = t]
    BY <1>1, Zenon DEF TypeOK
  <1>9. m.n >= r.receiving.index /\ r.dh_remote \in Nat /\ r.dh_remote < nextDh
    BY <1>1, <1>2, <1>4, ZenonT(60) DEF Running, Chain, Message
  <1>10. m.dh = r.dh_remote
    BY Zenon
  <1> HIDE DEF t, r, q
  <1>11. Direction(st[q], t, From(q)', From(q)' \ opened', nextBody', nextDh')
    <2>1. Direction(st[q], t, From(q), (From(q) \ opened) \ {m}, nextBody, nextDh)
      BY <1>1, <1>2, <1>4, <1>6, <1>7, <1>9, <1>10, Stepped, ZenonT(60)
    <2>2. (From(q) \ opened) \ {m} = From(q) \ (opened \cup {m})
      BY Zenon
    <2> QED
      BY <1>6, <2>1, <2>2, ZenonT(60)
  <1>12. Direction(t, st[q], From(p)', From(p)' \ opened', nextBody', nextDh')
    <2>1. Direction(t, st[q], From(p), From(p) \ opened, nextBody, nextDh)
      BY <1>2, <1>4, <1>5, SameDirection, ZenonT(60)
    <2>2. From(p) \ (opened \cup {m}) \in SUBSET (From(p) \ opened)
      BY Zenon
    <2>3. Direction(t, st[q], From(p), From(p) \ (opened \cup {m}), nextBody, nextDh)
      BY <2>1, <2>2, FewerLeft, ZenonT(60)
    <2> QED
      BY <1>6, <2>3, ZenonT(60)
  <1>13. InStep'
    <2>1. t.receiving # None /\ t.receiving.id = r.receiving.id /\ r.receiving # None
      <3>1. r.receiving.id \in Root /\ m.n + 1 \in Nat
        BY <1>1, <1>4 DEF Chain, Message
      <3>2. t.receiving = [id |-> r.receiving.id, index |-> m.n + 1] /\ r.receiving \in Chain
        BY <1>4, ZenonT(60)
      <3>3. t.receiving \in Chain /\ t.receiving.id = r.receiving.id
        BY <3>1, <3>2 DEF Chain
      <3> QED
        BY <3>2, <3>3, NoneAssumption, ZenonT(60)
    <2>2. SameRatchet(t, r)
      BY <1>4, <1>5, <2>1, Zenon DEF SameRatchet
    <2>3. InStep /\ r = st[p] /\ q = Peer(p)
      BY Zenon DEF WireInv, r, q
    <2>4. From(q) # {}
      BY <1>6, Zenon
    <2> QED
      BY <1>6, <1>8, <2>2, <2>3, <2>4, StaysInStep, ZenonT(60)
  <1>14. Running(t, nextDh')
    BY <1>2, <1>4, <1>5, ZenonT(60) DEF Running
  <1>15. /\ nextBody' <= MaxBody /\ nextDh' \in Nat /\ nextDh <= nextDh'
         /\ \A o \in sent' : o.header_key = None
    BY <1>1 DEF WireInv
  <1> QED
    BY <1>4, <1>8, <1>11, <1>12, <1>13, <1>14, <1>15, WireStep, ZenonT(60) DEF q

\* decrypt of a message from a chain one ratchet step ahead: the receiver
\* makes a step of its own, and leads.
LEMMA WireTurns ==
    ASSUME TypeOK, WireInv, NoKeyReuse, NEW p \in Peers, NEW m \in sent \ opened, m.from = Peer(p),
           m.dh # st[p].dh_remote, OpensNext(st[p], m, nextDh),
           st' = [st EXCEPT ![p] = AfterNext(st[p], m, nextDh)],
           nextDh' = nextDh + 1, nextBody' = nextBody, sent' = sent, opened' = opened \cup {m}
    PROVE  WireInv'
  <1> DEFINE q == Peer(p)
             r == st[p]
             s == st[q]
             c == Ratcheted(r, m, nextDh)
             t == AfterNext(r, m, nextDh)
  <1>1. /\ q \in Peers /\ q # p /\ Peer(q) = p /\ s \in State /\ r \in State
        /\ nextDh \in Nat /\ nextBody \in Nat /\ m \in Message /\ m.pn \in Nat /\ m.n \in Nat
        /\ \A o \in Peers : o = p \/ o = q
    BY PeerFacts, Zenon DEF TypeOK, Message
  <1>2. /\ Direction(r, s, From(p), From(p) \ opened, nextBody, nextDh)
        /\ Direction(s, r, From(q), From(q) \ opened, nextBody, nextDh)
        /\ Running(r, nextDh) /\ Running(s, nextDh)
    BY <1>1, Zenon DEF WireInv, Way
  <1>3. /\ From(p) \in SUBSET Message /\ (From(p) \ opened) \in SUBSET From(p)
        /\ From(q) \in SUBSET Message /\ (From(q) \ opened) \in SUBSET From(q)
        /\ From(p)' = From(p) /\ From(q)' = From(q) /\ m \in From(q) \ opened
    BY <1>1, FromFacts, Zenon DEF From
  <1>4. m.dh = s.dh_local /\ r.dh_remote # s.dh_local
    <2>1. <<m.dh, m.n>> \notin Slots(r.skipped)
      BY Zenon DEF OpensNext, Slots, SkippedFor
    <2>2. Ahead(s, r, From(q) \ opened)
      BY <1>2, Zenon DEF Direction
    <2> QED
      BY <1>3, <2>1, <2>2, ZenonT(60) DEF Ahead
  <1>5. Leads(s, r)
    <2>1. ASSUME Starts(st[Initiator], st[Responder]) PROVE FALSE
      BY <1>4, <2>1, PeersAssumption, ZenonT(60) DEF Starts, Peers, Peer
    <2>2. PICK o \in Peers : Leads(st[o], st[Peer(o)])
      BY <2>1, Zenon DEF WireInv, InStep
    <2>3. o # p
      BY <1>4, <2>2, ZenonT(60) DEF Leads
    <2> QED
      BY <1>1, <2>2, <2>3, ZenonT(60)
  <1>6. m.pn = s.previous_counter /\ s.sending # None
    BY <1>2, <1>3, <1>4, ZenonT(60) DEF Direction, OnWire
  <1>7. CanSkip(r, m.pn)
    <2>1. NeedsRatchet(r, m)
      BY Zenon DEF NeedsRatchet
    <2> QED
      BY <2>1, Zenon DEF OpensNext
  <1>8. /\ c \in State /\ c.skipped = SkipMessageKeys(r, m.pn).skipped
        /\ c.dh_remote = s.dh_local /\ c.dh_local = nextDh
        /\ c.receiving = NewChain(s.sending.id)
        /\ c.root = Append(s.root, {nextDh, s.dh_local}) /\ c.sending = NewChain(c.root)
        /\ c.max_skip = MaxSkip /\ c.previous_counter = r.sending.index
    <2> HIDE DEF r, s
    <2>1. TurnedTo(c, s, r, m, nextDh)
      BY <1>1, <1>2, <1>4, <1>5, <1>7, RatchetedTo, ZenonT(60)
    <2> HIDE DEF c
    <2> QED
      BY <2>1, Zenon DEF TurnedTo
  <1>9. /\ t \in State /\ t.root = c.root /\ t.sending = c.sending
        /\ t.dh_local = c.dh_local /\ t.dh_remote = c.dh_remote
        /\ t.skipped = SkipMessageKeys(c, m.n).skipped
        /\ t.receiving = [id |-> c.receiving.id, index |-> m.n + 1] /\ CanSkip(c, m.n)
    <2> DEFINE u == SkipMessageKeys(c, m.n)
    <2>1. OpensNext(r, m, nextDh)
      BY Zenon
    <2> HIDE DEF r
    <2>2. /\ CanSkip(c, m.n) /\ c.receiving.id = u.receiving.id /\ t \in State
          /\ t.receiving = [id |-> u.receiving.id, index |-> m.n + 1] /\ t.skipped = u.skipped
          /\ t.root = c.root /\ t.sending = c.sending
          /\ t.dh_local = c.dh_local /\ t.dh_remote = c.dh_remote
      BY <1>1, <2>1, OpensNextFacts, ZenonT(120)
    <2> HIDE DEF t, c
    <2> QED
      BY <2>2, Zenon
  <1>10. t.previous_counter = c.previous_counter /\ t.max_skip = c.max_skip
    BY <1>1, AfterNextKeeps, Zenon
  <1>11. \A m1 \in From(q), m2 \in From(q) : m1.key = m2.key => m1 = m2
    BY Zenon DEF NoKeyReuse, From
  <1>12. st'[p] = t /\ st'[q] = s /\ st' = [st EXCEPT ![p] = t]
    BY <1>1, Zenon DEF TypeOK
  <1> HIDE DEF t, c, s, r, q
  <1>13. /\ s.dh_local \in Nat /\ s.dh_local < nextDh /\ s.dh_remote \in Nat
         /\ s.dh_remote < nextDh /\ r.dh_remote \in Nat /\ r.dh_remote < nextDh
    BY <1>2, Zenon DEF Running
  <1>14. Direction(s, t, From(q)', From(q)' \ opened', nextBody', nextDh')
    <2>1. Direction(s, c, From(q), From(q) \ opened, nextBody, nextDh)
      BY <1>1, <1>2, <1>3, <1>4, <1>6, <1>7, <1>8, <1>13, Turned, Zenon
    <2>2. nextDh + 1 \in Nat /\ nextDh <= nextDh + 1 /\ nextBody <= nextBody
      BY <1>1
    <2>3. Direction(s, c, From(q), From(q) \ opened, nextBody, nextDh + 1)
      BY <1>1, <1>3, <1>8, <2>1, <2>2, LaterDirection, Zenon
    <2>4. m.dh = c.dh_remote /\ c.dh_remote \in Nat /\ c.dh_remote < nextDh + 1
      BY <1>1, <1>4, <1>8, <1>13, Successor, ZenonT(60)
    <2>5. m.n >= c.receiving.index
      <3>1. c.receiving.index = 0
        BY <1>8, ChainFields, Zenon
      <3> QED
        BY <1>1, <3>1
    <2>6. Direction(s, t, From(q), (From(q) \ opened) \ {m}, nextBody, nextDh + 1)
      BY <1>1, <1>3, <1>8, <1>9, <1>11, <2>2, <2>3, <2>4, <2>5, Stepped, ZenonT(60)
    <2>7. (From(q) \ opened) \ {m} = From(q) \ (opened \cup {m})
      BY Zenon
    <2> QED
      BY <1>3, <2>6, <2>7, Zenon
  <1>15. t.sending # None /\ t.sending.index = 0 /\ t.sending.id = t.root
    <2>1. NewChain(c.root) \in Chain
      <3>1. c \in State
        BY <1>8, ZenonT(60)
      <3>2. c.root \in Root
        BY <3>1, ZenonT(60) DEF State
      <3> QED
        BY <3>2, Zenon DEF NewChain, Chain
    <2>2. t.sending = NewChain(c.root) /\ t.root = c.root
      BY <1>8, <1>9, ZenonT(60)
    <2> QED
      BY <2>1, <2>2, NoneAssumption DEF NewChain
  <1>16. Direction(t, s, From(p)', From(p)' \ opened', nextBody', nextDh')
    <2>1. r.sending # None /\ s.dh_remote = r.dh_local
      BY <1>5, Zenon DEF Leads
    <2>2. t.dh_local = nextDh /\ t.previous_counter = r.sending.index
      BY <1>8, <1>9, <1>10, ZenonT(60)
    <2>3. Direction(t, s, From(p), From(p) \ opened, nextBody, nextDh + 1)
      BY <1>1, <1>2, <1>3, <1>9, <1>13, <1>15, <2>1, <2>2, TurnedBack, ZenonT(60)
    <2>4. From(p) \ (opened \cup {m}) \in SUBSET (From(p) \ opened)
      BY Zenon
    <2>5. Direction(t, s, From(p), From(p) \ (opened \cup {m}), nextBody, nextDh + 1)
      BY <2>3, <2>4, FewerLeft, ZenonT(60)
    <2> QED
      BY <1>3, <2>5, ZenonT(60)
  <1>17. InStep'
    <2>1. t.receiving # None /\ t.receiving.id = s.root
      <3>1. s.sending.id = s.root /\ s.root \in Root
        BY <1>1, <1>5, ZenonT(60) DEF Leads, State
      <3>2. c.receiving.id = s.sending.id
        BY <1>8, ChainFields, Zenon
      <3>3. m.n + 1 \in Nat /\ t.receiving = [id |-> c.receiving.id, index |-> m.n + 1]
        BY <1>1, <1>9, Successor, Zenon
      <3>4. c.receiving.id \in Root
        BY <3>1, <3>2, Zenon
      <3>5. t.receiving # None /\ t.receiving.id = c.receiving.id
        <4> DEFINE z == [id |-> c.receiving.id, index |-> m.n + 1]
        <4>1. z # None /\ z.id = c.receiving.id /\ t.receiving = z
          BY <3>3, <3>4, ChainFields, Zenon
        <4> HIDE DEF z
        <4> QED
          BY <4>1, Zenon
      <3> QED
        BY <3>1, <3>2, <3>5, Zenon
    <2>2. s.sending # None /\ s.sending.id = s.root
      BY <1>5, ZenonT(60) DEF Leads
    <2>3. t.dh_remote = s.dh_local /\ t.dh_local = nextDh /\ s.dh_remote # t.dh_local
      BY <1>1, <1>8, <1>9, <1>13, Successor, ZenonT(60)
    <2>4. Leads(t, s)
      BY <1>8, <1>9, <1>15, <2>1, <2>2, <2>3, ZenonT(60) DEF Leads
    <2> QED
      BY <1>12, <2>4, ZenonT(60) DEF InStep, q
  <1>18. Running(t, nextDh')
    BY <1>1, <1>8, <1>9, <1>10, <1>13, Successor, ZenonT(60) DEF Running
  <1>19. /\ nextBody' <= MaxBody /\ nextDh' \in Nat /\ nextDh <= nextDh'
         /\ \A o \in sent' : o.header_key = None
    BY <1>1 DEF WireInv
  <1> QED
    BY <1>9, <1>12, <1>14, <1>16, <1>17, <1>18, <1>19, WireStep, ZenonT(60) DEF q, s

\* Nothing sent, and both sides on the chain of the handshake.
LEMMA WireInit == Init => WireInv
  <1> SUFFICES ASSUME Init PROVE WireInv
    BY Zenon
  <1> DEFINE i == FromSharedSecret(TRUE, 0, 1)
             r == FromSharedSecret(FALSE, 1, 0)
  <1>1. /\ st[Initiator] = i /\ st[Responder] = r /\ nextDh = 2 /\ nextBody = 0 /\ sent = {}
        /\ \A p \in Peers : From(p) = {}
    BY PeersAssumption, Zenon DEF Init, Peers, From
  <1>2. NewChain(<<>>) # None /\ NewChain(<<>>).id = <<>> /\ NewChain(<<>>).index = 0
    <2>1. NewChain(<<>>) \in Chain
      BY DEF NewChain, Chain, Root
    <2> QED
      BY <2>1, NoneAssumption, ZenonT(60) DEF NewChain
  <1>3. /\ i.root = <<>> /\ i.sending = NewChain(<<>>) /\ i.receiving = None
        /\ i.dh_local = 0 /\ i.dh_remote = 1 /\ i.skipped = {}
        /\ i.max_skip = MaxSkip /\ i.previous_counter = 0
    BY Zenon DEF FromSharedSecret
  <1>4. /\ r.root = <<>> /\ r.sending = None /\ r.receiving = NewChain(<<>>)
        /\ r.dh_local = 1 /\ r.dh_remote = 0 /\ r.skipped = {}
        /\ r.max_skip = MaxSkip /\ r.previous_counter = 0
    BY Zenon DEF FromSharedSecret
  <1> HIDE DEF i, r
  <1>5. Starts(i, r)
    BY <1>2, <1>3, <1>4, ZenonT(60) DEF Starts
  <1>6. InStep
    BY <1>1, <1>5, ZenonT(60) DEF InStep, Peers
  <1>7. Running(i, 2) /\ Running(r, 2)
    BY <1>3, <1>4 DEF Running
  <1>8. Direction(i, r, {}, {}, 0, 2)
    <2>1. Issued(i) = 0 /\ Heard(i, r) = 0
      BY <1>2, <1>3, <1>4, ZenonT(60) DEF Issued, Heard
    <2>2. Spent(i, r) = {}
      BY <1>3, <1>4, <2>1, NoSlots, ZenonT(60) DEF Spent
    <2>3. Counted(i, r, 0)
      BY <1>3, <2>1, <2>2, NoneCounted, ZenonT(60) DEF Counted
    <2>4. Positions(i, r, 2)
      BY <1>2, <1>4, <2>1 DEF Positions
    <2> QED
      BY <2>3, <2>4, ZenonT(60) DEF Direction, OnWire, Matching, Ahead
  <1>9. Direction(r, i, {}, {}, 0, 2)
    <2>1. Issued(r) = 0 /\ Heard(r, i) = 0
      BY <1>3, <1>4, ZenonT(60) DEF Issued, Heard
    <2>2. Spent(r, i) = {}
      BY <1>3, <1>4, <2>1, NoSlots, ZenonT(60) DEF Spent
    <2>3. Counted(r, i, 0)
      BY <1>4, <2>1, <2>2, NoneCounted, ZenonT(60) DEF Counted
    <2>4. Positions(r, i, 2)
      BY <1>3, <2>1, ZenonT(60) DEF Positions
    <2> QED
      BY <2>3, <2>4, ZenonT(60) DEF Direction, OnWire, Matching, Ahead
  <1>10. \A p \in Peers : Way(p)
    <2>1. /\ Peer(Initiator) = Responder /\ Peer(Responder) = Initiator
          /\ \A p \in Peers : p = Initiator \/ p = Responder
      BY PeersAssumption, Zenon DEF Peer, Peers
    <2>2. {} \ opened = {}
      BY Zenon
    <2> QED
      BY <1>1, <1>8, <1>9, <2>1, <2>2, ZenonT(60) DEF Way
  <1>11. \A p \in Peers : Running(st[p], nextDh)
    BY <1>1, <1>7, ZenonT(60) DEF Peers
  <1>12. nextBody <= MaxBody /\ nextDh >= 2
    <2>1. nextBody = 0 /\ nextDh = 2
      BY <1>1, Zenon
    <2> QED
      BY <2>1, BoundsAssumption
  <1> QED
    BY <1>1, <1>6, <1>10, <1>11, <1>12, ZenonT(60) DEF WireInv

\* Every step of two sessions that live as long as the conversation.
LEMMA WireNext ==
    ASSUME Roomy, KeyInv, OnceInv, WireInv, [Exchange]_vars
    PROVE  WireInv'
  <1>0. TypeOK /\ NoKeyReuse
    BY Zenon DEF KeyInv
  <1>1. ASSUME NEW p \in Peers, NEW aged \in Ages, Encrypt(p, aged) \/ EncryptFails(p, aged)
        PROVE  WireInv'
    <2>1. aged = FALSE
      BY Zenon DEF Ages, Roomy
    <2> QED
      BY <1>0, <1>1, <2>1, WireSends, ZenonT(60)
  <1>2. ASSUME NEW p \in Peers, NEW m \in sent, Decrypt(p, m) PROVE WireInv'
    <2>0. /\ m.from = Peer(p) /\ nextBody' = nextBody /\ sent' = sent /\ opened' = opened \cup {m}
      BY <1>2, Zenon DEF Decrypt
    <2>1. CASE OpensSkipped(st[p], m) /\ st' = [st EXCEPT ![p] = AfterSkipped(st[p], m)]
               /\ nextDh' = nextDh
      BY <1>0, <2>0, <2>1, WireTakes, ZenonT(60)
    <2>2. CASE OpensNext(st[p], m, nextDh) /\ st' = [st EXCEPT ![p] = AfterNext(st[p], m, nextDh)]
               /\ nextDh' = IF NeedsRatchet(st[p], m) THEN nextDh + 1 ELSE nextDh
      <3>1. m \in sent \ opened
        <4>1. reopened' = {}
          <5>1. OnceInv'
            BY OnceInvNext, Zenon
          <5> QED
            BY <5>1, Zenon DEF OnceInv
        <4>2. reopened' = reopened \cup ({m} \cap opened)
          BY <1>2, ZenonT(60) DEF Decrypt
        <4> QED
          BY <4>1, <4>2, Zenon
      <3>2. NeedsRatchet(st[p], m) <=> m.dh # st[p].dh_remote
        <4>1. m.dh \in Nat
          BY <1>0, Zenon DEF TypeOK, Message
        <4> QED
          BY <4>1, NoneAssumption, ZenonT(60) DEF NeedsRatchet
      <3>3. CASE m.dh = st[p].dh_remote
        <4>1. nextDh' = nextDh
          BY <2>2, <3>2, <3>3, ZenonT(60)
        <4> QED
          BY <1>0, <2>0, <2>2, <3>3, <4>1, WireSteps, ZenonT(60)
      <3>4. CASE m.dh # st[p].dh_remote
        <4>1. nextDh' = nextDh + 1
          BY <2>2, <3>2, <3>4, ZenonT(60)
        <4> QED
          BY <1>0, <2>0, <2>2, <3>1, <3>4, <4>1, WireTurns, ZenonT(60)
      <3> QED
        BY <3>3, <3>4, ZenonT(60)
    <2> QED
      BY <1>2, <2>1, <2>2, ZenonT(60) DEF Decrypt
  <1>3. CASE UNCHANGED vars
    BY <1>3, Zenon DEF vars, WireInv, InStep, Way, From
  <1>4. ASSUME NEW p \in Peers, NEW m \in sent, DecryptRejects(p, m) PROVE WireInv'
    BY <1>3, <1>4, ZenonT(60) DEF DecryptRejects
  <1> QED
    BY <1>1, <1>2, <1>3, <1>4, ZenonT(60) DEF Exchange

\* A message that is ahead, skipped or one ratchet step ahead opens.
LEMMA WireOpens ==
    ASSUME Roomy, TypeOK, WireInv
    PROVE  AlwaysDecryptable
  <1> SUFFICES ASSUME NEW m \in sent \ opened PROVE Opens(st[Peer(m.from)], m, nextDh)
    BY Zenon DEF AlwaysDecryptable
  <1> DEFINE q == m.from
             p == Peer(q)
             s == st[q]
             r == st[p]
  <1>1. /\ q \in Peers /\ p \in Peers /\ p # q /\ Peer(p) = q /\ s \in State /\ r \in State
        /\ nextDh \in Nat /\ nextBody \in Nat /\ \A o \in Peers : o = p \/ o = q
    BY PeerFacts, Zenon DEF TypeOK, Message
  <1>2. /\ Direction(s, r, From(q), From(q) \ opened, nextBody, nextDh)
        /\ Running(r, nextDh) /\ Running(s, nextDh) /\ m.header_key = None
    BY <1>1, Zenon DEF WireInv, Way
  <1>3. /\ From(q) \in SUBSET Message /\ (From(q) \ opened) \in SUBSET From(q)
        /\ m \in From(q) \ opened
    BY <1>1, FromFacts, ZenonT(60) DEF From
  <1>4. nextBody < MaxSkip /\ nextDh <= nextDh
    BY <1>1, BoundsAssumption DEF Roomy, WireInv
  <1>5. m.dh = s.dh_local /\ r.dh_remote # s.dh_local => Leads(s, r)
    <2>1. ASSUME Starts(st[Initiator], st[Responder]) PROVE r.dh_remote = s.dh_local
      BY <1>1, <2>1, PeersAssumption, ZenonT(60) DEF Starts, Peers, Peer
    <2>2. ASSUME NEW o \in Peers, Leads(st[o], st[Peer(o)]), r.dh_remote # s.dh_local
          PROVE  Leads(s, r)
      <3>1. o # p
        BY <1>1, <2>2, ZenonT(60) DEF Leads
      <3> QED
        BY <1>1, <2>2, <3>1, ZenonT(60)
    <2> QED
      BY <2>1, <2>2, ZenonT(60) DEF WireInv, InStep
  <1> HIDE DEF s, r, p, q
  <1>6. Opens(r, m, nextDh)
    BY <1>1, <1>2, <1>3, <1>4, <1>5, OpensLeft, ZenonT(60)
  <1> QED
    BY <1>6, Zenon DEF r, p, q

\* With room in the cache for every message that is ever sent, what was sent
\* and not yet received can be decrypted at once, whatever of it arrived before
\* and in whatever order: no gap, no ratchet step and no refused plaintext puts
\* a message out of reach.  Headers in the clear, and no chain that is replaced
\* for its age, are what the code needs for it.
THEOREM NothingOutOfReach ==
    ASSUME Roomy
    PROVE  Spec => []AlwaysDecryptable
  <1> DEFINE Inv == KeyInv /\ OnceInv /\ WireInv
  <1>1. Init => Inv
    BY KeyInvInit, OnceInvInit, WireInit, ZenonT(60)
  <1>2. Inv /\ [Exchange]_vars => Inv'
    <2> SUFFICES ASSUME Inv, [Exchange]_vars PROVE Inv'
      BY Zenon
    <2>1. KeyInv'
      BY KeyInvNext, Zenon
    <2>2. OnceInv'
      BY OnceInvNext, Zenon
    <2>3. WireInv'
      BY WireNext, Zenon
    <2> QED
      BY <2>1, <2>2, <2>3, ZenonT(60)
  <1>3. Inv => AlwaysDecryptable
    BY WireOpens, Zenon DEF KeyInv
  <1> HIDE DEF Inv
  <1> QED
    BY <1>1, <1>2, <1>3, PTL DEF Spec
=============================================================================
