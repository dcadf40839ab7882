--------------------------- MODULE DoubleRatchet ---------------------------
(***************************************************************************)
(* Two DoubleRatchetSession objects (core/src/ratchet) that exchange       *)
(* messages over a network which loses, repeats and reorders them.         *)
(*                                                                         *)
(* Keys are symbolic.  A DH key pair is a number, drawn fresh from nextDh; *)
(* the shared secret of two pairs is the set of the two numbers.  A root   *)
(* key is the sequence of the shared secrets mixed into it, so that        *)
(* RatchetKdf::kdf_rk(root, dh) is Append(root, dh), both for the new root *)
(* key and, in a chain's id, for the new chain key.  A message key (and    *)
(* the header key of the same position) is a chain id and a number of      *)
(* steps.  Two derivations are equal exactly when their inputs are: the    *)
(* KDFs are taken to be injective.                                         *)
(*                                                                         *)
(* Clock: a chain older than 86400 s may be met at any encryption          *)
(* (AgeRotation); a message too old for RatchetHeader::validate is the     *)
(* same as one that the network lost.                                      *)
(***************************************************************************)
EXTENDS Naturals, Sequences, FiniteSets

CONSTANTS
    Initiator,          \* the peer that ran the handshake as initiator
    Responder,          \* the other peer
    None,               \* Option::None
    MaxMessages,        \* ChainKey::DEFAULT_MAX_MESSAGES (4000 in the code)
    MaxSkip,            \* Config::max_skipped_messages (2000 in the code)
    HeaderEncryption,   \* Config::enable_header_encryption
    AgeRotation,        \* may a chain be met that is older than a day?
    MaxDh,              \* bound: DH key pairs ever generated
    MaxBody             \* bound: calls of encrypt

Root == Seq(SUBSET Nat)

Key == [chain : Root, n : Nat]

Chain == [id : Root, index : Nat]

SkippedKey == [dh : Nat, n : Nat, key : Key]

State ==
    [root : Root,
     sending : Chain \cup {None},
     receiving : Chain \cup {None},
     dh_local : Nat \cup {None},
     dh_remote : Nat \cup {None},
     skipped : SUBSET SkippedKey,
     max_skip : Nat,
     previous_counter : Nat,
     messages_sent : Nat,
     messages_received : Nat]

Peers == {Initiator, Responder}

Message ==
    [from : Peers, dh : Nat, n : Nat, pn : Nat,
     key : Key, header_key : Key \cup {None}, body : Nat]

\* Two peers, and None is none of the values an Option may hold.
ASSUME PeersAssumption == Initiator # Responder

ASSUME NoneAssumption ==
    /\ None \notin Nat
    /\ None \notin Chain
    /\ None \notin Key
    /\ None \notin State

ASSUME BoundsAssumption ==
    /\ MaxMessages \in Nat \ {0}
    /\ MaxSkip \in Nat
    /\ MaxSkip <= MaxMessages       \* the _CHAIN_GE_SKIP guard of chain.rs
    /\ HeaderEncryption \in BOOLEAN
    /\ AgeRotation \in BOOLEAN
    /\ MaxDh \in Nat
    /\ MaxBody \in Nat

VARIABLES
    st,         \* the DoubleRatchetState of each peer
    disk,       \* what serialize_state last returned for each peer
    nextDh,     \* the next unused DH key pair
    nextBody,   \* the next plaintext
    sent,       \* every message that was ever put on the network
    opened,     \* the messages decrypt has returned a plaintext for
    reopened    \* those it has returned a plaintext for more than once

vars == <<st, disk, nextDh, nextBody, sent, opened, reopened>>

Peer(p) == IF p = Initiator THEN Responder ELSE Initiator

-----------------------------------------------------------------------------
(* ChainKey *)

NewChain(id) == [id |-> id, index |-> 0]

\* The message key (and header key) that the chain yields at its position.
KeyAt(c) == [chain |-> c.id, n |-> c.index]

Advance(c) == [c EXCEPT !.index = @ + 1]

NeedsRotation(c, aged) == c.index >= MaxMessages \/ aged

-----------------------------------------------------------------------------
(* The steps of the ratchet *)

\* RatchetKdf::kdf_rk on the shared secret of two DH pairs: the new root key,
\* and the id of the chain key derived with it.
KdfRk(root, a, b) == Append(root, {a, b})

\* from_shared_secret: both sides hold the same chain key, the initiator to
\* send with, the responder to receive with.
FromSharedSecret(initiator, local, remote) ==
    [root |-> <<>>,
     sending |-> IF initiator THEN NewChain(<<>>) ELSE None,
     receiving |-> IF initiator THEN None ELSE NewChain(<<>>),
     dh_local |-> local,
     dh_remote |-> remote,
     skipped |-> {},
     max_skip |-> MaxSkip,
     previous_counter |-> 0,
     messages_sent |-> 0,
     messages_received |-> 0]

\* perform_dh_ratchet: a fresh pair, and a new sending chain if the peer's
\* key is known.  previous_counter stays what it was.
PerformDhRatchet(s, fresh) ==
    LET root == KdfRk(s.root, fresh, s.dh_remote)
    IN  IF s.dh_remote = None
        THEN [s EXCEPT !.dh_local = fresh]
        ELSE [s EXCEPT !.dh_local = fresh,
                       !.root = root,
                       !.sending = NewChain(root)]

\* dh_ratchet: a receiving chain for the peer's new key, then a fresh pair
\* and a sending chain of our own.
DhRatchet(s, remote, fresh) ==
    LET root1 == KdfRk(s.root, s.dh_local, remote)
        root2 == KdfRk(root1, fresh, remote)
    IN  [s EXCEPT
            !.previous_counter = IF s.sending = None THEN 0 ELSE s.sending.index,
            !.dh_remote = remote,
            !.receiving = NewChain(root1),
            !.dh_local = fresh,
            !.sending = NewChain(root2),
            !.root = root2]

\* The (dh, n) pairs that index the skipped keys.
Slots(skipped) == {<<e.dh, e.n>> : e \in skipped}

\* Mutant: the room is looked at once, before the loop, and the gap not at
\* all.
CanSkip_Once(s, until) ==
    s.receiving # None /\ until > s.receiving.index =>
        /\ Cardinality(s.skipped) < s.max_skip
        /\ until <= MaxMessages
        /\ s.dh_remote # None

\* skip_message_keys fails when the gap is wider than max_skip, when the
\* chain runs out, or when add_skipped_key meets a full cache, which the
\* last insertion is the first to see.
CanSkip(s, until) ==
    s.receiving # None /\ until > s.receiving.index =>
        LET before == {<<s.dh_remote, i>> : i \in s.receiving.index .. (until - 2)}
        IN  /\ until <= s.receiving.index + s.max_skip
            /\ until <= MaxMessages
            /\ s.dh_remote # None
            /\ Cardinality(Slots(s.skipped) \cup before) < s.max_skip

SkipMessageKeys(s, until) ==
    IF s.receiving = None \/ until <= s.receiving.index THEN s
    ELSE LET c == s.receiving
             new == {[dh |-> s.dh_remote, n |-> i, key |-> [chain |-> c.id, n |-> i]] :
                        i \in c.index .. (until - 1)}
             kept == {e \in s.skipped : <<e.dh, e.n>> \notin Slots(new)}
         IN  [s EXCEPT !.skipped = kept \cup new,
                       !.receiving = [c EXCEPT !.index = until]]

-----------------------------------------------------------------------------
(* encrypt *)

\* The state encrypt sends from: rotated when there is no sending chain, or
\* it is used up or too old.
Rotates(s, aged) == s.sending = None \/ NeedsRotation(s.sending, aged)

SendState(s, aged) == IF Rotates(s, aged) THEN PerformDhRatchet(s, nextDh) ELSE s

CanSend(s) ==
    /\ s.dh_local # None
    /\ s.sending # None
    /\ s.sending.index < MaxMessages

\* The message as it goes on the wire.  Only a message that did not rotate
\* the chain has its header encrypted.
Sealed(p, s, encrypted) ==
    [from |-> p, dh |-> s.dh_local, n |-> s.sending.index,
     pn |-> s.previous_counter, key |-> KeyAt(s.sending),
     header_key |-> IF encrypted THEN KeyAt(s.sending) ELSE None,
     body |-> nextBody]

Encrypt(p, aged) ==
    LET s == SendState(st[p], aged)
        m == Sealed(p, s, HeaderEncryption /\ ~Rotates(st[p], aged))
    IN  /\ nextBody < MaxBody
        /\ nextDh < MaxDh
        /\ CanSend(s)
        /\ st' = [st EXCEPT ![p] = [s EXCEPT !.sending = Advance(@),
                                             !.messages_sent = @ + 1]]
        /\ sent' = sent \cup {m}
        /\ nextBody' = nextBody + 1
        /\ nextDh' = IF Rotates(st[p], aged) THEN nextDh + 1 ELSE nextDh
        /\ UNCHANGED <<disk, opened, reopened>>

\* encrypt_message refuses an empty plaintext, or associated data that the
\* header makes too long, after the chain has moved on: the key is spent and
\* no message leaves.
EncryptFails(p, aged) ==
    LET s == SendState(st[p], aged)
    IN  /\ nextBody < MaxBody
        /\ nextDh < MaxDh
        /\ CanSend(s)
        /\ st' = [st EXCEPT ![p] = [s EXCEPT !.sending = Advance(@)]]
        /\ nextBody' = nextBody + 1
        /\ nextDh' = IF Rotates(st[p], aged) THEN nextDh + 1 ELSE nextDh
        /\ UNCHANGED <<disk, sent, opened, reopened>>

-----------------------------------------------------------------------------
(* decrypt *)

\* A header that neither chain's current header key opens is read as if it
\* were plaintext, and the random bytes do not pass RatchetHeader::validate.
HeaderReadable(s, m) ==
    \/ m.header_key = None
    \/ s.receiving # None /\ m.header_key = KeyAt(s.receiving)
    \/ s.sending # None /\ m.header_key = KeyAt(s.sending)

SkippedFor(s, m) == {e \in s.skipped : e.dh = m.dh /\ e.n = m.n}

NeedsRatchet(s, m) == s.dh_remote = None \/ s.dh_remote # m.dh

\* Mutant: the rest of the previous chain is not skipped over.
Ratcheted_NoSkip(s, m, fresh) ==
    IF NeedsRatchet(s, m) THEN DhRatchet(s, m.dh, fresh) ELSE s

\* The clone of the state that decrypt works on, up to the message's chain.
Ratcheted(s, m, fresh) ==
    IF NeedsRatchet(s, m) THEN DhRatchet(SkipMessageKeys(s, m.pn), m.dh, fresh) ELSE s

\* A message whose key was skipped, and kept, is opened with it.
OpensSkipped(s, m) ==
    /\ HeaderReadable(s, m)
    /\ SkippedFor(s, m) # {}
    /\ \A e \in SkippedFor(s, m) : e.key = m.key

\* Mutant: the clone is committed without the outcome of the decryption.
OpensNext_Unauthenticated(s, m, fresh) ==
    /\ HeaderReadable(s, m)
    /\ SkippedFor(s, m) = {}
    /\ NeedsRatchet(s, m) => CanSkip(s, m.pn) /\ s.dh_local # None
    /\ LET r == Ratcheted(s, m, fresh)
       IN  /\ r.receiving # None
           /\ CanSkip(r, m.n)
           /\ m.n >= r.receiving.index
           /\ m.n < MaxMessages

\* Otherwise the chain is stepped to the message; every error on the way, a
\* failing authentication included, discards the clone.
OpensNext(s, m, fresh) ==
    /\ HeaderReadable(s, m)
    /\ SkippedFor(s, m) = {}
    /\ NeedsRatchet(s, m) => CanSkip(s, m.pn) /\ s.dh_local # None
    /\ LET r == Ratcheted(s, m, fresh)
       IN  /\ r.receiving # None
           /\ CanSkip(r, m.n)
           /\ m.n >= r.receiving.index
           /\ m.n < MaxMessages
           /\ m.key = KeyAt(SkipMessageKeys(r, m.n).receiving)

Opens(s, m, fresh) == OpensSkipped(s, m) \/ OpensNext(s, m, fresh)

\* Mutant: a skipped key stays after its use.
AfterSkipped_Keeps(s, m) == s

AfterSkipped(s, m) == [s EXCEPT !.skipped = @ \ SkippedFor(s, m)]

AfterNext(s, m, fresh) ==
    [SkipMessageKeys(Ratcheted(s, m, fresh), m.n) EXCEPT
        !.receiving = Advance(@),
        !.messages_received = @ + 1]

\* Mutant: the skipped keys are not looked up.
Decrypt_NextOnly(p, m) ==
    /\ m.from = Peer(p)
    /\ nextDh < MaxDh
    /\ OpensNext(st[p], m, nextDh)
    /\ st' = [st EXCEPT ![p] = AfterNext(st[p], m, nextDh)]
    /\ nextDh' = IF NeedsRatchet(st[p], m) THEN nextDh + 1 ELSE nextDh
    /\ opened' = opened \cup {m}
    /\ reopened' = reopened \cup ({m} \cap opened)
    /\ UNCHANGED <<disk, nextBody, sent>>

\* decrypt of a message from the network.  The network may offer any message
\* at any time and any number of times.
Decrypt(p, m) ==
    /\ m.from = Peer(p)
    /\ \/ /\ OpensSkipped(st[p], m)
          /\ st' = [st EXCEPT ![p] = AfterSkipped(st[p], m)]
          /\ nextDh' = nextDh
       \/ /\ nextDh < MaxDh
          /\ OpensNext(st[p], m, nextDh)
          /\ st' = [st EXCEPT ![p] = AfterNext(st[p], m, nextDh)]
          /\ nextDh' = IF NeedsRatchet(st[p], m) THEN nextDh + 1 ELSE nextDh
    /\ opened' = opened \cup {m}
    /\ reopened' = reopened \cup ({m} \cap opened)
    /\ UNCHANGED <<disk, nextBody, sent>>

\* Every error return of decrypt leaves the session as it was.
DecryptRejects(p, m) ==
    /\ m.from = Peer(p)
    /\ ~Opens(st[p], m, nextDh)
    /\ UNCHANGED vars

-----------------------------------------------------------------------------
(* serialize_state and deserialize_state *)

\* What the serialized form keeps: no private scalar, and no max_skip.
Serialized(s) == [s EXCEPT !.dh_local = None, !.max_skip = 0]

SerializeState(p) ==
    /\ disk' = [disk EXCEPT ![p] = Serialized(st[p])]
    /\ UNCHANGED <<st, nextDh, nextBody, sent, opened, reopened>>

\* The sets that sorting by message number, reversing and truncating to max
\* entries may leave.
Truncated(skipped, max) ==
    {kept \in SUBSET skipped :
        /\ Cardinality(kept) = IF Cardinality(skipped) <= max THEN Cardinality(skipped) ELSE max
        /\ \A e \in kept, f \in skipped \ kept : e.n >= f.n}

\* Mutant: a fresh pair for the header, but the saved chain goes on.
DeserializeState_Continues(p) ==
    /\ disk[p] # None
    /\ nextDh < MaxDh
    /\ \E kept \in Truncated(disk[p].skipped, disk[p].max_skip) :
           st' = [st EXCEPT ![p] = [disk[p] EXCEPT !.skipped = kept, !.dh_local = nextDh]]
    /\ nextDh' = nextDh + 1
    /\ UNCHANGED <<disk, nextBody, sent, opened, reopened>>

\* A restart: a new session object loads the last serialized state, and
\* ratchets at once if it has a chain to send on.
DeserializeState(p) ==
    /\ disk[p] # None
    /\ nextDh < MaxDh
    /\ LET loaded == disk[p]
           primes == loaded.dh_remote # None /\ loaded.sending # None
           s == IF primes THEN PerformDhRatchet(loaded, nextDh) ELSE loaded
       IN  /\ \E kept \in Truncated(s.skipped, s.max_skip) :
                  st' = [st EXCEPT ![p] = [s EXCEPT !.skipped = kept]]
           /\ nextDh' = IF primes THEN nextDh + 1 ELSE nextDh
    /\ UNCHANGED <<disk, nextBody, sent, opened, reopened>>

-----------------------------------------------------------------------------

Init ==
    /\ st = [p \in Peers |-> IF p = Initiator THEN FromSharedSecret(TRUE, 0, 1)
                                              ELSE FromSharedSecret(FALSE, 1, 0)]
    /\ disk = [p \in Peers |-> None]
    /\ nextDh = 2
    /\ nextBody = 0
    /\ sent = {}
    /\ opened = {}
    /\ reopened = {}

Ages == IF AgeRotation THEN BOOLEAN ELSE {FALSE}

Exchange ==
    \E p \in Peers :
        \/ \E aged \in Ages : Encrypt(p, aged) \/ EncryptFails(p, aged)
        \/ \E m \in sent : Decrypt(p, m) \/ DecryptRejects(p, m)

Restart == \E p \in Peers : SerializeState(p) \/ DeserializeState(p)

\* Two sessions that live as long as the conversation.
Spec == Init /\ [][Exchange]_vars

\* Two sessions that may at any time be saved, lost and loaded again.
RestartSpec == Init /\ [][Exchange \/ Restart]_vars

\* Whatever the network carries is offered to its receiver again and again:
\* the relay keeps an envelope queued until it is acknowledged.
FairSpec ==
    /\ Spec
    /\ \A p \in Peers : \A b \in 0 .. (MaxBody - 1) :
           WF_vars(\E m \in sent : m.body = b /\ Decrypt(p, m))

-----------------------------------------------------------------------------
(* Properties *)

\* The types of the two sessions, of what is saved and of what is on the
\* wire.
TypeOK ==
    /\ st \in [Peers -> State]
    /\ disk \in [Peers -> State \cup {None}]
    /\ nextDh \in Nat
    /\ nextBody \in Nat
    /\ sent \subseteq Message
    /\ opened \subseteq sent
    /\ reopened \subseteq opened

\* No two messages are encrypted under one message key, even when a session
\* is lost and an old serialized state is loaded: encrypt advances the chain
\* before it uses a key, and deserialize_state leaves the saved chain.
NoKeyReuse ==
    \A m1, m2 \in sent : m1.key = m2.key => m1 = m2

\* decrypt never returns the plaintext of one message twice, however often
\* and in whatever order the network offers it: a skipped key is removed by
\* its use, an old number on the chain is a replay, and a header with an
\* older dh_public ratchets to keys that do not open the message.
AtMostOnce == reopened = {}

\* The cache of skipped keys never outgrows Config::max_skipped_messages.
SkippedBounded ==
    \A p \in Peers : Cardinality(st[p].skipped) <= MaxSkip

\* A session only ever commits to a receiving chain that its peer really
\* sends on under the dh_public it has recorded: a trial ratchet on a
\* message that does not authenticate leaves no trace.
ReceivingChainIsPeers ==
    \A p \in Peers : st[p].receiving # None =>
        \/ /\ p = Responder
           /\ st[p].receiving.id = <<>>
           /\ st[p].dh_remote = 0
        \/ \E m \in sent :
               /\ m.from = Peer(p)
               /\ m.dh = st[p].dh_remote
               /\ m.key.chain = st[p].receiving.id

\* Whatever was sent and not yet received can be decrypted at once, whatever
\* arrived before it: the skipped keys cover every gap, in a chain and
\* across ratchet steps.
AlwaysDecryptable ==
    \A m \in sent \ opened : Opens(st[Peer(m.from)], m, nextDh)

\* Every message that is sent is decrypted in the end.
EventuallyOpened ==
    \A b \in 0 .. (MaxBody - 1) :
        (\E m \in sent : m.body = b) ~> (\E m \in opened : m.body = b)

\* The first message of a chain can be read by the peer when nothing sent
\* before it is outstanding: if no header key opens it, the fallback to the
\* plaintext header leads to the DH ratchet.
ChainStartDecryptable ==
    \A m \in sent \ opened :
        /\ m.n = 0
        /\ \A o \in sent \ opened : o.body >= m.body
        => Opens(st[Peer(m.from)], m, nextDh)

\* Would the peer decrypt the message that p sends next?
NextIsHeard(p) ==
    Opens(st[Peer(p)], Sealed(p, SendState(st[p], FALSE), FALSE), nextDh + 1)

\* A session that is restored when no encryption has failed and no message
\* is outstanding is heard by its peer, which detects the new dh_public in
\* the header and performs its own ratchet step to match.
RestoredIsHeard ==
    [][\A p \in Peers :
           DeserializeState(p) /\ Cardinality(sent) = nextBody /\ sent = opened
               => NextIsHeard(p)']_vars
=============================================================================
