-------------------------- MODULE GroupSenderKeys --------------------------
(***************************************************************************)
(* Group messaging with sender keys (core/src/group/mod.rs): every member  *)
(* keeps its own session for the group, with a chain of its own for        *)
(* sending, a copy of each other member's chain for receiving, its own     *)
(* list of members and its own epoch.                                      *)
(*                                                                         *)
(* A chain is identified by the call of SenderKey::new that made it; the   *)
(* message key is the chain and the number, so a ciphertext opens exactly  *)
(* under a copy of its chain at its number.  Copies are handed over by the *)
(* application, on a pairwise session.  What was sent can arrive in any    *)
(* order and more than once, or be lost.  A message more than a day old is *)
(* refused without a change, which is a stuttering step.                   *)
(***************************************************************************)
EXTENDS Naturals, FiniteSets

CONSTANTS
    Members,
    None,
    RotateAfter,    \* message number beyond which encrypt rotates (1000)
    MaxSkipGroup,   \* how far decrypt moves a chain on (500)
    MaxGroupSize,
    MaxChains,      \* bound on the chains made
    MaxSent,        \* bound on the messages sent
    MaxNumber,      \* bound on how far a receiver's copy of a chain is moved on
    MaxHanded,      \* bound on the copies handed over
    MaxEpoch,       \* bound on the membership changes of a member
    Recreates,      \* may a member create the group again or leave it?
    Signing,        \* has the application set the signing key?
    Ageing          \* do sender keys reach the end of their seven days?

ASSUME BoundsAssumption ==
    /\ RotateAfter \in Nat /\ MaxSkipGroup \in Nat /\ MaxGroupSize \in Nat
    /\ MaxChains \in Nat /\ MaxSent \in Nat /\ MaxHanded \in Nat
    /\ MaxNumber \in Nat
    /\ MaxEpoch \in Nat

ASSUME SwitchAssumption ==
    Recreates \in BOOLEAN /\ Signing \in BOOLEAN /\ Ageing \in BOOLEAN

SenderKey == [chain : Nat, key_id : Nat, number : Nat]

GroupSession == [our : SenderKey, keys : [Members -> SenderKey \cup {None}],
                 members : SUBSET Members, epoch : Nat]

\* A ciphertext is its chain; "to" are the members its sender had in mind.
GroupMessage == [sender : Members, chain : Nat, key_id : Nat, number : Nat, epoch : Nat,
                 to : SUBSET Members]

Copy == [from : Members, to : Members, key : SenderKey]

ASSUME NoneAssumption == None \notin SenderKey /\ None \notin GroupSession

VARIABLES
    group,      \* each member's session
    chains,     \* number of chains made so far
    expired,    \* chains older than seven days
    sent,       \* messages sent
    handed,     \* copies of sender keys handed to members
    forgotten,  \* pairs of a member and one whose chain it has dropped
    wasted,     \* pairs of a member and a chain it moved on without opening
                \* a message
    opened,     \* messages a member has decrypted
    reopened    \* messages a member has decrypted twice

vars == <<group, chains, expired, sent, handed, forgotten, wasted, opened, reopened>>

network == <<sent, handed, forgotten, wasted, opened, reopened>>

-----------------------------------------------------------------------------
(* Sender keys *)

\* SenderKey::new
NewKey(id) == [chain |-> chains, key_id |-> id, number |-> 0]

\* Mutant: the id is not moved on.
Rotate_SameId(k) == NewKey(k.key_id)

\* SenderKey::rotate
Rotate(k) == NewKey(k.key_id + 1)

\* SenderKey::next_message_key, for a chain that has not expired.
Next_key(k) == [k EXCEPT !.number = @ + 1]

-----------------------------------------------------------------------------
(* A member's session *)

\* create_group: a session with a new sender key replaces any session there is.
CreateGroup(p) ==
    /\ Recreates \/ group[p] = None
    /\ chains < MaxChains
    /\ group' = [group EXCEPT ![p] = [our |-> NewKey(1), keys |-> [q \in Members |-> None],
                                      members |-> {}, epoch |-> 0]]
    /\ chains' = chains + 1
    /\ forgotten' = IF group[p] = None THEN forgotten ELSE forgotten \cup ({p} \X Members)
    /\ UNCHANGED <<expired, sent, handed, wasted, opened, reopened>>

\* leave_group and prune_inactive drop the session.
LeaveGroup(p) ==
    /\ Recreates
    /\ group[p] # None
    /\ group' = [group EXCEPT ![p] = None]
    /\ forgotten' = forgotten \cup ({p} \X Members)
    /\ UNCHANGED <<chains, expired, sent, handed, wasted, opened, reopened>>

AddMember(p, q) ==
    /\ group[p] # None
    /\ group[p].epoch < MaxEpoch
    /\ Cardinality(group[p].members) < MaxGroupSize
    /\ q \notin group[p].members
    /\ group' = [group EXCEPT ![p] = [our |-> @.our, keys |-> @.keys,
                                      members |-> @.members \cup {q}, epoch |-> @.epoch + 1]]
    /\ UNCHANGED <<chains, expired, network>>

\* Mutant: the key is not rotated.
RemoveMember_NoRotate(p, q) ==
    /\ group[p] # None
    /\ group[p].epoch < MaxEpoch
    /\ group' = [group EXCEPT ![p] = [@ EXCEPT !.members = @ \ {q}, !.keys[q] = None,
                                               !.epoch = @ + 1]]
    /\ UNCHANGED <<chains, expired, network>>

\* The member's key goes, the epoch moves on, and our key is rotated.
RemoveMember(p, q) ==
    /\ group[p] # None
    /\ group[p].epoch < MaxEpoch
    /\ chains < MaxChains
    /\ group' = [group EXCEPT ![p] = [our |-> Rotate(@.our), keys |-> [@.keys EXCEPT ![q] = None],
                                      members |-> @.members \ {q}, epoch |-> @.epoch + 1]]
    /\ chains' = chains + 1
    /\ forgotten' = forgotten \cup {<<p, q>>}
    /\ UNCHANGED <<expired, sent, handed, wasted, opened, reopened>>

\* The application hands a copy of our key to a member.
HandOver(p, q) ==
    /\ group[p] # None
    /\ q \in group[p].members
    /\ Cardinality(handed) < MaxHanded
    /\ handed' = handed \cup {[from |-> p, to |-> q, key |-> group[p].our]}
    /\ UNCHANGED <<group, chains, expired, sent, forgotten, wasted, opened, reopened>>

\* Mutant: the key id is not compared.
Importable_Any(k, existing) == k.chain \notin expired

\* import_sender_key: no expired key, and no key id that is not newer.
Importable(k, existing) ==
    /\ k.chain \notin expired
    /\ existing # None => k.key_id > existing.key_id

\* A copy may be imported whenever it arrives, again and again.
ImportSenderKey(c) ==
    /\ group[c.to] # None
    /\ Importable(c.key, group[c.to].keys[c.from])
    /\ group' = [group EXCEPT ![c.to].keys[c.from] = c.key]
    /\ UNCHANGED <<chains, expired, network>>

-----------------------------------------------------------------------------
(* Messages *)

NeedsRotation(k) == k.number > RotateAfter \/ k.chain \in expired

Encrypt(p) ==
    LET old == group[p].our
        key == IF NeedsRotation(old) THEN Rotate(old) ELSE old
    IN  /\ group[p] # None
        /\ Cardinality(sent) < MaxSent
        /\ NeedsRotation(old) => chains < MaxChains
        /\ chains' = IF NeedsRotation(old) THEN chains + 1 ELSE chains
        /\ group' = [group EXCEPT ![p].our = Next_key(key)]
        /\ sent' = sent \cup {[sender |-> p, chain |-> key.chain, key_id |-> key.key_id,
                               number |-> key.number, epoch |-> group[p].epoch,
                               to |-> group[p].members]}
        /\ UNCHANGED <<expired, handed, forgotten, wasted, opened, reopened>>

\* The checks of decrypt before a key is derived: epoch, signature, key id,
\* distance, expiry.
Accepts(r, m) ==
    LET k == group[r].keys[m.sender]
    IN  /\ m.epoch >= group[r].epoch
        /\ Signing
        /\ k # None
        /\ k.key_id = m.key_id
        /\ m.number <= k.number + MaxSkipGroup
        /\ k.chain \notin expired

\* Mutant: two keys are derived for a message.
Reached_Twice(k, m) ==
    [k EXCEPT !.number = (IF @ < m.number THEN m.number ELSE @) + 2]

\* The chain is moved on to the message's number and one beyond; a number
\* that is past moves it on as well.
Reached(k, m) ==
    [k EXCEPT !.number = (IF @ < m.number THEN m.number ELSE @) + 1]

Opens(k, m) == k.chain = m.chain /\ k.number <= m.number

\* What the network may offer to decrypt: a message of another member.
Arrives(r, m) == group[r] # None /\ m.sender # r

\* decrypt: the chain has moved on even when the ciphertext does not open.
Decrypt(r, m) ==
    LET k == group[r].keys[m.sender]
    IN  /\ Arrives(r, m)
        /\ Accepts(r, m)
        /\ k.number < MaxNumber
        /\ group' = [group EXCEPT ![r].keys[m.sender] = Reached(k, m)]
        /\ IF Opens(k, m)
           THEN /\ opened' = [opened EXCEPT ![r] = @ \cup {m}]
                /\ reopened' = [reopened EXCEPT ![r] = @ \cup ({m} \cap opened[r])]
                /\ UNCHANGED wasted
           ELSE /\ wasted' = wasted \cup {<<r, k.chain>>}
                /\ UNCHANGED <<opened, reopened>>
        /\ UNCHANGED <<chains, expired, sent, handed, forgotten>>

\* decrypt refuses the message and changes nothing.
DecryptRejects(r, m) ==
    /\ Arrives(r, m)
    /\ ~Accepts(r, m)
    /\ UNCHANGED vars

Expire(c) ==
    /\ Ageing
    /\ expired' = expired \cup {c}
    /\ UNCHANGED <<group, chains, network>>

-----------------------------------------------------------------------------

Init ==
    /\ group = [p \in Members |-> None]
    /\ chains = 0
    /\ expired = {}
    /\ sent = {} /\ handed = {} /\ forgotten = {} /\ wasted = {}
    /\ opened = [p \in Members |-> {}]
    /\ reopened = [p \in Members |-> {}]

Next ==
    \/ \E p \in Members : CreateGroup(p) \/ LeaveGroup(p) \/ Encrypt(p)
    \/ \E p \in Members : \E q \in Members \ {p} :
           AddMember(p, q) \/ RemoveMember(p, q) \/ HandOver(p, q)
    \/ \E c \in handed : ImportSenderKey(c)
    \/ \E r \in Members, m \in sent : Decrypt(r, m) \/ DecryptRejects(r, m)
    \/ \E c \in 0 .. chains - 1 : Expire(c)

Spec == Init /\ [][Next]_vars

-----------------------------------------------------------------------------
(* Properties *)

\* The types of the sessions and of what is on the network.
TypeOK ==
    /\ group \in [Members -> GroupSession \cup {None}]
    /\ chains \in Nat
    /\ expired \subseteq Nat
    /\ sent \subseteq GroupMessage
    /\ handed \subseteq Copy
    /\ forgotten \subseteq Members \X Members
    /\ wasted \subseteq Members \X Nat
    /\ opened \in [Members -> SUBSET sent]
    /\ reopened \in [Members -> SUBSET sent]

\* A member that was removed before a message was encrypted, or added after,
\* never gets a copy of the chain from which the message key can be derived,
\* however removals, rotations, additions and hand-overs follow each other.
OutsidersCannotRead ==
    \A m \in sent, c \in handed :
        c.key.chain = m.chain /\ c.key.number <= m.number => c.to \in m.to

\* A member that holds an earlier chain of another member is able to import
\* the current one: the key id has grown with every rotation, unless the
\* other has dropped its session and begun again with key id 1.
CurrentKeyImportable ==
    \A p \in Members, q \in Members :
        group[p] # None /\ group[q] # None /\ group[q].keys[p] # None =>
            \/ group[q].keys[p].chain = group[p].our.chain
            \/ group[q].keys[p].key_id < group[p].our.key_id
            \/ <<p, p>> \in forgotten

\* No group message is decrypted twice, however often it and the copies of its
\* sender's keys arrive, as long as the receiver has not removed its sender or
\* left the group and so forgotten the chain.
AtMostOnce ==
    \A r \in Members : \A m \in reopened[r] : <<r, m.sender>> \in forgotten

\* A message on the chain a receiver holds, of which it has opened neither
\* this message nor a later one, is not behind the receiver's position: its
\* key can still be derived, unless decrypt has been given a message that it
\* could not open, a repeated one for example, and has moved the chain on.
NotOverrun ==
    \A r \in Members, m \in sent :
        group[r] # None /\ group[r].keys[m.sender] # None =>
            LET k == group[r].keys[m.sender]
            IN  /\ k.chain = m.chain
                /\ <<r, m.chain>> \notin wasted
                /\ \A n \in opened[r] : n.chain = m.chain => n.number < m.number
                /\ \A c \in handed : c.to = r /\ c.key.chain = m.chain => c.key.number <= m.number
                => k.number <= m.number
=============================================================================
