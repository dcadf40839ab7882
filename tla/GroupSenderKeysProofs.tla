----------------------- MODULE GroupSenderKeysProofs -----------------------
(* Theorems about GroupSenderKeys, for any number of members, chains,       *)
(* messages and membership changes.                                        *)
EXTENDS GroupSenderKeys, TLAPS

\* A group starts without sessions and messages.
LEMMA InitType == Init => TypeOK
  BY DEF Init, TypeOK

\* A new sender key is one, and so is a rotated or advanced one.
LEMMA KeyType ==
    ASSUME chains \in Nat
    PROVE  /\ NewKey(1) \in SenderKey
           /\ \A k \in SenderKey : Rotate(k) \in SenderKey /\ Next_key(k) \in SenderKey
           /\ \A k \in SenderKey, m \in GroupMessage : Reached(k, m) \in SenderKey
  BY DEF NewKey, Rotate, Next_key, Reached, SenderKey, GroupMessage

\* A session after each kind of change is a session.
LEMMA SessionType ==
    ASSUME NEW s \in GroupSession
    PROVE  /\ \A k \in SenderKey : [s EXCEPT !.our = k] \in GroupSession
           /\ \A q \in Members, k \in SenderKey : [s EXCEPT !.keys[q] = k] \in GroupSession
  <1>1. ASSUME NEW k \in SenderKey PROVE [s EXCEPT !.our = k] \in GroupSession
    BY DEF GroupSession
  <1>2. ASSUME NEW q \in Members, NEW k \in SenderKey
        PROVE  [s EXCEPT !.keys[q] = k] \in GroupSession
    <2>1. [s EXCEPT !.keys[q] = k] = [s EXCEPT !.keys = [s.keys EXCEPT ![q] = k]]
      BY DEF GroupSession
    <2>2. [s.keys EXCEPT ![q] = k] \in [Members -> SenderKey \cup {None}]
      BY DEF GroupSession
    <2> QED
      BY <2>1, <2>2 DEF GroupSession
  <1> QED
    BY <1>1, <1>2

\* Every operation keeps the types.
LEMMA NextType == TypeOK /\ [Next]_vars => TypeOK'
  <1> SUFFICES ASSUME TypeOK, [Next]_vars PROVE TypeOK'
    OBVIOUS
  <1>0. /\ group \in [Members -> GroupSession \cup {None}]
        /\ chains \in Nat
        /\ sent \subseteq GroupMessage
        /\ handed \subseteq Copy
    BY DEF TypeOK
  <1> USE DEF network
  <1>1. ASSUME NEW p \in Members, CreateGroup(p) PROVE TypeOK'
    BY <1>1, KeyType DEF CreateGroup, TypeOK, GroupSession
  <1>2. ASSUME NEW p \in Members, LeaveGroup(p) PROVE TypeOK'
    BY <1>2 DEF LeaveGroup, TypeOK
  <1>3. ASSUME NEW p \in Members, Encrypt(p) PROVE TypeOK'
    <2> DEFINE old == group[p].our
               key == IF NeedsRotation(old) THEN Rotate(old) ELSE old
               m == [sender |-> p, chain |-> key.chain, key_id |-> key.key_id,
                     number |-> key.number, epoch |-> group[p].epoch,
                     to |-> group[p].members]
    <2>1. group[p] \in GroupSession /\ old \in SenderKey
      BY <1>0, <1>3 DEF Encrypt, GroupSession
    <2>2. key \in SenderKey /\ Next_key(key) \in SenderKey
      BY <1>0, <2>1, KeyType, Zenon
    <2>3. m \in GroupMessage
      BY <2>1, <2>2 DEF SenderKey, GroupSession, GroupMessage
    <2>4. group' = [group EXCEPT ![p] = [@ EXCEPT !.our = Next_key(key)]]
      BY <1>3 DEF Encrypt
    <2>5. group' \in [Members -> GroupSession \cup {None}]
      <3> HIDE DEF key
      <3> QED
        BY <1>0, <2>1, <2>2, <2>4, SessionType
    <2>6. sent' = sent \cup {m}
      BY <1>3 DEF Encrypt
    <2> HIDE DEF m
    <2>7. sent' \subseteq GroupMessage
      BY <1>0, <2>3, <2>6 DEF TypeOK
    <2>8. /\ chains' \in Nat /\ sent \subseteq sent'
          /\ UNCHANGED <<expired, handed, forgotten, wasted, opened, reopened>>
      <3>1. /\ chains' \in {chains, chains + 1}
            /\ UNCHANGED <<expired, handed, forgotten, wasted, opened, reopened>>
        BY <1>3 DEF Encrypt
      <3> QED
        BY <1>0, <2>6, <3>1 DEF TypeOK
    <2> QED
      BY <1>0, <2>5, <2>7, <2>8 DEF TypeOK
  <1>4. ASSUME NEW p \in Members, NEW q \in Members, AddMember(p, q) PROVE TypeOK'
    <2>1. group[p] \in GroupSession
      BY <1>0, <1>4 DEF AddMember
    <2> DEFINE s == [our |-> group[p].our, keys |-> group[p].keys,
                     members |-> group[p].members \cup {q}, epoch |-> group[p].epoch + 1]
    <2>2. s \in GroupSession
      BY <2>1 DEF GroupSession
    <2>3. group' = [group EXCEPT ![p] = s]
      BY <1>4 DEF AddMember
    <2>4. group' \in [Members -> GroupSession \cup {None}]
      <3> HIDE DEF s
      <3> QED
        BY <1>0, <2>2, <2>3
    <2> QED
      BY <1>4, <2>4 DEF AddMember, TypeOK
  <1>5. ASSUME NEW p \in Members, NEW q \in Members, RemoveMember(p, q) PROVE TypeOK'
    <2> DEFINE k == Rotate(group[p].our)
    <2>1. group[p] \in GroupSession /\ k \in SenderKey
      BY <1>0, <1>5, KeyType DEF RemoveMember, GroupSession
    <2> DEFINE s == [our |-> k, keys |-> [group[p].keys EXCEPT ![q] = None],
                     members |-> group[p].members \ {q}, epoch |-> group[p].epoch + 1]
    <2>2. group' = [group EXCEPT ![p] = s]
      BY <1>5 DEF RemoveMember
    <2>3. s \in GroupSession
      <3> HIDE DEF k
      <3> QED
        BY <2>1 DEF GroupSession
    <2>4. group' \in [Members -> GroupSession \cup {None}]
      <3> HIDE DEF s
      <3> QED
        BY <1>0, <2>2, <2>3, Zenon
    <2> QED
      BY <1>0, <1>5, <2>4 DEF RemoveMember, TypeOK
  <1>6. ASSUME NEW p \in Members, NEW q \in Members, HandOver(p, q) PROVE TypeOK'
    <2>1. group[p].our \in SenderKey
      BY <1>0, <1>6, Zenon DEF HandOver, GroupSession
    <2> QED
      BY <1>6, <2>1 DEF HandOver, TypeOK, Copy
  <1>7. ASSUME NEW c \in handed, ImportSenderKey(c) PROVE TypeOK'
    <2>1. c.to \in Members /\ c.from \in Members /\ c.key \in SenderKey
      BY <1>0 DEF Copy
    <2>2. group[c.to] \in GroupSession
      BY <1>0, <1>7, <2>1 DEF ImportSenderKey
    <2>3. group' = [group EXCEPT ![c.to] = [@ EXCEPT !.keys[c.from] = c.key]]
      BY <1>7 DEF ImportSenderKey
    <2>4. group' \in [Members -> GroupSession \cup {None}]
      BY <1>0, <2>1, <2>2, <2>3, SessionType, Zenon
    <2> QED
      BY <1>7, <2>4 DEF ImportSenderKey, TypeOK
  <1>8. ASSUME NEW r \in Members, NEW m \in sent, Decrypt(r, m) PROVE TypeOK'
    <2> DEFINE k == group[r].keys[m.sender]
    <2>1. group[r] \in GroupSession /\ m \in GroupMessage /\ m.sender \in Members
      BY <1>0, <1>8, ZenonT(60) DEF Decrypt, Arrives, GroupMessage
    <2>2. k \in SenderKey
      BY <2>1, <1>8 DEF Decrypt, Accepts, GroupSession
    <2>3. Reached(k, m) \in SenderKey
      BY <1>0, <2>1, <2>2, KeyType
    <2>4. group' = [group EXCEPT ![r] = [@ EXCEPT !.keys[m.sender] = Reached(k, m)]]
      BY <1>8 DEF Decrypt
    <2>5. group' \in [Members -> GroupSession \cup {None}]
      <3> DEFINE n == Reached(k, m)
      <3> HIDE DEF n
      <3> QED
        BY <1>0, <2>1, <2>3, <2>4, SessionType, Zenon DEF n
    <2>6. wasted' \subseteq Members \X Nat
      <3>1. k.chain \in Nat
        BY <2>2, Zenon DEF SenderKey
      <3>2. wasted' = wasted \/ wasted' = wasted \cup {<<r, k.chain>>}
        BY <1>8, Zenon DEF Decrypt
      <3> QED
        BY <3>1, <3>2 DEF TypeOK
    <2>7. opened' \in [Members -> SUBSET sent] /\ reopened' \in [Members -> SUBSET sent]
      BY <1>8 DEF Decrypt, TypeOK
    <2> QED
      BY <1>8, <2>5, <2>6, <2>7 DEF Decrypt, TypeOK
  <1>9. ASSUME NEW r \in Members, NEW m \in sent, DecryptRejects(r, m) PROVE TypeOK'
    BY <1>9 DEF DecryptRejects, vars, TypeOK
  <1>10. ASSUME NEW c \in 0 .. chains - 1, Expire(c) PROVE TypeOK'
    BY <1>0, <1>10 DEF Expire, TypeOK
  <1>11. CASE UNCHANGED vars
    BY <1>11 DEF vars, TypeOK
  <1> QED
    BY <1>1, <1>2, <1>3, <1>4, <1>5, <1>6, <1>7, <1>8, <1>9, <1>10, <1>11 DEF Next

\* The sessions, messages and copies of sender keys always have their types.
THEOREM TypeCorrect == Spec => []TypeOK
  BY InitType, NextType, PTL DEF Spec

-----------------------------------------------------------------------------
(* Who can read what *)

Live == {p \in Members : group[p] # None}

\* The inductive invariant behind OutsidersCannotRead: chains are not reused,
\* each has one owner, whose position is beyond every message sent on it, and
\* the owner of a chain in use has all holders of a copy in its member list.
SecretInv ==
    /\ TypeOK
    /\ \A p \in Live : group[p].our.chain < chains
    /\ \A p \in Live, q \in Live : group[p].our.chain = group[q].our.chain => p = q
    /\ \A m \in sent : m.chain < chains
    /\ \A c \in handed : c.key.chain < chains
    /\ \A p \in Live, m \in sent :
           m.chain = group[p].our.chain => m.number < group[p].our.number
    /\ \A p \in Live, c \in handed :
           c.key.chain = group[p].our.chain => c.to \in group[p].members
    /\ OutsidersCannotRead

\* Nobody has a session at first.
LEMMA SecretInit == Init => SecretInv
  BY InitType, ZenonT(60) DEF Init, SecretInv, Live, OutsidersCannotRead

\* A session whose chain, position and members stay, or lose nothing, keeps
\* the invariant.
LEMMA SecretKept ==
    ASSUME SecretInv, TypeOK', UNCHANGED <<sent, handed, chains>>,
           \A p \in Members : group'[p] # None =>
               /\ group[p] # None
               /\ group'[p].our = group[p].our
               /\ group[p].members \subseteq group'[p].members
    PROVE  SecretInv'
  <1>1. \A p \in Live' : /\ p \in Live
                         /\ group'[p].our = group[p].our
                         /\ group[p].members \subseteq group'[p].members
    BY Zenon DEF Live
  <1>2. OutsidersCannotRead'
    BY Zenon DEF SecretInv, OutsidersCannotRead
  <1>3. /\ \A p \in Live' : group'[p].our.chain < chains'
        /\ \A p \in Live', q \in Live' : group'[p].our.chain = group'[q].our.chain => p = q
    BY <1>1, ZenonT(60) DEF SecretInv
  <1>4. /\ \A p \in Live', m \in sent :
               m.chain = group'[p].our.chain => m.number < group'[p].our.number
        /\ \A p \in Live', c \in handed :
               c.key.chain = group'[p].our.chain => c.to \in group'[p].members
    BY <1>1, Zenon DEF SecretInv
  <1> QED
    BY <1>2, <1>3, <1>4, Zenon DEF SecretInv

\* A session that begins a chain of its own keeps the invariant.
LEMMA SecretFresh ==
    ASSUME SecretInv, TypeOK', UNCHANGED <<sent, handed>>, chains' = chains + 1,
           NEW p \in Members, group'[p] # None,
           group'[p].our.chain = chains,
           \A q \in Members \ {p} : group'[q] = group[q]
    PROVE  SecretInv'
  <1>1. chains \in Nat /\ sent \subseteq GroupMessage /\ handed \subseteq Copy
    BY Zenon DEF SecretInv, TypeOK
  <1>2. \A q \in Live' : q # p => q \in Live /\ group'[q] = group[q]
    BY Zenon DEF Live
  <1>3. /\ \A m \in sent : m.chain \in Nat
        /\ \A c \in handed : c.key.chain \in Nat
        /\ \A q \in Live : group[q].our.chain \in Nat
    BY <1>1, ZenonT(60) DEF GroupMessage, Copy, SenderKey, SecretInv, TypeOK, GroupSession, Live
  <1>4. OutsidersCannotRead'
    BY Zenon DEF SecretInv, OutsidersCannotRead
  <1>5. chains < chains' /\ \A n \in Nat : n < chains => n < chains' /\ n # chains
    BY <1>1
  <1>6. \A q \in Live' : q # p => group[q].our.chain # chains /\ group[q].our.chain < chains'
    BY <1>2, <1>3, <1>5, Zenon DEF SecretInv
  <1>7. /\ \A q \in Live' : group'[q].our.chain < chains'
        /\ \A q \in Live', r \in Live' : group'[q].our.chain = group'[r].our.chain => q = r
    BY <1>2, <1>5, <1>6, ZenonT(60) DEF SecretInv
  <1>8. /\ \A m \in sent : m.chain < chains' /\ m.chain # chains
        /\ \A c \in handed : c.key.chain < chains' /\ c.key.chain # chains
    BY <1>3, <1>5, Zenon DEF SecretInv
  <1>9. /\ \A q \in Live', m \in sent :
               m.chain = group'[q].our.chain => m.number < group'[q].our.number
        /\ \A q \in Live', c \in handed :
               c.key.chain = group'[q].our.chain => c.to \in group'[q].members
    BY <1>2, <1>8, Zenon DEF SecretInv
  <1> QED
    BY <1>4, <1>7, <1>8, <1>9, Zenon DEF SecretInv

\* Every operation keeps the invariant.
LEMMA SecretNext == SecretInv /\ [Next]_vars => SecretInv'
  <1> SUFFICES ASSUME SecretInv, [Next]_vars PROVE SecretInv'
    BY Zenon
  <1>0. TypeOK /\ TypeOK'
    BY NextType DEF SecretInv
  <1>a. /\ group \in [Members -> GroupSession \cup {None}]
        /\ chains \in Nat
        /\ sent \subseteq GroupMessage
        /\ handed \subseteq Copy
    BY <1>0, Zenon DEF TypeOK
  <1> USE DEF network
  <1>1. ASSUME NEW p \in Members, CreateGroup(p) PROVE SecretInv'
    <2>1. group'[p] # None
      BY <1>0, <1>a, <1>1, KeyType, NoneAssumption DEF CreateGroup, GroupSession
    <2>2. group'[p].our.chain = chains
      BY <1>a, <1>1, Zenon DEF CreateGroup, NewKey
    <2> QED
      BY <1>0, <1>a, <1>1, <2>1, <2>2, SecretFresh, Zenon DEF CreateGroup
  <1>2. ASSUME NEW p \in Members, LeaveGroup(p) PROVE SecretInv'
    <2>1. /\ UNCHANGED <<sent, handed, chains>>
          /\ \A r \in Members : group'[r] # None => group'[r] = group[r]
      BY <1>a, <1>2, Zenon DEF LeaveGroup
    <2> QED
      BY <1>0, <2>1, SecretKept, Zenon
  <1>3. ASSUME NEW p \in Members, NEW q \in Members, AddMember(p, q) PROVE SecretInv'
    <2>1. group[p] \in GroupSession
      BY <1>a, <1>3, Zenon DEF AddMember
    <2>2. /\ group'[p].our = group[p].our
          /\ group[p].members \subseteq group'[p].members
      BY <1>a, <1>3, <2>1, Zenon DEF AddMember, GroupSession
    <2>3. \A r \in Members : r # p => group'[r] = group[r]
      BY <1>a, <1>3, Zenon DEF AddMember
    <2>4. UNCHANGED <<sent, handed, chains>> /\ group[p] # None
      BY <1>3, Zenon DEF AddMember
    <2> QED
      BY <1>0, <2>2, <2>3, <2>4, SecretKept, Zenon
  <1>4. ASSUME NEW p \in Members, NEW q \in Members, RemoveMember(p, q) PROVE SecretInv'
    <2>1. group'[p].our = Rotate(group[p].our)
      BY <1>a, <1>4, Zenon DEF RemoveMember
    <2>2. group'[p].our.chain = chains
      BY <2>1 DEF Rotate, NewKey
    <2>3. group'[p] # None
      <3> DEFINE s == [our |-> Rotate(group[p].our), keys |-> [group[p].keys EXCEPT ![q] = None],
                       members |-> group[p].members \ {q}, epoch |-> group[p].epoch + 1]
      <3>1. group'[p] = s
        BY <1>a, <1>4, Zenon DEF RemoveMember
      <3>2. group[p] \in GroupSession /\ Rotate(group[p].our) \in SenderKey
        BY <1>a, <1>4, KeyType, Zenon DEF RemoveMember, GroupSession
      <3>3. s \in GroupSession
        BY <3>2 DEF GroupSession
      <3> QED
        BY <3>1, <3>3, NoneAssumption, Zenon
    <2> QED
      BY <1>0, <1>a, <1>4, <2>2, <2>3, SecretFresh, Zenon DEF RemoveMember
  <1>5. ASSUME NEW p \in Members, NEW q \in Members, HandOver(p, q) PROVE SecretInv'
    <2> DEFINE c == [from |-> p, to |-> q, key |-> group[p].our]
    <2>1. handed' = handed \cup {c} /\ UNCHANGED <<group, chains, sent>> /\ p \in Live
          /\ q \in group[p].members
      BY <1>5, Zenon DEF HandOver, Live
    <2>2. \A r \in Live : c.key.chain = group[r].our.chain => r = p
      BY <2>1, Zenon DEF SecretInv
    <2>3. \A m \in sent : c.key.chain = m.chain => ~(c.key.number <= m.number)
      <3>1. \A m \in sent : m.number \in Nat
        BY <1>a, Zenon DEF GroupMessage
      <3>2. group[p].our.number \in Nat
        BY <1>a, <2>1, Zenon DEF Live, GroupSession, SenderKey
      <3> QED
        <4>1. \A m \in sent : m.chain = group[p].our.chain => m.number < group[p].our.number
          BY <2>1, Zenon DEF SecretInv
        <4>2. c.key = group[p].our
          BY Zenon
        <4> HIDE DEF c
        <4> QED
          BY <3>1, <3>2, <4>1, <4>2
    <2>4. OutsidersCannotRead'
      BY <2>1, <2>3, ZenonT(60) DEF SecretInv, OutsidersCannotRead
    <2>5. Live' = Live
      BY <2>1, Zenon DEF Live
    <2>6. c.key.chain < chains /\ c.to \in group[p].members
      BY <2>1, Zenon DEF SecretInv
    <2> HIDE DEF c
    <2>7. /\ \A d \in handed' : d.key.chain < chains
          /\ \A r \in Live, d \in handed' :
                 d.key.chain = group[r].our.chain => d.to \in group[r].members
      BY <2>1, <2>2, <2>6, Zenon DEF SecretInv
    <2> QED
      BY <1>0, <2>1, <2>4, <2>5, <2>7, ZenonT(60) DEF SecretInv
  <1>6. ASSUME NEW c \in handed, ImportSenderKey(c) PROVE SecretInv'
    <2>1. c.to \in Members /\ c.from \in Members /\ group[c.to] \in GroupSession
      BY <1>a, <1>6, Zenon DEF ImportSenderKey, Copy
    <2>2. group' = [group EXCEPT ![c.to] = [@ EXCEPT !.keys[c.from] = c.key]]
      BY <1>6, Zenon DEF ImportSenderKey
    <2>3. group'[c.to].our = group[c.to].our /\ group'[c.to].members = group[c.to].members
      BY <1>a, <2>1, <2>2 DEF GroupSession
    <2>4. \A r \in Members : r # c.to => group'[r] = group[r]
      BY <1>a, <2>2
    <2> QED
      <3>1. UNCHANGED <<sent, handed, chains>> /\ group[c.to] # None
        BY <1>6, Zenon DEF ImportSenderKey
      <3> QED
        BY <1>0, <2>3, <2>4, <3>1, SecretKept, Zenon
  <1>7. ASSUME NEW r \in Members, NEW m \in sent, Decrypt(r, m) PROVE SecretInv'
    <2>1. group[r] \in GroupSession
      BY <1>a, <1>7 DEF Decrypt, Arrives
    <2>2. PICK k : group' = [group EXCEPT ![r] = [@ EXCEPT !.keys[m.sender] = k]]
      BY <1>7, Zenon DEF Decrypt
    <2>3. group'[r].our = group[r].our /\ group'[r].members = group[r].members
      BY <1>a, <2>1, <2>2 DEF GroupSession
    <2>4. \A q \in Members : q # r => group'[q] = group[q]
      BY <1>a, <2>2
    <2> QED
      <3>1. UNCHANGED <<sent, handed, chains>> /\ group[r] # None
        BY <1>7, Zenon DEF Decrypt, Arrives
      <3> QED
        BY <1>0, <2>3, <2>4, <3>1, SecretKept, Zenon
  <1>8. ASSUME NEW p \in Members, Encrypt(p) PROVE SecretInv'
    <2> DEFINE old == group[p].our
               key == IF NeedsRotation(old) THEN Rotate(old) ELSE old
               m == [sender |-> p, chain |-> key.chain, key_id |-> key.key_id,
                     number |-> key.number, epoch |-> group[p].epoch,
                     to |-> group[p].members]
    <2>1. /\ p \in Live
          /\ group[p] \in GroupSession
          /\ old \in SenderKey
      BY <1>a, <1>8, Zenon DEF Encrypt, GroupSession, Live
    <2>2. key \in SenderKey
      BY <1>a, <2>1, KeyType, Zenon
    <2>3. /\ group' = [group EXCEPT ![p] = [@ EXCEPT !.our = Next_key(key)]]
          /\ sent' = sent \cup {m}
          /\ handed' = handed
      BY <1>8, Zenon DEF Encrypt
    <2>4. \/ /\ key = old
             /\ chains' = chains
          \/ /\ key.chain = chains
             /\ key.number = 0
             /\ chains' = chains + 1
      BY <1>8, Zenon DEF Encrypt, Rotate, NewKey
    <2>5. /\ m.chain = key.chain
          /\ m.number = key.number
          /\ m.to = group[p].members
      BY Zenon
    <2> HIDE DEF key, m
    <2>6. /\ group'[p].our.chain = key.chain
          /\ group'[p].our.number = key.number + 1
          /\ group'[p].members = group[p].members
      BY <1>a, <2>1, <2>2, <2>3 DEF Next_key, GroupSession, SenderKey
    <2>7. \A q \in Members : q # p => group'[q] = group[q]
      BY <1>a, <2>3, Zenon
    <2>8. \A q \in Live' : q \in Live
      BY <2>1, <2>7, Zenon DEF Live
    <2>9. /\ \A n \in sent : n.chain \in Nat /\ n.number \in Nat
          /\ \A c \in handed : c.key.chain \in Nat /\ c.key.number \in Nat
          /\ \A q \in Live : group[q].our.chain \in Nat /\ group[q].our.number \in Nat
          /\ key.chain \in Nat /\ key.number \in Nat
      BY <1>a, <2>2, Zenon DEF GroupMessage, Copy, SenderKey, GroupSession, Live
    <2>10. /\ \A n \in sent : n.chain = key.chain => n.number < key.number
           /\ \A c \in handed : c.key.chain = key.chain => c.to \in group[p].members
           /\ \A q \in Live : q # p => group[q].our.chain # key.chain
           /\ key.chain < chains'
      BY <1>a, <2>1, <2>4, <2>9 DEF SecretInv
    <2>11. OutsidersCannotRead'
      BY <2>3, <2>5, <2>10, ZenonT(60) DEF SecretInv, OutsidersCannotRead
    <2>12. chains' >= chains /\ chains' \in Nat
      BY <1>a, <2>4
    <2>a. \A i \in Nat : i < chains => i < chains'
      BY <1>a, <2>12
    <2>b. \A q \in Live' : q # p => q \in Live /\ group'[q] = group[q]
      BY <2>7, <2>8, Zenon DEF Live
    <2>13. /\ \A q \in Live' : group'[q].our.chain < chains'
           /\ \A q \in Live', r \in Live' :
                  group'[q].our.chain = group'[r].our.chain => q = r
      <3>1. \A q \in Live : group[q].our.chain < chains'
        BY <2>9, <2>a, Zenon DEF SecretInv
      <3>2. \A q \in Live, r \in Live : group[q].our.chain = group[r].our.chain => q = r
        BY Zenon DEF SecretInv
      <3>3. \A q \in Live' : q # p => group'[q].our.chain # key.chain
        BY <2>10, <2>b, Zenon
      <3> QED
        BY <2>6, <2>10, <2>b, <3>1, <3>2, <3>3, ZenonT(120)
    <2>14. /\ \A n \in sent' : n.chain < chains'
           /\ \A c \in handed' : c.key.chain < chains'
      BY <2>3, <2>5, <2>9, <2>10, <2>a, Zenon DEF SecretInv
    <2>15. \A q \in Live', n \in sent' :
              n.chain = group'[q].our.chain => n.number < group'[q].our.number
      <3>1. \A n \in sent' : n.chain = key.chain => n.number < key.number + 1
        <4>1. \A n \in sent : n.chain = key.chain => n.number < key.number + 1
          BY <2>9, <2>10
        <4>2. key.number < key.number + 1
          BY <2>9
        <4> QED
          BY <2>3, <2>5, <4>1, <4>2, Zenon
      <3>2. ASSUME NEW q \in Live', q # p, NEW n \in sent', n.chain = group'[q].our.chain
            PROVE  n.number < group'[q].our.number
        <4>1. q \in Live /\ group'[q] = group[q] /\ n \in sent
          BY <2>3, <2>5, <2>10, <2>b, <3>2, ZenonT(60)
        <4> QED
          BY <3>2, <4>1, Zenon DEF SecretInv
      <3> QED
        BY <2>6, <3>1, <3>2, Zenon
    <2>16. \A q \in Live', c \in handed' :
              c.key.chain = group'[q].our.chain => c.to \in group'[q].members
      BY <2>3, <2>6, <2>10, <2>b, ZenonT(60) DEF SecretInv
    <2> QED
      BY <1>0, <2>11, <2>13, <2>14, <2>15, <2>16, Zenon DEF SecretInv
  <1>9. CASE UNCHANGED <<group, chains, sent, handed>>
    BY <1>0, <1>9, SecretKept, Zenon
  <1>10. ASSUME NEW r \in Members, NEW m \in sent, DecryptRejects(r, m) PROVE SecretInv'
    BY <1>9, <1>10, Zenon DEF DecryptRejects, vars
  <1>11. ASSUME NEW c \in 0 .. chains - 1, Expire(c) PROVE SecretInv'
    BY <1>9, <1>11, Zenon DEF Expire
  <1>12. CASE UNCHANGED vars
    BY <1>9, <1>12, Zenon DEF vars
  <1> QED
    BY <1>1, <1>2, <1>3, <1>4, <1>5, <1>6, <1>7, <1>8, <1>10, <1>11, <1>12, Zenon DEF Next

\* A message can be read by those only who were members when it was encrypted:
\* no member removed before, and none added after, is ever handed a copy of
\* the chain from which its key can be derived.
THEOREM Secrecy == Spec => []OutsidersCannotRead
  <1>1. SecretInv => OutsidersCannotRead
    BY Zenon DEF SecretInv
  <1> QED
    BY <1>1, SecretInit, SecretNext, PTL DEF Spec

-----------------------------------------------------------------------------
(* Key ids and positions *)

\* The chain, key id and owner of every key in use, of every message and of
\* every copy handed over.
Marks ==
    {<<group[p].our.chain, group[p].our.key_id, p>> : p \in Live}
    \cup {<<m.chain, m.key_id, m.sender>> : m \in sent}
    \cup {<<c.key.chain, c.key.key_id, c.from>> : c \in handed}

\* A chain has one key id and one owner.
OneIdPerChain ==
    /\ \A x \in Marks : x[1] < chains
    /\ \A x \in Marks, y \in Marks : x[1] = y[1] => x = y

\* r holds a copy of a chain of p.
Holds(r, p) == group[r] # None /\ group[r].keys[p] # None

\* Every copy that is held was handed over.
HeldAsHanded ==
    \A r \in Members, p \in Members : Holds(r, p) =>
        \E c \in handed : /\ c.from = p
                          /\ c.key.chain = group[r].keys[p].chain
                          /\ c.key.key_id = group[r].keys[p].key_id

\* A copy is of its owner's chain in use or has a smaller key id than that.
IdsGrow ==
    \A c \in handed :
        \/ <<c.from, c.from>> \in forgotten
        \/ /\ group[c.from] # None
           /\ \/ c.key.key_id < group[c.from].our.key_id
              \/ c.key.chain = group[c.from].our.chain

\* The copy from which a message was opened has moved beyond it, or a copy with
\* a greater key id has replaced it.
OpenedBehind ==
    \A r \in Members : \A m \in opened[r] :
        \/ <<r, m.sender>> \in forgotten
        \/ /\ Holds(r, m.sender)
           /\ group[r].keys[m.sender].key_id >= m.key_id
           /\ group[r].keys[m.sender].chain = m.chain =>
                  m.number < group[r].keys[m.sender].number

\* A copy that has not been moved on in vain is as it was handed over, or just
\* beyond a message that was opened.
HeldPosition ==
    \A r \in Members, p \in Members : Holds(r, p) =>
        LET k == group[r].keys[p]
        IN  \/ <<r, k.chain>> \in wasted
            \/ \E c \in handed : c.to = r /\ c.key = k
            \/ \E n \in opened[r] : n.chain = k.chain /\ k.number = n.number + 1

\* The part of the invariant that is about the copies members hold.
HeldInv == HeldAsHanded /\ OpenedBehind /\ AtMostOnce /\ HeldPosition

\* The inductive invariant behind CurrentKeyImportable, AtMostOnce and
\* NotOverrun.
ChainInv == TypeOK /\ OneIdPerChain /\ IdsGrow /\ HeldInv

\* At first there are no chains.
LEMMA ChainInit == Init => ChainInv
  BY InitType DEF Init, ChainInv, HeldInv, OneIdPerChain, Marks, Live, HeldAsHanded, IdsGrow,
                  OpenedBehind, AtMostOnce, HeldPosition, Holds

\* The invariant says what the properties promise.
LEMMA ChainSays == ChainInv => CurrentKeyImportable /\ AtMostOnce /\ NotOverrun
  <1> SUFFICES ASSUME ChainInv PROVE CurrentKeyImportable /\ NotOverrun
    BY DEF ChainInv, HeldInv
  <1>1. CurrentKeyImportable
    BY DEF ChainInv, HeldInv, HeldAsHanded, IdsGrow, CurrentKeyImportable, Holds
  <1>2. NotOverrun
    <2> SUFFICES ASSUME NEW r \in Members, NEW m \in sent,
                        Holds(r, m.sender),
                        group[r].keys[m.sender].chain = m.chain,
                        <<r, m.chain>> \notin wasted,
                        \A n \in opened[r] : n.chain = m.chain => n.number < m.number,
                        \A c \in handed : c.to = r /\ c.key.chain = m.chain =>
                                              c.key.number <= m.number
                 PROVE  group[r].keys[m.sender].number <= m.number
      BY ZenonT(60) DEF NotOverrun, Holds
    <2>1. m \in GroupMessage /\ m.sender \in Members /\ m.number \in Nat
      BY DEF ChainInv, TypeOK, GroupMessage
    <2>2. opened[r] \subseteq GroupMessage
      BY Zenon DEF ChainInv, TypeOK
    <2>3. \/ \E c \in handed : c.to = r /\ c.key = group[r].keys[m.sender]
          \/ \E n \in opened[r] : /\ n.chain = m.chain
                                  /\ group[r].keys[m.sender].number = n.number + 1
      BY <2>1, ZenonT(120) DEF ChainInv, HeldInv, HeldPosition
    <2>4. \A n \in opened[r] : n.number \in Nat
      BY <2>2, Zenon DEF GroupMessage
    <2> QED
      BY <2>1, <2>3, <2>4
  <1> QED
    BY <1>1, <1>2, Zenon

\* The first part of a mark is the number of a chain.
LEMMA MarkType ==
    ASSUME TypeOK
    PROVE  \A x \in Marks : x[1] \in Nat
  <1>1. \A p \in Live : group[p].our.chain \in Nat
    BY Zenon DEF TypeOK, Live, GroupSession, SenderKey
  <1>2. \A m \in sent : m.chain \in Nat
    BY Zenon DEF TypeOK, GroupMessage
  <1>3. \A c \in handed : c.key.chain \in Nat
    BY Zenon DEF TypeOK, Copy, SenderKey
  <1> QED
    BY <1>1, <1>2, <1>3 DEF Marks

\* Without a new mark a chain keeps its id and owner.
LEMMA MarksKept ==
    ASSUME OneIdPerChain, UNCHANGED chains, Marks' \subseteq Marks
    PROVE  OneIdPerChain'
  BY Zenon DEF OneIdPerChain

\* SenderKey::new and rotate begin a chain that no mark has.
LEMMA MarksFresh ==
    ASSUME TypeOK, OneIdPerChain, chains' = chains + 1,
           NEW x, x[1] = chains, Marks' \subseteq Marks \cup {x}
    PROVE  OneIdPerChain'
  <1>1. /\ \A y \in Marks : y[1] \in Nat /\ y[1] < chains
        /\ chains \in Nat
    BY MarkType, Zenon DEF OneIdPerChain, TypeOK
  <1>2. chains < chains' /\ \A n \in Nat : n < chains => n < chains' /\ n # chains
    BY <1>1
  <1>3. \A y \in Marks : y[1] < chains' /\ y[1] # chains
    BY <1>1, <1>2, Zenon
  <1>4. \A y \in Marks' : y \in Marks \/ y = x
    BY Zenon
  <1> QED
    BY <1>2, <1>3, <1>4, Zenon DEF OneIdPerChain

\* What r holds of p is not changed by the step.
Keeps(r, p) ==
    /\ Holds(r, p)' <=> Holds(r, p)
    /\ Holds(r, p) => group'[r].keys[p] = group[r].keys[p]

\* r holds nothing of p after the step and has noted that it forgot it.
Forgets(r, p) ==
    /\ ~Holds(r, p)'
    /\ Holds(r, p) => <<r, p>> \in forgotten'

\* A step that only hands over, or drops what it notes as forgotten, keeps the
\* part about copies.
LEMMA HeldFrame ==
    ASSUME TypeOK, HeldInv, handed \subseteq handed', forgotten \subseteq forgotten',
           UNCHANGED <<wasted, opened, reopened>>,
           \A r \in Members, p \in Members : Keeps(r, p) \/ Forgets(r, p)
    PROVE  HeldInv'
  <1>1. HeldAsHanded'
    <2> SUFFICES ASSUME NEW r \in Members, NEW p \in Members, Holds(r, p)'
                 PROVE  \E c \in handed' : /\ c.from = p
                                          /\ c.key.chain = group'[r].keys[p].chain
                                          /\ c.key.key_id = group'[r].keys[p].key_id
      BY ZenonT(60) DEF HeldAsHanded
    <2>1. Keeps(r, p)
      BY Zenon DEF Forgets
    <2>2. Holds(r, p) /\ group'[r].keys[p] = group[r].keys[p]
      BY <2>1, Zenon DEF Keeps
    <2>3. \E c \in handed : /\ c.from = p
                            /\ c.key.chain = group[r].keys[p].chain
                            /\ c.key.key_id = group[r].keys[p].key_id
      BY <2>2, Zenon DEF HeldInv, HeldAsHanded
    <2> QED
      BY <2>2, <2>3, Zenon
  <1>2. OpenedBehind'
    <2> SUFFICES ASSUME NEW r \in Members, NEW m \in opened[r],
                        <<r, m.sender>> \notin forgotten'
                 PROVE  /\ Holds(r, m.sender)'
                        /\ group'[r].keys[m.sender].key_id >= m.key_id
                        /\ group'[r].keys[m.sender].chain = m.chain =>
                               m.number < group'[r].keys[m.sender].number
      BY Zenon DEF OpenedBehind
    <2>1. m.sender \in Members
      <3>1. opened \in [Members -> SUBSET sent] /\ sent \subseteq GroupMessage
        BY Zenon DEF TypeOK
      <3>2. m \in GroupMessage
        BY <3>1, Zenon
      <3> QED
        BY <3>2, Zenon DEF GroupMessage
    <2>2. /\ Holds(r, m.sender)
          /\ group[r].keys[m.sender].key_id >= m.key_id
          /\ group[r].keys[m.sender].chain = m.chain =>
                 m.number < group[r].keys[m.sender].number
      BY Zenon DEF HeldInv, OpenedBehind
    <2>3. Keeps(r, m.sender)
      BY <2>1, <2>2, Zenon DEF Forgets
    <2> QED
      BY <2>2, <2>3, Zenon DEF Keeps
  <1>3. AtMostOnce'
    BY Zenon DEF HeldInv, AtMostOnce
  <1>4. HeldPosition'
    <2> SUFFICES ASSUME NEW r \in Members, NEW p \in Members, Holds(r, p)'
                 PROVE  LET k == group'[r].keys[p]
                        IN  \/ <<r, k.chain>> \in wasted'
                            \/ \E c \in handed' : c.to = r /\ c.key = k
                            \/ \E n \in opened'[r] : n.chain = k.chain /\ k.number = n.number + 1
      BY Zenon DEF HeldPosition
    <2>1. Keeps(r, p)
      BY Zenon DEF Forgets
    <2>2. Holds(r, p) /\ group'[r].keys[p] = group[r].keys[p]
      BY <2>1, Zenon DEF Keeps
    <2>3. LET k == group[r].keys[p]
          IN  \/ <<r, k.chain>> \in wasted
              \/ \E c \in handed : c.to = r /\ c.key = k
              \/ \E n \in opened[r] : n.chain = k.chain /\ k.number = n.number + 1
      BY <2>2, Zenon DEF HeldInv, HeldPosition
    <2> QED
      BY <2>2, <2>3, Zenon
  <1> QED
    BY <1>1, <1>2, <1>3, <1>4, Zenon DEF HeldInv

\* A session that keeps its key, or rotates it to a greater key id, keeps the
\* order of the key ids; a new session does not need to.
LEMMA IdsFrame ==
    ASSUME TypeOK, OneIdPerChain, IdsGrow, UNCHANGED handed, forgotten \subseteq forgotten',
           \A p \in Members :
               \/ <<p, p>> \in forgotten'
               \/ group[p] = None
               \/ /\ group'[p] # None
                  /\ \/ /\ group'[p].our.chain = group[p].our.chain
                        /\ group'[p].our.key_id = group[p].our.key_id
                     \/ group'[p].our.key_id = group[p].our.key_id + 1
    PROVE  IdsGrow'
  <1> SUFFICES ASSUME NEW c \in handed, <<c.from, c.from>> \notin forgotten'
               PROVE  /\ group'[c.from] # None
                      /\ \/ c.key.key_id < group'[c.from].our.key_id
                         \/ c.key.chain = group'[c.from].our.chain
    BY Zenon DEF IdsGrow
  <1>1. c.from \in Members /\ c.key.key_id \in Nat
    BY DEF TypeOK, Copy, SenderKey
  <1>2. /\ group[c.from] # None
        /\ \/ c.key.key_id < group[c.from].our.key_id
           \/ c.key.chain = group[c.from].our.chain
    BY DEF IdsGrow
  <1>3. group[c.from].our.key_id \in Nat
    BY <1>1, <1>2, Zenon DEF TypeOK, GroupSession, SenderKey
  <1>4. c.key.chain = group[c.from].our.chain => c.key.key_id = group[c.from].our.key_id
    <2>1. /\ <<c.key.chain, c.key.key_id, c.from>> \in Marks
          /\ <<group[c.from].our.chain, group[c.from].our.key_id, c.from>> \in Marks
      BY <1>1, <1>2, Zenon DEF Marks, Live
    <2> QED
      BY <2>1, Zenon DEF OneIdPerChain
  <1> QED
    BY <1>1, <1>2, <1>3, <1>4

\* create_group begins a chain with key id 1 and drops all copies.
LEMMA ChainCreate ==
    ASSUME ChainInv, TypeOK', NEW p \in Members, CreateGroup(p)
    PROVE  ChainInv'
  <1>0. /\ TypeOK /\ group \in [Members -> GroupSession \cup {None}]
        /\ OneIdPerChain /\ IdsGrow /\ HeldInv
    BY Zenon DEF ChainInv, TypeOK
  <1>1. /\ group'[p].our.chain = chains
        /\ group'[p].our.key_id = 1
        /\ \A q \in Members : group'[p].keys[q] = None
        /\ \A r \in Members : r # p => group'[r] = group[r]
    BY <1>0, Zenon DEF CreateGroup, NewKey
  <1>2. /\ chains' = chains + 1
        /\ forgotten \subseteq forgotten'
        /\ group[p] # None => \A q \in Members : <<p, q>> \in forgotten'
        /\ UNCHANGED <<sent, handed, wasted, opened, reopened>>
    BY DEF CreateGroup
  <1>3. OneIdPerChain'
    <2>1. Marks' \subseteq Marks \cup {<<chains, 1, p>>}
      BY <1>1, <1>2, ZenonT(60) DEF Marks, Live
    <2> QED
      BY <1>0, <1>2, <2>1, MarksFresh, Zenon
  <1>4. HeldInv'
    <2>1. \A q \in Members : Forgets(p, q)
      BY <1>1, <1>2, Zenon DEF Forgets, Holds
    <2>2. \A r \in Members, q \in Members : r # p => Keeps(r, q)
      BY <1>1, Zenon DEF Keeps, Holds
    <2> QED
      BY <1>0, <1>2, <2>1, <2>2, HeldFrame, Zenon
  <1>5. IdsGrow'
    BY <1>0, <1>1, <1>2, IdsFrame, Zenon
  <1> QED
    BY <1>3, <1>4, <1>5 DEF ChainInv

\* leave_group drops our key and all copies.
LEMMA ChainLeave ==
    ASSUME ChainInv, TypeOK', NEW p \in Members, LeaveGroup(p)
    PROVE  ChainInv'
  <1>0. /\ TypeOK /\ group \in [Members -> GroupSession \cup {None}] /\ chains \in Nat
        /\ OneIdPerChain /\ IdsGrow /\ HeldInv
    BY DEF ChainInv, TypeOK
  <1>1. /\ group'[p] = None
        /\ \A r \in Members : r # p => group'[r] = group[r]
        /\ chains' = chains
        /\ forgotten \subseteq forgotten'
        /\ \A q \in Members : <<p, q>> \in forgotten'
        /\ UNCHANGED <<sent, handed, wasted, opened, reopened>>
    BY <1>0 DEF LeaveGroup
  <1>3. OneIdPerChain'
    <2>1. Marks' \subseteq Marks
      BY <1>1 DEF Marks, Live
    <2> QED
      BY <1>0, <1>1, <2>1, MarksKept, Zenon
  <1>4. HeldInv'
    <2>1. \A q \in Members : Forgets(p, q)
      BY <1>1, Zenon DEF Forgets, Holds
    <2>2. \A r \in Members, q \in Members : r # p => Keeps(r, q)
      BY <1>1, Zenon DEF Keeps, Holds
    <2> QED
      BY <1>0, <1>1, <2>1, <2>2, HeldFrame, Zenon
  <1>5. IdsGrow'
    BY <1>0, <1>1, IdsFrame
  <1> QED
    BY <1>3, <1>4, <1>5, Zenon DEF ChainInv

\* add_member leaves every key alone.
LEMMA ChainAdd ==
    ASSUME ChainInv, TypeOK', NEW p \in Members, NEW q \in Members, AddMember(p, q)
    PROVE  ChainInv'
  <1>0. /\ TypeOK /\ group \in [Members -> GroupSession \cup {None}] /\ chains \in Nat
        /\ OneIdPerChain /\ IdsGrow /\ HeldInv
    BY Zenon DEF ChainInv, TypeOK
  <1>1. /\ group[p] # None /\ group[p] \in GroupSession
        /\ chains' = chains
        /\ UNCHANGED <<sent, handed, forgotten, wasted, opened, reopened>>
    BY <1>0, Zenon DEF AddMember, network
  <1>2. /\ group'[p].our = group[p].our
        /\ group'[p].keys = group[p].keys
        /\ \A r \in Members : r # p => group'[r] = group[r]
    BY <1>0, <1>1 DEF AddMember
  <1>3. group'[p] # None
    <2> DEFINE s == [our |-> group[p].our, keys |-> group[p].keys,
                     members |-> group[p].members \cup {q}, epoch |-> group[p].epoch + 1]
    <2>1. s \in GroupSession
      BY <1>1 DEF GroupSession
    <2>2. group'[p] = s
      BY <1>0 DEF AddMember
    <2> QED
      BY <2>1, <2>2, NoneAssumption, Zenon
  <1>4. OneIdPerChain'
    <2>1. Marks' \subseteq Marks
      BY <1>1, <1>2, ZenonT(60) DEF Marks, Live
    <2> QED
      BY <1>0, <1>1, <2>1, MarksKept, Zenon
  <1>5. HeldInv'
    <2>1. \A r \in Members, x \in Members : Keeps(r, x)
      BY <1>1, <1>2, <1>3, Zenon DEF Keeps, Holds
    <2> QED
      BY <1>0, <1>1, <2>1, HeldFrame, Zenon
  <1>6. IdsGrow'
    BY <1>0, <1>1, <1>2, <1>3, IdsFrame, Zenon
  <1> QED
    BY <1>4, <1>5, <1>6, Zenon DEF ChainInv

\* remove_member rotates our key and drops the copy of the one that goes.
LEMMA ChainRemove ==
    ASSUME ChainInv, TypeOK', NEW p \in Members, NEW q \in Members, RemoveMember(p, q)
    PROVE  ChainInv'
  <1>0. /\ TypeOK /\ group \in [Members -> GroupSession \cup {None}] /\ chains \in Nat
        /\ OneIdPerChain /\ IdsGrow /\ HeldInv
    BY Zenon DEF ChainInv, TypeOK
  <1>1. /\ group[p] # None /\ group[p] \in GroupSession
        /\ chains' = chains + 1
        /\ forgotten' = forgotten \cup {<<p, q>>}
        /\ UNCHANGED <<sent, handed, wasted, opened, reopened>>
    BY <1>0 DEF RemoveMember
  <1>2. /\ group'[p].our = Rotate(group[p].our)
        /\ group'[p].keys = [group[p].keys EXCEPT ![q] = None]
        /\ \A r \in Members : r # p => group'[r] = group[r]
    BY <1>0, <1>1, Zenon DEF RemoveMember
  <1>3. group'[p].our.chain = chains /\ group'[p].our.key_id = group[p].our.key_id + 1
    BY <1>2 DEF Rotate, NewKey
  <1>4. /\ group'[p].keys[q] = None
        /\ \A x \in Members : x # q => group'[p].keys[x] = group[p].keys[x]
    BY <1>1, <1>2, Zenon DEF GroupSession
  <1>5. group'[p] # None
    <2> DEFINE s == [our |-> Rotate(group[p].our), keys |-> [group[p].keys EXCEPT ![q] = None],
                     members |-> group[p].members \ {q}, epoch |-> group[p].epoch + 1]
    <2>1. group[p].our \in SenderKey
      BY <1>1 DEF GroupSession
    <2>2. Rotate(group[p].our) \in SenderKey
      BY <1>0, <2>1, KeyType, Zenon
    <2>3. s \in GroupSession
      BY <1>1, <2>2 DEF GroupSession
    <2>4. group'[p] = s
      BY <1>0 DEF RemoveMember
    <2> QED
      BY <2>3, <2>4, NoneAssumption, Zenon
  <1>6. OneIdPerChain'
    <2>1. Marks' \subseteq Marks \cup {<<chains, group[p].our.key_id + 1, p>>}
      BY <1>1, <1>2, <1>3 DEF Marks, Live
    <2> QED
      BY <1>0, <1>1, <2>1, MarksFresh, ZenonT(60)
  <1>7. HeldInv'
    <2>1. \A r \in Members, x \in Members : r # p => Keeps(r, x)
      BY <1>2, Zenon DEF Keeps, Holds
    <2>2. \A x \in Members : x # q => Keeps(p, x)
      BY <1>1, <1>4, <1>5 DEF Keeps, Holds
    <2>3. Forgets(p, q)
      BY <1>1, <1>4, Zenon DEF Forgets, Holds
    <2> QED
      BY <1>0, <1>1, <2>1, <2>2, <2>3, HeldFrame, Zenon
  <1>8. IdsGrow'
    <2>1. forgotten \subseteq forgotten'
      BY <1>1
    <2> QED
      BY <1>0, <1>1, <1>2, <1>3, <1>5, <2>1, IdsFrame
  <1> QED
    BY <1>6, <1>7, <1>8, Zenon DEF ChainInv

\* A copy that is handed over has its owner's chain and key id.
LEMMA ChainHandOver ==
    ASSUME ChainInv, TypeOK', NEW p \in Members, NEW q \in Members, HandOver(p, q)
    PROVE  ChainInv'
  <1>0. /\ TypeOK /\ chains \in Nat
        /\ OneIdPerChain /\ IdsGrow /\ HeldInv
    BY Zenon DEF ChainInv, TypeOK
  <1> DEFINE c == [from |-> p, to |-> q, key |-> group[p].our]
  <1>1. /\ group[p] # None
        /\ handed' = handed \cup {c}
        /\ UNCHANGED <<group, chains, sent, forgotten, wasted, opened, reopened>>
    BY DEF HandOver
  <1>2. c.from = p /\ c.key = group[p].our
    OBVIOUS
  <1> HIDE DEF c
  <1>3. OneIdPerChain'
    <2>1. Marks' \subseteq Marks
      BY <1>1, <1>2 DEF Marks, Live
    <2> QED
      BY <1>0, <1>1, <2>1, MarksKept, Zenon
  <1>4. HeldInv'
    <2>1. \A r \in Members, x \in Members : Keeps(r, x)
      BY <1>1, Zenon DEF Keeps, Holds
    <2> QED
      BY <1>0, <1>1, <2>1, HeldFrame, Zenon
  <1>5. IdsGrow'
    BY <1>0, <1>1, <1>2, Zenon DEF IdsGrow
  <1> QED
    BY <1>3, <1>4, <1>5, Zenon DEF ChainInv

\* import_sender_key takes a copy with a greater key id than the one it has, so
\* never a chain again that a message was opened from.
LEMMA ChainImport ==
    ASSUME ChainInv, TypeOK', NEW c \in handed, ImportSenderKey(c)
    PROVE  ChainInv'
  <1>0. /\ TypeOK /\ group \in [Members -> GroupSession \cup {None}] /\ chains \in Nat
        /\ OneIdPerChain /\ IdsGrow /\ HeldInv
    BY Zenon DEF ChainInv, TypeOK
  <1>1. /\ c.to \in Members /\ c.from \in Members
        /\ c.key \in SenderKey /\ c.key.key_id \in Nat
    BY <1>0, Zenon DEF TypeOK, Copy, SenderKey
  <1>2. /\ group[c.to] # None /\ group[c.to] \in GroupSession
        /\ group[c.to].keys[c.from] # None => c.key.key_id > group[c.to].keys[c.from].key_id
        /\ group' = [group EXCEPT ![c.to] = [@ EXCEPT !.keys[c.from] = c.key]]
        /\ UNCHANGED <<chains, sent, handed, forgotten, wasted, opened, reopened>>
    BY <1>0, <1>1, Zenon DEF ImportSenderKey, Importable, network
  <1>3. /\ group'[c.to].our = group[c.to].our
        /\ group'[c.to].keys[c.from] = c.key
        /\ \A x \in Members : x # c.from => group'[c.to].keys[x] = group[c.to].keys[x]
        /\ \A r \in Members : r # c.to => group'[r] = group[r]
    BY <1>0, <1>1, <1>2 DEF GroupSession
  <1>4. group'[c.to] # None
    <2>1. group'[c.to] = [group[c.to] EXCEPT !.keys[c.from] = c.key]
      BY <1>0, <1>1, <1>2, Zenon
    <2>2. group'[c.to] \in GroupSession
      BY <1>1, <1>2, <2>1, SessionType
    <2> QED
      BY <2>2, NoneAssumption, Zenon
  <1>5. \A r \in Members, x \in Members : r # c.to \/ x # c.from => Keeps(r, x)
    BY <1>2, <1>3, <1>4, ZenonT(120) DEF Keeps, Holds
  <1>6. OneIdPerChain'
    <2>1. Marks' \subseteq Marks
      <3>1. \A p \in Live' : p \in Live /\ group'[p].our = group[p].our
        BY <1>2, <1>3, Zenon DEF Live
      <3> QED
        BY <1>2, <3>1, ZenonT(60) DEF Marks
    <2> QED
      BY <1>0, <1>2, <2>1, MarksKept, Zenon
  <1>7. IdsGrow'
    BY <1>0, <1>2, <1>3, <1>4, IdsFrame, Zenon
  <1>8. HeldAsHanded'
    <2> SUFFICES ASSUME NEW r \in Members, NEW p \in Members, Holds(r, p)'
                 PROVE  \E d \in handed' : /\ d.from = p
                                          /\ d.key.chain = group'[r].keys[p].chain
                                          /\ d.key.key_id = group'[r].keys[p].key_id
      BY ZenonT(60) DEF HeldAsHanded
    <2>1. CASE r = c.to /\ p = c.from
      BY <1>2, <1>3, <2>1, ZenonT(60)
    <2>2. CASE r # c.to \/ p # c.from
      BY <1>0, <1>2, <1>5, <2>2 DEF HeldInv, HeldAsHanded, Keeps
    <2> QED
      BY <2>1, <2>2, Zenon
  <1>9. OpenedBehind'
    <2> SUFFICES ASSUME NEW r \in Members, NEW m \in opened[r],
                        <<r, m.sender>> \notin forgotten'
                 PROVE  /\ Holds(r, m.sender)'
                        /\ group'[r].keys[m.sender].key_id >= m.key_id
                        /\ group'[r].keys[m.sender].chain = m.chain =>
                               m.number < group'[r].keys[m.sender].number
      BY <1>2, Zenon DEF OpenedBehind
    <2>1. m \in sent /\ m.sender \in Members /\ m.key_id \in Nat
      BY <1>0 DEF TypeOK, GroupMessage
    <2>2. /\ Holds(r, m.sender)
          /\ group[r].keys[m.sender].key_id >= m.key_id
          /\ group[r].keys[m.sender].chain = m.chain =>
                 m.number < group[r].keys[m.sender].number
      BY <1>0, <1>2, Zenon DEF HeldInv, OpenedBehind
    <2>3. CASE r # c.to \/ m.sender # c.from
      BY <1>5, <2>1, <2>2, <2>3, ZenonT(60) DEF Keeps
    <2>4. CASE r = c.to /\ m.sender = c.from
      <3>1. group[r].keys[m.sender].key_id \in Nat
        BY <1>2, <2>1, <2>2, <2>4, ZenonT(60) DEF Holds, GroupSession, SenderKey
      <3>2. c.key.key_id > m.key_id
        BY <1>1, <1>2, <2>1, <2>2, <2>4, <3>1 DEF Holds
      <3>3. c.key.chain # m.chain
        <4>1. /\ <<c.key.chain, c.key.key_id, c.from>> \in Marks
              /\ <<m.chain, m.key_id, m.sender>> \in Marks
          BY <2>1, Zenon DEF Marks
        <4>2. c.key.key_id # m.key_id
          BY <1>1, <2>1, <3>2
        <4> QED
          BY <1>0, <4>1, <4>2, Zenon DEF OneIdPerChain
      <3> QED
        BY <1>1, <1>3, <1>4, <2>1, <2>4, <3>2, <3>3, NoneAssumption DEF Holds
    <2> QED
      BY <2>3, <2>4, Zenon
  <1>10. AtMostOnce'
    BY <1>0, <1>2, Zenon DEF HeldInv, AtMostOnce
  <1>11. HeldPosition'
    <2> SUFFICES ASSUME NEW r \in Members, NEW p \in Members, Holds(r, p)'
                 PROVE  LET k == group'[r].keys[p]
                        IN  \/ <<r, k.chain>> \in wasted'
                            \/ \E d \in handed' : d.to = r /\ d.key = k
                            \/ \E n \in opened'[r] : n.chain = k.chain /\ k.number = n.number + 1
      BY Zenon DEF HeldPosition
    <2>1. CASE r = c.to /\ p = c.from
      BY <1>2, <1>3, <2>1, ZenonT(60)
    <2>2. CASE r # c.to \/ p # c.from
      BY <1>0, <1>2, <1>5, <2>2 DEF HeldInv, HeldPosition, Keeps
    <2> QED
      BY <2>1, <2>2, Zenon
  <1> QED
    BY <1>6, <1>7, <1>8, <1>9, <1>10, <1>11, Zenon DEF ChainInv, HeldInv

\* encrypt sends on its chain, or on a new one with the next key id.
LEMMA ChainEncrypt ==
    ASSUME ChainInv, TypeOK', NEW p \in Members, Encrypt(p)
    PROVE  ChainInv'
  <1>0. /\ TypeOK /\ group \in [Members -> GroupSession \cup {None}] /\ chains \in Nat
        /\ OneIdPerChain /\ IdsGrow /\ HeldInv
    BY Zenon DEF ChainInv, TypeOK
  <1> DEFINE old == group[p].our
             key == IF NeedsRotation(old) THEN Rotate(old) ELSE old
             m == [sender |-> p, chain |-> key.chain, key_id |-> key.key_id,
                   number |-> key.number, epoch |-> group[p].epoch,
                   to |-> group[p].members]
  <1>1. /\ group[p] # None /\ group[p] \in GroupSession /\ old \in SenderKey
    BY <1>0, Zenon DEF Encrypt, GroupSession
  <1>2. key \in SenderKey /\ Next_key(key) \in SenderKey
    BY <1>0, <1>1, KeyType
  <1>3. /\ group' = [group EXCEPT ![p] = [@ EXCEPT !.our = Next_key(key)]]
        /\ sent' = sent \cup {m}
        /\ UNCHANGED <<handed, forgotten, wasted, opened, reopened>>
    BY DEF Encrypt
  <1>4. \/ key = old /\ chains' = chains
        \/ key.chain = chains /\ key.key_id = old.key_id + 1 /\ chains' = chains + 1
    BY Zenon DEF Encrypt, Rotate, NewKey
  <1>5. m.chain = key.chain /\ m.key_id = key.key_id /\ m.sender = p
    OBVIOUS
  <1> HIDE DEF key, m
  <1>6. /\ group'[p].our.chain = key.chain
        /\ group'[p].our.key_id = key.key_id
        /\ group'[p].keys = group[p].keys
        /\ \A r \in Members : r # p => group'[r] = group[r]
    BY <1>0, <1>1, <1>2, <1>3 DEF Next_key, GroupSession, SenderKey
  <1>7. group'[p] # None
    <2>1. group'[p] = [group[p] EXCEPT !.our = Next_key(key)]
      BY <1>0, <1>3
    <2>2. group'[p] \in GroupSession
      BY <1>1, <1>2, <2>1, SessionType
    <2> QED
      BY <2>2, NoneAssumption
  <1>8. Marks' \subseteq Marks \cup {<<key.chain, key.key_id, p>>}
    BY <1>3, <1>5, <1>6 DEF Marks, Live
  <1>9. OneIdPerChain'
    <2>1. CASE key = old /\ chains' = chains
      <3>1. <<key.chain, key.key_id, p>> \in Marks
        BY <1>1, <2>1 DEF Marks, Live
      <3> QED
        BY <1>0, <1>8, <2>1, <3>1, MarksKept, Zenon
    <2>2. CASE key.chain = chains /\ chains' = chains + 1
      BY <1>0, <1>8, <2>2, MarksFresh, Zenon
    <2> QED
      BY <1>4, <2>1, <2>2
  <1>10. HeldInv'
    <2>1. \A r \in Members, x \in Members : Keeps(r, x)
      BY <1>1, <1>6, <1>7 DEF Keeps, Holds
    <2> QED
      BY <1>0, <1>3, <2>1, HeldFrame, Zenon
  <1>11. IdsGrow'
    BY <1>0, <1>3, <1>4, <1>6, <1>7, IdsFrame, ZenonT(120)
  <1> QED
    BY <1>9, <1>10, <1>11, Zenon DEF ChainInv

\* decrypt moves the copy beyond the message whether it opens or not, and notes
\* the message as opened only when the copy had not passed it.
LEMMA ChainDecrypt ==
    ASSUME ChainInv, TypeOK', NEW r \in Members, NEW m \in sent, Decrypt(r, m)
    PROVE  ChainInv'
  <1>0. /\ TypeOK /\ group \in [Members -> GroupSession \cup {None}] /\ chains \in Nat
        /\ OneIdPerChain /\ IdsGrow /\ HeldInv
    BY Zenon DEF ChainInv, TypeOK
  <1> DEFINE s == m.sender
             k == group[r].keys[s]
             n == Reached(k, m)
  <1>1. /\ m \in GroupMessage /\ s \in Members
        /\ m.chain \in Nat /\ m.key_id \in Nat /\ m.number \in Nat
    BY <1>0, Zenon DEF TypeOK, GroupMessage
  <1>2. /\ group[r] # None /\ group[r] \in GroupSession
        /\ k # None /\ k \in SenderKey /\ k.key_id = m.key_id
        /\ UNCHANGED <<chains, sent, handed, forgotten>>
    <2>1. /\ group[r] # None /\ k # None /\ k.key_id = m.key_id
          /\ UNCHANGED <<chains, sent, handed, forgotten>>
      BY Zenon DEF Decrypt, Arrives, Accepts
    <2> QED
      BY <1>0, <1>1, <2>1, Zenon DEF GroupSession
  <1>3. group' = [group EXCEPT ![r] = [@ EXCEPT !.keys[s] = n]]
    BY Zenon DEF Decrypt
  <1>4. /\ k.chain \in Nat /\ k.number \in Nat /\ k.key_id \in Nat
        /\ n \in SenderKey
        /\ n.chain = k.chain /\ n.key_id = k.key_id
        /\ n.number = (IF k.number < m.number THEN m.number ELSE k.number) + 1
    <2> DEFINE i == (IF k.number < m.number THEN m.number ELSE k.number) + 1
    <2>1. k.chain \in Nat /\ k.number \in Nat /\ k.key_id \in Nat
      BY <1>2, Zenon DEF SenderKey
    <2>2. n = [k EXCEPT !.number = i]
      BY Zenon DEF Reached
    <2> HIDE DEF k, n
    <2>3. i \in Nat
      BY <1>1, <2>1
    <2>4. k \in SenderKey
      BY <1>2, Zenon
    <2> HIDE DEF i
    <2>5. n \in SenderKey /\ n.chain = k.chain /\ n.key_id = k.key_id /\ n.number = i
      BY <2>2, <2>3, <2>4, ZenonT(60) DEF SenderKey
    <2> QED
      BY <2>1, <2>5, Zenon DEF i
  <1>5. n.number > m.number /\ n.number > k.number /\ n.number \in Nat
    BY <1>1, <1>4
  <1>6. \/ /\ k.chain = m.chain /\ k.number <= m.number
           /\ opened' = [opened EXCEPT ![r] = @ \cup {m}]
           /\ reopened' = [reopened EXCEPT ![r] = @ \cup ({m} \cap opened[r])]
           /\ UNCHANGED wasted
        \/ /\ wasted' = wasted \cup {<<r, k.chain>>}
           /\ UNCHANGED <<opened, reopened>>
    BY Zenon DEF Decrypt, Opens
  <1>7. /\ opened \in [Members -> SUBSET sent]
        /\ reopened \in [Members -> SUBSET sent]
    BY <1>0 DEF TypeOK
  <1> HIDE DEF n
  <1>8. /\ group'[r].our = group[r].our
        /\ group'[r].keys[s] = n
        /\ \A x \in Members : x # s => group'[r].keys[x] = group[r].keys[x]
        /\ \A q \in Members : q # r => group'[q] = group[q]
    BY <1>0, <1>1, <1>2, <1>3 DEF GroupSession
  <1>9. group'[r] # None
    <2>1. group'[r] = [group[r] EXCEPT !.keys[s] = n]
      BY <1>0, <1>3, Zenon
    <2>2. group'[r] \in GroupSession
      BY <1>1, <1>2, <1>4, <2>1, SessionType
    <2> QED
      BY <2>2, NoneAssumption
  <1>10. Holds(r, s)'
    BY <1>4, <1>8, <1>9, NoneAssumption, Zenon DEF Holds
  <1>11. \A q \in Members, x \in Members : q # r \/ x # s => Keeps(q, x)
    BY <1>2, <1>8, <1>9, ZenonT(60) DEF Keeps, Holds
  <1>12. OneIdPerChain'
    <2>1. Marks' \subseteq Marks
      BY <1>2, <1>8 DEF Marks, Live
    <2> QED
      BY <1>0, <1>2, <2>1, MarksKept, Zenon
  <1>13. IdsGrow'
    BY <1>0, <1>2, <1>8, <1>9, IdsFrame, Zenon
  <1>14. HeldAsHanded'
    <2> SUFFICES ASSUME NEW q \in Members, NEW p \in Members, Holds(q, p)'
                 PROVE  \E d \in handed' : /\ d.from = p
                                          /\ d.key.chain = group'[q].keys[p].chain
                                          /\ d.key.key_id = group'[q].keys[p].key_id
      BY ZenonT(60) DEF HeldAsHanded
    <2>1. CASE q = r /\ p = s
      <3>1. Holds(r, s)
        BY <1>2, Zenon DEF Holds
      <3> QED
        <4>1. \E d \in handed : d.from = s /\ d.key.chain = k.chain /\ d.key.key_id = k.key_id
          BY <1>0, <1>1, <3>1, ZenonT(60) DEF HeldInv, HeldAsHanded
        <4> HIDE DEF s, k
        <4> QED
          BY <1>2, <1>4, <1>8, <2>1, <4>1, Zenon
    <2>2. CASE q # r \/ p # s
      <3>1. Holds(q, p) /\ group'[q].keys[p] = group[q].keys[p]
        BY <1>11, <2>2, Zenon DEF Keeps
      <3>2. \E d \in handed : /\ d.from = p
                              /\ d.key.chain = group[q].keys[p].chain
                              /\ d.key.key_id = group[q].keys[p].key_id
        BY <1>0, <3>1, Zenon DEF HeldInv, HeldAsHanded
      <3> QED
        BY <1>2, <3>1, <3>2, Zenon
    <2> QED
      BY <2>1, <2>2, Zenon
  <1>15. OpenedBehind'
    <2> SUFFICES ASSUME NEW q \in Members, NEW o \in opened'[q],
                        <<q, o.sender>> \notin forgotten'
                 PROVE  /\ Holds(q, o.sender)'
                        /\ group'[q].keys[o.sender].key_id >= o.key_id
                        /\ group'[q].keys[o.sender].chain = o.chain =>
                               o.number < group'[q].keys[o.sender].number
      BY <1>2, Zenon DEF OpenedBehind
    <2>1. CASE q = r /\ o = m
      <3>1. group'[q].keys[o.sender] = n /\ n.key_id = o.key_id /\ Holds(q, o.sender)'
        BY <1>2, <1>4, <1>8, <1>10, <2>1, ZenonT(60)
      <3>2. n.key_id >= o.key_id /\ o.number < n.number
        BY <1>1, <1>4, <1>5, <2>1, <3>1
      <3> QED
        BY <3>1, <3>2, Zenon
    <2>2. CASE ~(q = r /\ o = m)
      <3>1. o \in opened[q]
        <4>1. CASE UNCHANGED opened
          BY <4>1, Zenon
        <4>2. CASE opened' = [opened EXCEPT ![r] = @ \cup {m}]
          BY <1>7, <2>2, <4>2, Zenon
        <4> QED
          BY <1>6, <4>1, <4>2, Zenon
      <3>2. o.sender \in Members /\ o.number \in Nat
        BY <1>0, <1>7, <3>1 DEF TypeOK, GroupMessage
      <3>3. /\ Holds(q, o.sender)
            /\ group[q].keys[o.sender].key_id >= o.key_id
            /\ group[q].keys[o.sender].chain = o.chain =>
                   o.number < group[q].keys[o.sender].number
        BY <1>0, <1>2, <3>1, Zenon DEF HeldInv, OpenedBehind
      <3>4. CASE q # r \/ o.sender # s
        BY <1>11, <3>2, <3>3, <3>4, Zenon DEF Keeps
      <3>5. CASE q = r /\ o.sender = s
        <4>1. group'[q].keys[o.sender] = n /\ group[q].keys[o.sender] = k
          BY <1>8, <3>5, Zenon
        <4>2. Holds(q, o.sender)'
          BY <1>10, <3>5, Zenon
        <4>3. n.key_id >= o.key_id /\ (n.chain = o.chain => o.number < k.number)
          BY <1>4, <3>3, <4>1, ZenonT(60)
        <4>4. o.number < k.number => o.number < n.number
          <5>1. /\ k.number \in Nat /\ m.number \in Nat
                /\ n.number = (IF k.number < m.number THEN m.number ELSE k.number) + 1
            BY <1>1, <1>4, Zenon
          <5> HIDE DEF k, n
          <5> QED
            BY <3>2, <5>1
        <4> QED
          BY <4>1, <4>2, <4>3, <4>4, Zenon
      <3> QED
        BY <3>4, <3>5, Zenon
    <2> QED
      BY <2>1, <2>2, Zenon
  <1>16. AtMostOnce'
    <2> SUFFICES ASSUME NEW q \in Members, NEW o \in reopened'[q]
                 PROVE  <<q, o.sender>> \in forgotten
      BY <1>2, Zenon DEF AtMostOnce
    <2>1. CASE o \in reopened[q]
      BY <1>0, <2>1 DEF HeldInv, AtMostOnce
    <2>2. CASE o \notin reopened[q]
      <3>1. q = r /\ o = m /\ m \in opened[r] /\ k.chain = m.chain /\ k.number <= m.number
        BY <1>6, <1>7, <2>2
      <3> QED
        <4>1. <<r, s>> \notin forgotten => m.number < k.number
          BY <1>0, <1>1, <1>4, <3>1, Zenon DEF HeldInv, OpenedBehind
        <4>2. m.number \in Nat /\ k.number \in Nat /\ o.sender = s
          BY <1>1, <1>4, <3>1, Zenon
        <4>3. ~(m.number < k.number)
          <5>1. k.number <= m.number
            BY <3>1, ZenonT(60)
          <5> QED
            BY <4>2, <5>1
        <4> QED
          BY <3>1, <4>1, <4>2, <4>3, Zenon
    <2> QED
      BY <2>1, <2>2, Zenon
  <1>17. HeldPosition'
    <2> SUFFICES ASSUME NEW q \in Members, NEW p \in Members, Holds(q, p)'
                 PROVE  LET j == group'[q].keys[p]
                        IN  \/ <<q, j.chain>> \in wasted'
                            \/ \E d \in handed' : d.to = q /\ d.key = j
                            \/ \E o \in opened'[q] : o.chain = j.chain /\ j.number = o.number + 1
      BY Zenon DEF HeldPosition
    <2>1. CASE q = r /\ p = s
      <3>1. CASE wasted' = wasted \cup {<<r, k.chain>>}
        BY <1>4, <1>8, <2>1, <3>1, Zenon
      <3>2. CASE /\ k.chain = m.chain /\ k.number <= m.number
                 /\ opened' = [opened EXCEPT ![r] = @ \cup {m}]
        <4>1. m \in opened'[r] /\ m.chain = n.chain /\ n.number = m.number + 1
          <5>1. m \in opened'[r] /\ m.chain = n.chain
            BY <1>4, <1>7, <3>2, Zenon
          <5>2. n.number = m.number + 1
            <6>1. k.number <= m.number
              BY <3>2, Zenon
            <6> HIDE DEF k
            <6> QED
              BY <1>1, <1>4, <6>1
          <5> QED
            BY <5>1, <5>2, Zenon
        <4> QED
          BY <1>8, <2>1, <4>1, Zenon
      <3> QED
        BY <1>6, <3>1, <3>2, Zenon
    <2>2. CASE q # r \/ p # s
      <3>1. wasted \subseteq wasted' /\ opened[q] \subseteq opened'[q]
        BY <1>6, <1>7, ZenonT(60)
      <3>2. Holds(q, p) /\ group'[q].keys[p] = group[q].keys[p]
        BY <1>11, <2>2, Zenon DEF Keeps
      <3>3. LET j == group[q].keys[p]
            IN  \/ <<q, j.chain>> \in wasted
                \/ \E d \in handed : d.to = q /\ d.key = j
                \/ \E o \in opened[q] : o.chain = j.chain /\ j.number = o.number + 1
        BY <1>0, <3>2, Zenon DEF HeldInv, HeldPosition
      <3> QED
        BY <1>2, <3>1, <3>2, <3>3, Zenon
    <2> QED
      BY <2>1, <2>2, Zenon
  <1> QED
    BY <1>12, <1>13, <1>14, <1>15, <1>16, <1>17 DEF ChainInv, HeldInv

\* Every operation keeps the invariant.
LEMMA ChainNext == ChainInv /\ [Next]_vars => ChainInv'
  <1> SUFFICES ASSUME ChainInv, [Next]_vars PROVE ChainInv'
    BY Zenon
  <1>0. TypeOK /\ TypeOK' /\ chains \in Nat /\ OneIdPerChain /\ IdsGrow /\ HeldInv
    BY NextType DEF ChainInv, TypeOK
  <1>1. CASE UNCHANGED <<group, chains, network>>
    <2>1. UNCHANGED <<group, chains, sent, handed, forgotten, wasted, opened, reopened>>
      BY <1>1, Zenon DEF network
    <2>2. OneIdPerChain'
      <3>1. Marks' = Marks
        BY <2>1, Zenon DEF Marks, Live
      <3> QED
        BY <1>0, <2>1, <3>1, MarksKept, Zenon
    <2>3. HeldInv'
      <3>1. \A r \in Members, x \in Members : Keeps(r, x)
        BY <2>1, Zenon DEF Keeps, Holds
      <3> QED
        BY <1>0, <2>1, <3>1, HeldFrame, Zenon
    <2>4. IdsGrow'
      BY <1>0, <2>1, Zenon DEF IdsGrow
    <2> QED
      BY <1>0, <2>2, <2>3, <2>4 DEF ChainInv
  <1>2. ASSUME NEW r \in Members, NEW m \in sent, DecryptRejects(r, m) PROVE ChainInv'
    BY <1>1, <1>2 DEF DecryptRejects, vars, network
  <1>3. ASSUME NEW c \in 0 .. chains - 1, Expire(c) PROVE ChainInv'
    BY <1>1, <1>3 DEF Expire
  <1>4. CASE UNCHANGED vars
    BY <1>1, <1>4 DEF vars, network
  <1> QED
    BY <1>0, <1>2, <1>3, <1>4, ChainCreate, ChainLeave, ChainAdd, ChainRemove, ChainHandOver,
       ChainImport, ChainEncrypt, ChainDecrypt, Zenon DEF Next

\* After every rotation, by remove_member or encrypt, the sender's new key has
\* a greater key id than any copy a member may hold, so import_sender_key takes
\* it, unless the sender has begun again with create_group.
THEOREM RotationImportable == Spec => []CurrentKeyImportable
  BY ChainInit, ChainNext, ChainSays, PTL DEF Spec

\* decrypt opens no message twice, whatever arrives again and whichever copies
\* are imported again, unless the receiver itself has forgotten the chain.
THEOREM OpenedAtMostOnce == Spec => []AtMostOnce
  BY ChainInit, ChainNext, ChainSays, PTL DEF Spec

\* A receiver's copy never passes a message that it has not opened, unless
\* decrypt was given something it could not open on that chain or the copy
\* was handed over later.
THEOREM PositionKept == Spec => []NotOverrun
  BY ChainInit, ChainNext, ChainSays, PTL DEF Spec
=============================================================================
