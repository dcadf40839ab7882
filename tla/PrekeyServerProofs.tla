------------------------- MODULE PrekeyServerProofs -------------------------
(***************************************************************************)
(* Proofs for PrekeyServer, for any identities, devices, bundles and       *)
(* requests under way.                                                     *)
(***************************************************************************)
EXTENDS PrekeyServer, TLAPS

Types ==
    /\ store \in [Roots -> [Slot -> Bundle \cup {None}]]
    /\ task \in [Handlers -> Request \cup {None}]
    /\ resorts \subseteq Roots

\* A bundle is stored in its own place.
InPlace ==
    \A r \in Roots, s \in Slot : store[r][s] # None =>
        store[r][s].root = r /\ SlotOf(store[r][s]) = s

\* A bundle is going to be stored in its own place, and only a fetch that is
\* about to answer holds bundles.
InHand(h) ==
    /\ At(h, "check") \/ At(h, "insert") =>
           /\ task[h].bundle \in Bundle
           /\ task[h].root = task[h].bundle.root /\ task[h].slot = SlotOf(task[h].bundle)
    /\ task[h] # None /\ task[h].found # {} => task[h].pc = "compact"

PlaceInv == Types /\ InPlace /\ (\A h \in Handlers : InHand(h)) /\ ResortPersists

\* A fetch between its scan and its answer.
Fetching(h) == At(h, "fallback") \/ At(h, "compact")

\* What a fetch is about to delete is what it returns, or expired, or late.
Meets(h) == Fetching(h) => \A d \in task[h].todo :
    store[task[h].root][d] \in {None} \cup task[h].found \cup expired \cup late

LostInv == (\A h \in Handlers : Meets(h)) /\ FetchDeletesServed

Holds(h, b) == task[h] # None /\ b \in task[h].found

Stored(b) == store[b.root][SlotOf(b)] = b

\* A bundle was accepted before it is stored, held by a fetch of its identity or
\* served.  If it was not raced for and not uploaded again it is in one fetch at
\* most, which will delete it before it answers, and in none once it was served.
OneUse(b) ==
    /\ b \in served \/ Stored(b) => b \in accepted
    /\ \A h \in Handlers : Holds(h, b) => b \in accepted /\ task[h].root = b.root
    /\ b \notin raced \cup again =>
           /\ b \in served => ~Stored(b)
           /\ \A h \in Handlers : Holds(h, b) =>
                  /\ b \notin served
                  /\ Stored(b) => SlotOf(b) \in task[h].todo
                  /\ \A g \in Handlers : Holds(g, b) => g = h

ReuseInv == (\A b \in Bundle : OneUse(b)) /\ ReuseNeedsRace

-----------------------------------------------------------------------------
(* Steps on a request and on the store *)

\* The fields of a request under way.
LEMMA Fields ==
    ASSUME Types, NEW h \in Handlers, task[h] # None
    PROVE  /\ task[h] \in Request
           /\ task[h].root \in Roots /\ task[h].slot \in Slot
           /\ task[h].found \subseteq Bundle /\ task[h].todo \subseteq Devices
  BY DEF Types, Request

\* A request that goes on with other bundles and keys in hand.
LEMMA GoesOn ==
    ASSUME Types, NEW h \in Handlers, NEW r \in Request,
           task' = [task EXCEPT ![h] = r]
    PROVE  /\ task' \in [Handlers -> Request \cup {None}]
           /\ task'[h] = r /\ task'[h] # None
           /\ \A g \in Handlers : g # h => task'[g] = task[g]
  BY NoneAssumption DEF Types

\* A request that ends.
LEMMA Ends ==
    ASSUME Types, NEW h \in Handlers, Return(h)
    PROVE  /\ task' \in [Handlers -> Request \cup {None}]
           /\ task'[h] = None
           /\ \A g \in Handlers : g # h => task'[g] = task[g]
  BY DEF Types, Return

\* One entry of the store is written.
LEMMA Writes ==
    ASSUME Types, NEW r \in Roots, NEW s \in Slot, NEW b \in Bundle \cup {None},
           store' = [store EXCEPT ![r][s] = b]
    PROVE  /\ store' \in [Roots -> [Slot -> Bundle \cup {None}]]
           /\ store'[r][s] = b
           /\ \A q \in Roots, z \in Slot : q # r \/ z # s => store'[q][z] = store[q][z]
  BY SMTT(30) DEF Types

\* A bundle has a place.
LEMMA Places == \A b \in Bundle : b.root \in Roots /\ SlotOf(b) \in Slot
  BY DEF Bundle, SlotOf, Slot
\* A new request holds nothing yet.
LEMMA BeginEffect ==
    ASSUME Types, NEW h \in Handlers, NEW pc \in {"check", "scan", "list"}, NEW root \in Roots,
           NEW slot \in Slot, NEW b \in Bundle \cup {None},
           Begin(h, [pc |-> pc, root |-> root, slot |-> slot, bundle |-> b,
                     found |-> {}, todo |-> {}])
    PROVE  /\ task' \in [Handlers -> Request \cup {None}]
           /\ task'[h] # None /\ task'[h].pc = pc /\ task'[h].found = {}
           /\ task'[h].root = root /\ task'[h].slot = slot /\ task'[h].bundle = b
           /\ \A g \in Handlers : g # h => task'[g] = task[g]
  <1>1. PICK r : r = [pc |-> pc, root |-> root, slot |-> slot, bundle |-> b,
                      found |-> {}, todo |-> {}]
    OBVIOUS
  <1>2. /\ r \in Request /\ r.pc = pc /\ r.found = {}
        /\ r.root = root /\ r.slot = slot /\ r.bundle = b
    BY <1>1 DEF Request
  <1>3. task' = [task EXCEPT ![h] = r]
    BY <1>1 DEF Begin
  <1> QED
    BY <1>2, <1>3, GoesOn, Zenon

\* An upload that goes on to its insertion.
LEMMA CheckEffect ==
    ASSUME Types, NEW h \in Handlers, task[h] # None, task' = [task EXCEPT ![h].pc = "insert"]
    PROVE  /\ task' \in [Handlers -> Request \cup {None}]
           /\ task'[h] # None /\ task'[h].pc = "insert"
           /\ task'[h].root = task[h].root /\ task'[h].slot = task[h].slot
           /\ task'[h].bundle = task[h].bundle /\ task'[h].found = task[h].found
           /\ \A g \in Handlers : g # h => task'[g] = task[g]
  <1>1. PICK r \in Request : r = task[h]
    BY Fields
  <1>2. PICK q \in Request : q = [r EXCEPT !.pc = "insert"]
    BY Zenon DEF Request
  <1>3. /\ q.pc = "insert" /\ q.root = r.root /\ q.slot = r.slot /\ q.bundle = r.bundle
        /\ q.found = r.found
    BY <1>2 DEF Request
  <1>4. task' = [task EXCEPT ![h] = q]
    BY <1>1, <1>2
  <1> QED
    BY <1>1, <1>3, <1>4, GoesOn, ZenonT(60)

\* A fetch after its scan: it holds what it found valid, and will delete all.
LEMMA ScanEffect ==
    ASSUME Types, NEW h \in Handlers, ScanBundles(h)
    PROVE  LET r     == task[h].root
               used  == {d \in Devices : store[r][d] # None}
               found == {store[r][d] : d \in {d \in used : Valid(store[r][d])}}
           IN  /\ task' \in [Handlers -> Request \cup {None}]
               /\ task'[h] # None /\ task'[h].root = r
               /\ task'[h].pc = (IF found = {} THEN "fallback" ELSE "compact")
               /\ task'[h].found = found /\ task'[h].todo = used
               /\ \A g \in Handlers : g # h => task'[g] = task[g]
  <1> DEFINE root  == task[h].root
             used  == {d \in Devices : store[root][d] # None}
             found == {store[root][d] : d \in {d \in used : Valid(store[root][d])}}
             pc    == IF found = {} THEN "fallback" ELSE "compact"
  <1>1. task[h] \in Request /\ root \in Roots
    BY Fields DEF ScanBundles, At
  <1>2. used \subseteq Devices /\ found \subseteq Bundle /\ pc \in {"fallback", "compact"}
    BY <1>1 DEF Types, Slot, Valid
  <1>3. task' = [task EXCEPT ![h] = [task[h] EXCEPT !.pc = pc, !.found = found, !.todo = used]]
    BY Zenon DEF ScanBundles
  <1> HIDE DEF used, found, pc
  <1>4. PICK q : q = [task[h] EXCEPT !.pc = pc, !.found = found, !.todo = used]
    OBVIOUS
  <1>5. q \in Request /\ q.pc = pc /\ q.root = root /\ q.found = found /\ q.todo = used
    BY <1>1, <1>2, <1>4, Zenon DEF Request
  <1>6. task' = [task EXCEPT ![h] = q]
    BY <1>3, <1>4, Zenon
  <1>7. /\ task' \in [Handlers -> Request \cup {None}]
        /\ task'[h] = q /\ task'[h] # None
        /\ \A g \in Handlers : g # h => task'[g] = task[g]
    BY <1>5, <1>6, GoesOn, Zenon
  <1>8. /\ task'[h].pc = pc /\ task'[h].root = root
        /\ task'[h].found = found /\ task'[h].todo = used
    BY <1>5, <1>7
  <1> QED
    BY <1>7, <1>8, Zenon DEF used, found, pc

\* A fetch that falls back on the last resort, and a deletion with its list.
LEMMA StepEffect ==
    ASSUME Types, NEW h \in Handlers, FallbackToResort(h) \/ ListBundles(h), ~Return(h)
    PROVE  /\ task' \in [Handlers -> Request \cup {None}]
           /\ task'[h] # None /\ task'[h].root = task[h].root
           /\ task'[h].found = task[h].found
           /\ \/ task'[h].pc = "compact" /\ task[h].pc = "fallback" /\ task'[h].todo = task[h].todo
              \/ task'[h].pc = "erase" /\ task[h].pc = "list"
           /\ \A g \in Handlers : g # h => task'[g] = task[g]
  <1>1. PICK r \in Request : r = task[h]
    BY Fields DEF FallbackToResort, ListBundles, At
  <1>2. CASE FallbackToResort(h)
    <2>1. PICK b \in Bundle : b = store[r.root]["resort"]
      BY <1>1, <1>2 DEF FallbackToResort, Valid, Types, Request, Slot
    <2>2. PICK q \in Request : q = [r EXCEPT !.pc = "compact", !.bundle = b]
      BY Zenon DEF Request
    <2>3. q.pc = "compact" /\ q.root = r.root /\ q.found = r.found /\ q.todo = r.todo
      BY <2>2, ZenonT(60) DEF Request
    <2>4. task' = [task EXCEPT ![h] = q] /\ r.pc = "fallback"
      BY <1>1, <1>2, <2>1, <2>2 DEF FallbackToResort, At
    <2> QED
      BY <1>1, <2>3, <2>4, GoesOn, Zenon
  <1>3. CASE ListBundles(h)
    <2>1. PICK used \in SUBSET Devices : used = {d \in Devices : store[r.root][d] # None}
      BY Zenon
    <2>2. PICK q \in Request : q = [r EXCEPT !.pc = "erase", !.todo = used]
      BY Zenon DEF Request
    <2>3. q.pc = "erase" /\ q.root = r.root /\ q.found = r.found
      BY <2>2, ZenonT(60) DEF Request
    <2>4. task' = [task EXCEPT ![h] = q] /\ r.pc = "list"
      BY <1>1, <1>3, <2>1, <2>2, Zenon DEF ListBundles, At
    <2> QED
      BY <1>1, <2>3, <2>4, GoesOn, Zenon
  <1> QED
    BY <1>2, <1>3, Zenon

\* The step of Compact and Erase that removes one entry.
Removes(h, d) ==
    /\ store' = [store EXCEPT ![task[h].root][d] = None]
    /\ task' = [task EXCEPT ![h].todo = @ \ {d}]

\* A fetch or a deletion that removes one entry.
LEMMA DeleteEffect ==
    ASSUME Types, NEW h \in Handlers, task[h] # None, NEW d \in task[h].todo, Removes(h, d)
    PROVE  /\ task' \in [Handlers -> Request \cup {None}]
           /\ task'[h] # None /\ task'[h].pc = task[h].pc /\ task'[h].root = task[h].root
           /\ task'[h].found = task[h].found /\ task'[h].todo = task[h].todo \ {d}
           /\ task'[h].bundle = task[h].bundle /\ task'[h].slot = task[h].slot
           /\ \A g \in Handlers : g # h => task'[g] = task[g]
           /\ store' \in [Roots -> [Slot -> Bundle \cup {None}]]
           /\ store'[task[h].root][d] = None
           /\ \A q \in Roots, z \in Slot : store'[q][z] \in {None, store[q][z]}
           /\ \A q \in Roots, z \in Slot :
                  q # task[h].root \/ z # d => store'[q][z] = store[q][z]
           /\ d \in Devices /\ task[h].root \in Roots
  <1>1. PICK r \in Request : r = task[h]
    BY Fields
  <1>2. d \in Devices /\ d \in Slot /\ r.root \in Roots
    BY <1>1 DEF Request, Slot
  <1>3. PICK q \in Request : q = [r EXCEPT !.todo = r.todo \ {d}]
    BY Zenon DEF Request
  <1>4. /\ q.pc = r.pc /\ q.root = r.root /\ q.found = r.found /\ q.todo = r.todo \ {d}
        /\ q.bundle = r.bundle /\ q.slot = r.slot
    BY <1>3 DEF Request
  <1>5. task' = [task EXCEPT ![h] = q]
    BY <1>1, <1>3 DEF Removes
  <1>6. /\ task' \in [Handlers -> Request \cup {None}]
        /\ task'[h] = q /\ task'[h] # None
        /\ \A g \in Handlers : g # h => task'[g] = task[g]
    BY <1>5, GoesOn, Zenon
  <1>7. /\ store' \in [Roots -> [Slot -> Bundle \cup {None}]]
        /\ store'[r.root][d] = None
        /\ \A z \in Roots, s \in Slot : z # r.root \/ s # d => store'[z][s] = store[z][s]
    BY <1>1, <1>2 DEF Types, Removes
  <1> QED
    BY <1>1, <1>2, <1>4, <1>6, <1>7
-----------------------------------------------------------------------------
(* The last resort *)

\* Nothing is stored before the first upload.
LEMMA PlaceInvInit == Init => PlaceInv
  BY DEF Init, PlaceInv, Types, InPlace, InHand, At, ResortPersists

\* A step that leaves the store alone and one request in order.
LEMMA TaskOnly ==
    ASSUME PlaceInv, NEW h \in Handlers, task' \in [Handlers -> Request \cup {None}],
           \A g \in Handlers : g # h => task'[g] = task[g],
           InHand(h)', UNCHANGED <<store, resorts>>
    PROVE  PlaceInv'
  <1>1. Types' /\ InPlace' /\ ResortPersists'
    BY DEF PlaceInv, Types, InPlace, ResortPersists
  <1>2. ASSUME NEW g \in Handlers PROVE InHand(g)'
    BY DEF PlaceInv, InHand, At
  <1> QED
    BY <1>1, <1>2 DEF PlaceInv

\* An entry of last resort is written by uploads only: what fetches and
\* deletions remove are entries of devices.
LEMMA PlaceInvNext == PlaceInv /\ [Next]_vars => PlaceInv'
  <1> SUFFICES ASSUME PlaceInv, [Next]_vars PROVE PlaceInv'
    OBVIOUS
  <1>0. Types /\ \A h \in Handlers : InHand(h)
    BY DEF PlaceInv
  <1>1. ASSUME NEW h \in Handlers, NEW b \in Bundle, UploadPrekey(h, b) PROVE PlaceInv'
    <2>1. b.root \in Roots /\ SlotOf(b) \in Slot
      BY Places, Zenon
    <2>2. /\ task' \in [Handlers -> Request \cup {None}]
          /\ task'[h] # None /\ task'[h].pc = "check" /\ task'[h].found = {}
          /\ task'[h].root = b.root /\ task'[h].slot = SlotOf(b) /\ task'[h].bundle = b
          /\ \A g \in Handlers : g # h => task'[g] = task[g]
      BY <1>0, <1>1, <2>1, BeginEffect, ZenonT(60) DEF UploadPrekey
    <2>3. InHand(h)'
      BY <2>2, Zenon DEF InHand, At, SlotOf
    <2>4. UNCHANGED <<store, resorts>>
      BY <1>1, Zenon DEF UploadPrekey, history
    <2> QED
      BY <2>2, <2>3, <2>4, TaskOnly
  <1>2. ASSUME NEW h \in Handlers, NEW r \in Roots, FetchPrekey(h, r) \/ DeletePrekey(h, r)
        PROVE  PlaceInv'
    <2>1. PICK pc \in {"scan", "list"} :
              Begin(h, [pc |-> pc, root |-> r, slot |-> "resort", bundle |-> None,
                        found |-> {}, todo |-> {}])
      BY <1>2 DEF FetchPrekey, DeletePrekey
    <2>2. /\ task' \in [Handlers -> Request \cup {None}]
          /\ task'[h] # None /\ task'[h].pc = pc /\ task'[h].found = {}
          /\ \A g \in Handlers : g # h => task'[g] = task[g]
      BY <1>0, <2>1, BeginEffect, ZenonT(60) DEF Slot
    <2>3. InHand(h)'
      BY <2>2 DEF InHand, At
    <2>4. UNCHANGED <<store, resorts>>
      BY <1>2 DEF FetchPrekey, DeletePrekey, history
    <2> QED
      BY <2>2, <2>3, <2>4, TaskOnly, Zenon
  <1>3. ASSUME NEW h \in Handlers, Return(h), UNCHANGED <<store, resorts>> PROVE PlaceInv'
    <2>1. /\ task' \in [Handlers -> Request \cup {None}] /\ task'[h] = None
          /\ \A g \in Handlers : g # h => task'[g] = task[g]
      BY <1>0, <1>3, Ends
    <2>2. InHand(h)'
      BY <2>1, Zenon DEF InHand, At
    <2> QED
      BY <1>3, <2>1, <2>2, TaskOnly
  <1>4. ASSUME NEW h \in Handlers, CheckReplay(h) PROVE PlaceInv'
    <2>0. UNCHANGED <<store, resorts>> /\ At(h, "check")
      BY <1>4 DEF CheckReplay, history
    <2>1. CASE Return(h)
      BY <1>3, <2>0, <2>1, Zenon
    <2>2. CASE task' = [task EXCEPT ![h].pc = "insert"]
      <3>1. /\ task' \in [Handlers -> Request \cup {None}]
            /\ task'[h] # None /\ task'[h].pc = "insert"
            /\ task'[h].root = task[h].root /\ task'[h].slot = task[h].slot
            /\ task'[h].bundle = task[h].bundle /\ task'[h].found = task[h].found
            /\ \A g \in Handlers : g # h => task'[g] = task[g]
        BY <1>0, <2>0, <2>2, CheckEffect, Zenon DEF At
      <3>2. InHand(h)'
        BY <1>0, <2>0, <3>1, ZenonT(60) DEF InHand, At, SlotOf
      <3> QED
        BY <2>0, <3>1, <3>2, TaskOnly, Zenon
    <2> QED
      BY <1>4, <2>1, <2>2, Zenon DEF CheckReplay
  <1>5. ASSUME NEW h \in Handlers, InsertBundle(h) PROVE PlaceInv'
    <2>0. At(h, "insert") /\ task[h] # None
      BY <1>5, Zenon DEF InsertBundle, At
    <2>1. PICK b \in Bundle, r \in Roots, s \in Slot :
              /\ b = task[h].bundle /\ r = task[h].root /\ s = task[h].slot
              /\ b.root = r /\ SlotOf(b) = s
      BY <1>0, <2>0, Fields, ZenonT(60) DEF InHand
    <2>2. store' = [store EXCEPT ![r][s] = b]
      BY <1>5, <2>1, Zenon DEF InsertBundle
    <2>3. /\ store' \in [Roots -> [Slot -> Bundle \cup {None}]]
          /\ store'[r][s] = b
          /\ \A q \in Roots, z \in Slot : q # r \/ z # s => store'[q][z] = store[q][z]
      <3>1. b \in Bundle \cup {None}
        BY Zenon
      <3> QED
        BY <1>0, <2>2, <3>1, Writes, ZenonT(120)
    <2>4. /\ task' \in [Handlers -> Request \cup {None}] /\ task'[h] = None
          /\ \A g \in Handlers : g # h => task'[g] = task[g]
      BY <1>0, <1>5, Ends DEF InsertBundle
    <2>5. resorts' = IF s = "resort" THEN resorts \cup {r} ELSE resorts
      BY <1>5, <2>1, Zenon DEF InsertBundle
    <2>6. InPlace'
      BY <2>1, <2>3 DEF PlaceInv, InPlace, SlotOf
    <2>7. \A g \in Handlers : InHand(g)'
      BY <1>0, <2>4, ZenonT(60) DEF InHand, At
    <2>8. ResortPersists'
      BY <2>1, <2>3, <2>5, NoneAssumption DEF PlaceInv, Types, ResortPersists, Slot
    <2> QED
      BY <2>1, <2>3, <2>4, <2>5, <2>6, <2>7, <2>8, Zenon DEF PlaceInv, Types
  <1>6. ASSUME NEW h \in Handlers, ScanBundles(h) PROVE PlaceInv'
    <2>1. /\ task' \in [Handlers -> Request \cup {None}]
          /\ task'[h].found # {} => task'[h].pc = "compact"
          /\ task'[h].pc \in {"fallback", "compact"}
          /\ \A g \in Handlers : g # h => task'[g] = task[g]
      BY <1>0, <1>6, ScanEffect, Zenon
    <2>2. InHand(h)'
      BY <2>1, Zenon DEF InHand, At
    <2>3. UNCHANGED <<store, resorts>>
      BY <1>6, Zenon DEF ScanBundles
    <2> QED
      BY <2>1, <2>2, <2>3, TaskOnly, Zenon
  <1>7. ASSUME NEW h \in Handlers, FallbackToResort(h) \/ ListBundles(h) PROVE PlaceInv'
    <2>0. UNCHANGED <<store, resorts>> /\ task[h] # None
      BY <1>7 DEF FallbackToResort, ListBundles, history, At
    <2>1. CASE Return(h)
      BY <1>3, <2>0, <2>1, Zenon
    <2>2. CASE ~Return(h)
      <3>1. /\ task' \in [Handlers -> Request \cup {None}]
            /\ task'[h].found = task[h].found
            /\ task'[h].pc \in {"compact", "erase"} /\ task[h].pc \in {"fallback", "list"}
            /\ \A g \in Handlers : g # h => task'[g] = task[g]
        BY <1>0, <1>7, <2>2, StepEffect
      <3>2. InHand(h)'
        BY <1>0, <2>0, <3>1, Zenon DEF InHand, At
      <3> QED
        BY <2>0, <3>1, <3>2, TaskOnly, Zenon
    <2> QED
      BY <2>1, <2>2, Zenon
  <1>8. ASSUME NEW h \in Handlers, task[h] # None, NEW d \in task[h].todo, Removes(h, d),
               UNCHANGED resorts
        PROVE  PlaceInv'
    <2>1. d # "resort"
      BY <1>0, <1>8, Fields, SlotAssumption, Zenon
    <2>2. /\ task' \in [Handlers -> Request \cup {None}]
          /\ task'[h] # None /\ task'[h].pc = task[h].pc /\ task'[h].root = task[h].root
          /\ task'[h].found = task[h].found
          /\ task'[h].bundle = task[h].bundle /\ task'[h].slot = task[h].slot
          /\ \A g \in Handlers : g # h => task'[g] = task[g]
          /\ store' \in [Roots -> [Slot -> Bundle \cup {None}]]
          /\ \A q \in Roots, z \in Slot : store'[q][z] \in {None, store[q][z]}
          /\ \A q \in Roots, z \in Slot : z # d => store'[q][z] = store[q][z]
      BY <1>0, <1>8, DeleteEffect
    <2>3. InPlace'
      BY <2>2 DEF PlaceInv, InPlace, SlotOf
    <2>4. \A g \in Handlers : InHand(g)'
      BY <1>0, <1>8, <2>2 DEF InHand, At, SlotOf
    <2>5. ResortPersists'
      BY <1>8, <2>1, <2>2 DEF PlaceInv, Types, ResortPersists, Slot
    <2> QED
      BY <1>8, <2>2, <2>3, <2>4, <2>5, Zenon DEF PlaceInv, Types
  <1>9. ASSUME NEW h \in Handlers, Compact(h) \/ Erase(h) PROVE PlaceInv'
    <2>1. task[h] # None /\ UNCHANGED resorts
      BY <1>9, Zenon DEF Compact, Erase, history, At
    <2>2. CASE Return(h) /\ UNCHANGED store
      BY <1>3, <2>1, <2>2, Zenon
    <2>3. CASE \E d \in task[h].todo : Removes(h, d)
      BY <1>8, <2>1, <2>3, Zenon
    <2> QED
      BY <1>9, <2>2, <2>3, Zenon DEF Compact, Erase, Removes
  <1>10. ASSUME NEW b \in Bundle, Age(b) PROVE PlaceInv'
    BY <1>10, ZenonT(60) DEF PlaceInv, Types, InPlace, InHand, Age, history, At, ResortPersists
  <1>11. CASE Crash
    BY <1>11, Zenon DEF PlaceInv, Types, InPlace, InHand, Crash, history, At, ResortPersists
  <1>12. CASE UNCHANGED vars
    BY <1>12 DEF PlaceInv, Types, InPlace, InHand, vars, At, ResortPersists
  <1> QED
    BY <1>1, <1>2, <1>4, <1>5, <1>6, <1>7, <1>9, <1>10, <1>11, <1>12 DEF Next

\* A last-resort bundle that was accepted is never without a successor in its
\* place (upload, fetch and delete handlers), for any number of requests.
THEOREM ResortStays == Spec => []ResortPersists
  <1>1. PlaceInv => ResortPersists
    BY Zenon DEF PlaceInv
  <1> QED
    BY <1>1, PlaceInvInit, PlaceInvNext, PTL DEF Spec

-----------------------------------------------------------------------------
(* What a fetch deletes *)

\* No fetch is under way at the beginning.
LEMMA LostInvInit == Init => LostInv
  BY Zenon DEF Init, LostInv, Meets, Fetching, At, FetchDeletesServed

\* A step that leaves the store alone and one request in order.
LEMMA MeetsOnly ==
    ASSUME LostInv, NEW h \in Handlers, \A g \in Handlers : g # h => task'[g] = task[g],
           Meets(h)', UNCHANGED <<store, expired, lost, late>>
    PROVE  LostInv'
  <1>1. ASSUME NEW g \in Handlers, g # h PROVE Meets(g)'
    BY <1>1, ZenonT(60) DEF LostInv, Meets, Fetching, At
  <1> QED
    BY <1>1, Zenon DEF LostInv, FetchDeletesServed

\* What comes into the place of an entry that a fetch has scanned comes from
\* an upload, and is late.
LEMMA LostInvNext == PlaceInv /\ LostInv /\ [Next]_vars => LostInv'
  <1> SUFFICES ASSUME PlaceInv, LostInv, [Next]_vars PROVE LostInv'
    OBVIOUS
  <1>0. Types /\ \A h \in Handlers : InHand(h)
    BY DEF PlaceInv
  <1>1. ASSUME NEW h \in Handlers, NEW b \in Bundle, UploadPrekey(h, b) PROVE LostInv'
    <2>1. b.root \in Roots /\ SlotOf(b) \in Slot
      BY Places, Zenon
    <2>2. task'[h].pc = "check" /\ \A g \in Handlers : g # h => task'[g] = task[g]
      BY <1>0, <1>1, <2>1, BeginEffect, ZenonT(120) DEF UploadPrekey
    <2>3. Meets(h)'
      BY <2>2 DEF Meets, Fetching, At
    <2>4. UNCHANGED <<store, expired, lost, late>>
      BY <1>1 DEF UploadPrekey, history
    <2> QED
      BY <2>2, <2>3, <2>4, MeetsOnly
  <1>2. ASSUME NEW h \in Handlers, NEW r \in Roots, FetchPrekey(h, r) \/ DeletePrekey(h, r)
        PROVE  LostInv'
    <2>1. PICK pc \in {"scan", "list"} :
              Begin(h, [pc |-> pc, root |-> r, slot |-> "resort", bundle |-> None,
                        found |-> {}, todo |-> {}])
      BY <1>2, Zenon DEF FetchPrekey, DeletePrekey
    <2>2. task'[h].pc = pc /\ \A g \in Handlers : g # h => task'[g] = task[g]
      BY <1>0, <2>1, BeginEffect, ZenonT(120) DEF Slot
    <2>3. Meets(h)'
      BY <2>2, Zenon DEF Meets, Fetching, At
    <2>4. UNCHANGED <<store, expired, lost, late>>
      BY <1>2, Zenon DEF FetchPrekey, DeletePrekey, history
    <2> QED
      BY <2>2, <2>3, <2>4, MeetsOnly, Zenon
  <1>3. ASSUME NEW h \in Handlers, Return(h), UNCHANGED <<store, expired, lost, late>>
        PROVE  LostInv'
    <2>1. task'[h] = None /\ \A g \in Handlers : g # h => task'[g] = task[g]
      BY <1>0, <1>3, Ends, Zenon
    <2>2. Meets(h)'
      BY <2>1, Zenon DEF Meets, Fetching, At
    <2> QED
      BY <1>3, <2>1, <2>2, MeetsOnly
  <1>4. ASSUME NEW h \in Handlers, CheckReplay(h) PROVE LostInv'
    <2>0. UNCHANGED <<store, expired, lost, late>> /\ task[h] # None
      BY <1>4 DEF CheckReplay, history, At
    <2>1. CASE Return(h)
      BY <1>3, <2>0, <2>1, Zenon
    <2>2. CASE task' = [task EXCEPT ![h].pc = "insert"]
      <3>1. task'[h].pc = "insert" /\ \A g \in Handlers : g # h => task'[g] = task[g]
        BY <1>0, <2>0, <2>2, CheckEffect, Zenon
      <3>2. Meets(h)'
        BY <3>1, Zenon DEF Meets, Fetching, At
      <3> QED
        BY <2>0, <3>1, <3>2, MeetsOnly
    <2> QED
      BY <1>4, <2>1, <2>2, Zenon DEF CheckReplay
  <1>5. ASSUME NEW h \in Handlers, InsertBundle(h) PROVE LostInv'
    <2>0. At(h, "insert") /\ task[h] # None
      BY <1>5, Zenon DEF InsertBundle, At
    <2>1. PICK b \in Bundle, r \in Roots, s \in Slot :
              b = task[h].bundle /\ r = task[h].root /\ s = task[h].slot
      BY <1>0, <2>0, Fields, Zenon DEF InHand
    <2>2. store' = [store EXCEPT ![r][s] = b]
      BY <1>5, <2>1, Zenon DEF InsertBundle
    <2>3. /\ store'[r][s] = b
          /\ \A q \in Roots, z \in Slot : q # r \/ z # s => store'[q][z] = store[q][z]
      BY <1>0, <2>2, Writes, SMTT(30) DEF Types
    <2>4. task'[h] = None /\ \A g \in Handlers : g # h => task'[g] = task[g]
      BY <1>0, <1>5, Ends, Zenon DEF InsertBundle
    <2>5. /\ late \subseteq late' /\ UNCHANGED <<expired, lost>>
          /\ \A g \in Handlers : Fetching(g) /\ task[g].root = r /\ s \in task[g].todo => b \in late'
      BY <1>5, <2>1, Zenon DEF InsertBundle, Fetching
    <2>6. ASSUME NEW g \in Handlers, Fetching(g)' PROVE Meets(g)'
      <3>1. g # h /\ Fetching(g) /\ task'[g] = task[g] /\ task[g] # None
        BY <2>4, <2>6, Zenon DEF Fetching, At
      <3>2. task[g].root \in Roots /\ task[g].todo \subseteq Slot
        BY <1>0, <3>1, Fields DEF Slot
      <3> QED
        BY <2>3, <2>5, <3>1, <3>2 DEF LostInv, Meets
    <2> QED
      BY <2>5, <2>6, Zenon DEF LostInv, Meets, FetchDeletesServed
  <1>6. ASSUME NEW h \in Handlers, ScanBundles(h) PROVE LostInv'
    <2>1. PICK r \in Roots : r = task[h].root
      BY <1>0, <1>6, Fields, Zenon DEF ScanBundles, At
    <2>2. /\ task'[h].root = r
          /\ task'[h].todo = {d \in Devices : store[r][d] # None}
          /\ \A d \in task'[h].todo : Valid(store[r][d]) => store[r][d] \in task'[h].found
          /\ \A g \in Handlers : g # h => task'[g] = task[g]
      BY <1>0, <1>6, <2>1, ScanEffect, ZenonT(120)
    <2>3. UNCHANGED <<store, expired, lost, late>>
      BY <1>6, Zenon DEF ScanBundles
    <2>4. Meets(h)'
      BY <2>2, <2>3 DEF Meets, Valid
    <2> QED
      BY <2>2, <2>3, <2>4, MeetsOnly, Zenon
  <1>7. ASSUME NEW h \in Handlers, FallbackToResort(h) \/ ListBundles(h) PROVE LostInv'
    <2>0. UNCHANGED <<store, expired, lost, late>> /\ task[h] # None
      BY <1>7, Zenon DEF FallbackToResort, ListBundles, history, At
    <2>1. CASE Return(h)
      BY <1>3, <2>0, <2>1, Zenon
    <2>2. CASE ~Return(h)
      <3>1. /\ task'[h].root = task[h].root /\ task'[h].found = task[h].found
            /\ \/ task'[h].todo = task[h].todo /\ task[h].pc = "fallback"
               \/ task'[h].pc = "erase"
            /\ \A g \in Handlers : g # h => task'[g] = task[g]
        BY <1>0, <1>7, <2>2, StepEffect, Zenon
      <3>2. Meets(h)
        BY Zenon DEF LostInv
      <3>3. Meets(h)'
        BY <2>0, <3>1, <3>2, Zenon DEF Meets, Fetching, At
      <3> QED
        BY <2>0, <3>1, <3>3, MeetsOnly, Zenon
    <2> QED
      BY <2>1, <2>2
  \* What one request removes, no other meets any more.
  <1>8. ASSUME NEW h \in Handlers, task[h] # None, NEW d \in task[h].todo, Removes(h, d),
               UNCHANGED <<expired, late>>
        PROVE  \A g \in Handlers : Meets(g)'
    <2>1. /\ task'[h].pc = task[h].pc /\ task'[h].root = task[h].root
          /\ task'[h].found = task[h].found /\ task'[h].todo = task[h].todo \ {d}
          /\ \A g \in Handlers : g # h => task'[g] = task[g]
          /\ \A q \in Roots, z \in Slot : store'[q][z] \in {None, store[q][z]}
      BY <1>0, <1>8, DeleteEffect, ZenonT(60)
    <2>2. ASSUME NEW g \in Handlers, Fetching(g)' PROVE Meets(g)'
      <3>1. /\ Fetching(g) /\ task[g] # None
            /\ task'[g].root = task[g].root /\ task'[g].found = task[g].found
            /\ task'[g].todo \subseteq task[g].todo
        BY <1>8, <2>1, <2>2, Zenon DEF Fetching, At
      <3>2. task[g].root \in Roots /\ task[g].todo \subseteq Slot
        BY <1>0, <3>1, Fields DEF Slot
      <3>3. Meets(g)
        BY Zenon DEF LostInv
      <3> QED
        BY <1>8, <2>1, <3>1, <3>2, <3>3, SMTT(30) DEF Meets
    <2> QED
      BY <2>2, Zenon DEF Meets
  <1>9. ASSUME NEW h \in Handlers, Compact(h) PROVE LostInv'
    <2>0. task[h] # None /\ At(h, "compact") /\ UNCHANGED <<expired, late>>
      BY <1>9 DEF Compact, At
    <2>1. CASE Return(h) /\ UNCHANGED <<store, lost>>
      BY <1>3, <2>0, <2>1, Zenon
    <2>2. ASSUME NEW d \in task[h].todo, Removes(h, d),
                 lost' = lost \cup {b \in {store[task[h].root][d]} \ task[h].found : Valid(b)}
          PROVE  LostInv'
      <3>1. \A g \in Handlers : Meets(g)'
        BY <1>8, <2>0, <2>2
      <3>2. store[task[h].root][d] \in {None} \cup task[h].found \cup expired \cup late
        BY <2>0, Zenon DEF LostInv, Meets, Fetching
      <3>3. lost' \subseteq late
        BY <2>2, <3>2 DEF Valid, LostInv, FetchDeletesServed
      <3> QED
        BY <2>0, <3>1, <3>3, Zenon DEF LostInv, FetchDeletesServed
    <2> QED
      BY <1>9, <2>1, <2>2, Zenon DEF Compact, Removes
  <1>10. ASSUME NEW h \in Handlers, Erase(h) PROVE LostInv'
    <2>0. task[h] # None /\ UNCHANGED <<expired, late, lost>>
      BY <1>10 DEF Erase, At, history
    <2>1. CASE Return(h) /\ UNCHANGED store
      BY <1>3, <2>0, <2>1, Zenon
    <2>2. ASSUME NEW d \in task[h].todo, Removes(h, d) PROVE LostInv'
      BY <1>8, <2>0, <2>2, Zenon DEF LostInv, FetchDeletesServed
    <2> QED
      BY <1>10, <2>1, <2>2, Zenon DEF Erase, Removes
  <1>11. ASSUME NEW b \in Bundle, Age(b) PROVE LostInv'
    BY <1>11, ZenonT(60) DEF LostInv, Meets, Fetching, Age, history, At, FetchDeletesServed
  <1>12. CASE Crash
    BY <1>12, Zenon DEF LostInv, Meets, Fetching, Crash, history, At, FetchDeletesServed
  <1>13. CASE UNCHANGED vars
    BY <1>13 DEF LostInv, Meets, Fetching, vars, At, FetchDeletesServed
  <1> QED
    BY <1>1, <1>2, <1>4, <1>5, <1>6, <1>7, <1>9, <1>10, <1>11, <1>12, <1>13, ZenonT(60) DEF Next

\* A fetch deletes a valid bundle that it does not return only if that was
\* uploaded between its scan and its deletions (fetch_prekey_handler), for any
\* number of requests.
THEOREM OnlyLateLost == Spec => []FetchDeletesServed
  <1>1. LostInv => FetchDeletesServed
    BY DEF LostInv
  <1> QED
    BY <1>1, PlaceInvInit, PlaceInvNext, LostInvInit, LostInvNext, PTL DEF Spec

-----------------------------------------------------------------------------
(* What is served *)

\* Nothing is stored or held at the beginning.
LEMMA ReuseInvInit == Init => ReuseInv
  <1> SUFFICES ASSUME Init PROVE ReuseInv
    BY Zenon
  <1>1. ASSUME NEW b \in Bundle PROVE OneUse(b)
    <2>1. ~Stored(b)
      BY Places, NoneAssumption DEF Init, Stored
    <2>2. \A h \in Handlers : ~Holds(h, b)
      BY Zenon DEF Init, Holds
    <2> QED
      BY <2>1, <2>2, Zenon DEF Init, OneUse
  <1> QED
    BY <1>1 DEF Init, ReuseInv, ReuseNeedsRace

\* A step after which nobody holds b who did not, and its entry is as it was or
\* gone.
LEMMA NoNewHolder ==
    ASSUME NEW b, OneUse(b), Stored(b)' => Stored(b),
           \A g \in Handlers : Holds(g, b)' =>
               /\ Holds(g, b) /\ task'[g].root = task[g].root
               /\ Stored(b)' /\ SlotOf(b) \in task[g].todo => SlotOf(b) \in task'[g].todo,
           accepted \subseteq accepted', again \subseteq again', raced \subseteq raced',
           UNCHANGED served
    PROVE  OneUse(b)'
  <1>1. (b \in served \/ Stored(b))' => b \in accepted'
    BY Zenon DEF OneUse
  <1>2. ASSUME NEW h \in Handlers, Holds(h, b)' PROVE b \in accepted' /\ task'[h].root = b.root
    BY <1>2, Zenon DEF OneUse
  <1>3. ASSUME b \notin raced' \cup again'
        PROVE  /\ b \in served' => ~Stored(b)'
               /\ \A h \in Handlers : Holds(h, b)' =>
                      /\ b \notin served'
                      /\ Stored(b)' => SlotOf(b) \in task'[h].todo
                      /\ \A g \in Handlers : Holds(g, b)' => g = h
    BY <1>3, Zenon DEF OneUse
  <1>4. SlotOf(b)' = SlotOf(b)
    BY DEF SlotOf
  <1> QED
    BY <1>1, <1>2, <1>3, <1>4, Zenon DEF OneUse

\* The same of a step of one request that leaves the store alone.
LEMMA ReuseOnly ==
    ASSUME ReuseInv, NEW h \in Handlers, \A g \in Handlers : g # h => task'[g] = task[g],
           \/ task'[h] = None \/ task'[h].found = {}
           \/ /\ task[h] # None /\ task'[h].root = task[h].root
              /\ task'[h].found = task[h].found /\ task'[h].todo = task[h].todo,
           UNCHANGED <<store, accepted, again, served, twice, raced>>
    PROVE  ReuseInv'
  <1>1. ASSUME NEW b \in Bundle PROVE OneUse(b)'
    <2>1. Stored(b)' = Stored(b)
      BY Zenon DEF Stored, SlotOf
    <2>2. ASSUME NEW g \in Handlers, Holds(g, b)'
          PROVE  Holds(g, b) /\ task'[g].root = task[g].root /\ task'[g].todo = task[g].todo
      BY <2>2, Zenon DEF Holds
    <2>3. OneUse(b)
      BY DEF ReuseInv
    <2> QED
      BY <2>1, <2>2, <2>3, NoNewHolder, Zenon
  <1> QED
    BY <1>1, Zenon DEF ReuseInv, ReuseNeedsRace

\* A step that removes one entry.
LEMMA ReuseRemoves ==
    ASSUME PlaceInv, ReuseInv, NEW h \in Handlers, task[h] # None, NEW d \in task[h].todo,
           Removes(h, d), UNCHANGED <<accepted, again, served, twice, raced>>
    PROVE  ReuseInv'
  <1>1. /\ task'[h] # None /\ task'[h].root = task[h].root
        /\ task'[h].found = task[h].found /\ task'[h].todo = task[h].todo \ {d}
        /\ \A g \in Handlers : g # h => task'[g] = task[g]
        /\ store'[task[h].root][d] = None
        /\ \A q \in Roots, z \in Slot : store'[q][z] \in {None, store[q][z]}
    BY DeleteEffect, SMTT(30) DEF PlaceInv
  <1>2. ASSUME NEW b \in Bundle PROVE OneUse(b)'
    <2>1. OneUse(b) /\ b # None /\ b.root \in Roots /\ SlotOf(b) \in Slot
      BY Places, NoneAssumption, Zenon DEF ReuseInv
    <2>2. Stored(b)' => Stored(b)
      BY <1>1, <2>1, ZenonT(60) DEF Stored, SlotOf
    <2>3. ASSUME NEW g \in Handlers, Holds(g, b)'
          PROVE  /\ Holds(g, b) /\ task'[g].root = task[g].root
                 /\ Stored(b)' /\ SlotOf(b) \in task[g].todo => SlotOf(b) \in task'[g].todo
      <3>1. Holds(g, b) /\ task'[g].root = task[g].root
        BY <1>1, <2>3, Zenon DEF Holds
      <3>2. task[g].root = b.root
        BY <2>1, <3>1, Zenon DEF OneUse
      <3>3. ASSUME g = h, Stored(b)' PROVE SlotOf(b) # d
        BY <1>1, <2>1, <3>2, <3>3 DEF Stored, SlotOf
      <3> QED
        BY <1>1, <3>1, <3>3, SMTT(30)
    <2> QED
      BY <2>1, <2>2, <2>3, NoNewHolder, Zenon
  <1> QED
    BY <1>2, ZenonT(60) DEF ReuseInv, ReuseNeedsRace

\* A bundle that is accepted for the first time is in no fetch.
LEMMA ReuseInsert ==
    ASSUME PlaceInv, ReuseInv, NEW h \in Handlers, InsertBundle(h)
    PROVE  ReuseInv'
  <1>1. PICK c \in Bundle : /\ c = task[h].bundle /\ c.root = task[h].root
                            /\ SlotOf(c) = task[h].slot
    BY DEF PlaceInv, InHand, InsertBundle
  <1>2. c.root \in Roots /\ SlotOf(c) \in Slot /\ Types
    BY Places, Zenon DEF PlaceInv
  <1>3. store' = [store EXCEPT ![c.root][SlotOf(c)] = c]
    BY <1>1, Zenon DEF InsertBundle
  <1>4. \A q \in Roots, z \in Slot :
            store'[q][z] = IF q = c.root /\ z = SlotOf(c) THEN c ELSE store[q][z]
    BY <1>2, <1>3, Zenon DEF Types
  <1>5. task'[h] = None /\ \A g \in Handlers : g # h => task'[g] = task[g]
    BY <1>2, Ends, Zenon DEF InsertBundle
  <1>6. /\ accepted' = accepted \cup {c} /\ again' = again \cup ({c} \cap accepted)
        /\ UNCHANGED <<served, twice, raced>>
    BY <1>1 DEF InsertBundle
  <1>7. ASSUME NEW b \in Bundle PROVE OneUse(b)'
    <2>1. OneUse(b) /\ b.root \in Roots /\ SlotOf(b) \in Slot
      BY Places DEF ReuseInv
    <2>2. ASSUME NEW g \in Handlers, Holds(g, b)' PROVE Holds(g, b) /\ task'[g] = task[g]
      BY <1>5, <2>2, Zenon DEF Holds
    <2>3. CASE b # c
      <3>1. Stored(b)' => Stored(b)
        BY <1>4, <2>1, <2>3 DEF Stored, SlotOf
      <3> QED
        BY <1>6, <2>1, <2>2, <3>1, NoNewHolder, Zenon
    <2>4. CASE b = c /\ c \in accepted
      BY <1>6, <2>1, <2>2, <2>4, Zenon DEF OneUse
    <2>5. CASE b = c /\ c \notin accepted
      <3>1. b \notin served' /\ \A g \in Handlers : ~Holds(g, b)'
        BY <1>6, <2>1, <2>2, <2>5, Zenon DEF OneUse
      <3> QED
        BY <1>6, <2>5, <3>1, Zenon DEF OneUse
    <2> QED
      BY <2>3, <2>4, <2>5
  <1> QED
    BY <1>6, <1>7, Zenon DEF ReuseInv, ReuseNeedsRace

\* What a scan finds is stored, so it was not served, and whoever else holds it
\* makes it a race.
LEMMA ReuseScan ==
    ASSUME PlaceInv, ReuseInv, NEW h \in Handlers, ScanBundles(h)
    PROVE  ReuseInv'
  <1>0. Types /\ At(h, "scan") /\ UNCHANGED <<store, accepted, again, served, twice>>
    BY DEF PlaceInv, ScanBundles
  <1>1. PICK r \in Roots : r = task[h].root
    BY <1>0, Fields, Zenon DEF At
  <1> DEFINE used  == {d \in Devices : store[r][d] # None}
             found == {store[r][d] : d \in {d \in used : Valid(store[r][d])}}
  <1>2. /\ task'[h] # None /\ task'[h].root = r
        /\ task'[h].found = found /\ task'[h].todo = used
        /\ \A g \in Handlers : g # h => task'[g] = task[g]
    BY <1>0, <1>1, ScanEffect, ZenonT(120)
  <1>a. raced' = raced \cup {b \in found :
                                 \E g \in Handlers : At(g, "compact") /\ b \in task[g].found}
    BY <1>1, Zenon DEF ScanBundles
  <1>3. raced' = raced \cup {b \in task'[h].found :
                                 \E g \in Handlers : At(g, "compact") /\ b \in task[g].found}
    BY <1>2, <1>a, Zenon
  <1>4. \A g \in Handlers, b \in Bundle : Holds(g, b) => At(g, "compact") /\ b \in task[g].found
    BY DEF PlaceInv, InHand, Holds, At
  <1>5. ASSUME NEW b \in Bundle PROVE OneUse(b)'
    <2>1. OneUse(b) /\ (Stored(b)' <=> Stored(b))
      BY <1>0, Zenon DEF ReuseInv, Stored, SlotOf
    <2>2. CASE b \notin task'[h].found
      <3>1. \A g \in Handlers : Holds(g, b)' => Holds(g, b) /\ task'[g] = task[g]
        BY <1>2, <2>2, SMTT(30) DEF Holds
      <3> QED
        BY <1>0, <1>3, <2>1, <3>1, NoNewHolder, Zenon
    <2>3. CASE b \in task'[h].found
      <3>1. PICK d \in Devices : b = store[r][d] /\ store[r][d] # None
        BY <1>2, <2>3
      <3>2. b.root = r /\ SlotOf(b) = d /\ Stored(b) /\ d \in task'[h].todo
        BY <1>2, <3>1, Zenon DEF PlaceInv, InPlace, Slot, Stored
      <3>3. b \in accepted
        BY <2>1, <3>2, Zenon DEF OneUse
      <3>4. ASSUME NEW g \in Handlers, Holds(g, b)'
            PROVE  task'[g].root = b.root /\ (g = h \/ Holds(g, b))
        BY <1>2, <2>1, <3>2, <3>4, SMTT(30) DEF Holds, OneUse
      <3>5. ASSUME b \notin raced' \cup again'
            PROVE  b \notin served /\ \A g \in Handlers : Holds(g, b)' => g = h
        <4>1. b \notin raced \cup again /\ \A g \in Handlers : ~Holds(g, b)
          BY <1>0, <1>3, <1>4, <2>3, <3>5, Zenon
        <4> QED
          BY <2>1, <3>2, <3>4, <4>1, Zenon DEF OneUse
      <3>6. SlotOf(b)' = d
        BY <3>2, Zenon DEF SlotOf
      <3> QED
        BY <1>0, <2>1, <3>2, <3>3, <3>4, <3>5, <3>6, Zenon DEF OneUse
    <2> QED
      BY <2>2, <2>3
  <1> QED
    BY <1>0, <1>3, <1>5, Zenon DEF ReuseInv, ReuseNeedsRace

\* A fetch answers once what it holds is no longer stored.
LEMMA ReuseAnswer ==
    ASSUME PlaceInv, ReuseInv, NEW h \in Handlers, task[h] # None, task[h].todo = {}, Return(h),
           served' = served \cup task[h].found, twice' = twice \cup (task[h].found \cap served),
           UNCHANGED <<store, accepted, again, raced>>
    PROVE  ReuseInv'
  <1>1. task'[h] = None /\ (\A g \in Handlers : g # h => task'[g] = task[g])
    BY Ends, Zenon DEF PlaceInv
  <1>2. task[h].found \subseteq Bundle
    BY Fields, Zenon DEF PlaceInv
  <1>3. ASSUME NEW b \in Bundle PROVE OneUse(b)'
    <2>1. OneUse(b) /\ (Stored(b)' <=> Stored(b))
      BY DEF ReuseInv, Stored, SlotOf
    <2>2. \A g \in Handlers : Holds(g, b)' => Holds(g, b) /\ task'[g] = task[g] /\ g # h
      BY <1>1, Zenon DEF Holds
    <2>3. CASE b \notin task[h].found
      BY <2>1, <2>2, <2>3, ZenonT(60) DEF OneUse, SlotOf
    <2>4. CASE b \in task[h].found
      <3>1. Holds(h, b)
        BY <2>4, Zenon DEF Holds
      <3>2. b \in accepted
        BY <2>1, <3>1, Zenon DEF OneUse
      <3>3. ASSUME b \notin raced \cup again
            PROVE  ~Stored(b) /\ \A g \in Handlers : ~Holds(g, b)'
        BY <2>1, <2>2, <3>1, <3>3, Zenon DEF OneUse
      <3> QED
        BY <2>1, <2>2, <3>2, <3>3 DEF OneUse
    <2> QED
      BY <2>3, <2>4, Zenon
  <1>4. ASSUME NEW b \in task[h].found \cap served PROVE b \in raced \cup again
    BY <1>2, <1>4 DEF ReuseInv, OneUse, Holds
  <1> QED
    BY <1>3, <1>4 DEF ReuseInv, ReuseNeedsRace

\* Every step keeps every bundle in one use.
LEMMA ReuseInvNext == PlaceInv /\ ReuseInv /\ [Next]_vars => ReuseInv'
  <1> SUFFICES ASSUME PlaceInv, ReuseInv, [Next]_vars PROVE ReuseInv'
    BY Zenon
  <1>0. Types /\ \A h \in Handlers : InHand(h)
    BY Zenon DEF PlaceInv
  <1>1. ASSUME NEW h \in Handlers, NEW b \in Bundle, UploadPrekey(h, b) PROVE ReuseInv'
    <2>1. b.root \in Roots /\ SlotOf(b) \in Slot
      BY Places, Zenon
    <2>2. task'[h].found = {} /\ \A g \in Handlers : g # h => task'[g] = task[g]
      BY <1>0, <1>1, <2>1, BeginEffect, ZenonT(120) DEF UploadPrekey
    <2> QED
      BY <1>1, <2>2, ReuseOnly, Zenon DEF UploadPrekey, history
  <1>2. ASSUME NEW h \in Handlers, NEW r \in Roots, FetchPrekey(h, r) \/ DeletePrekey(h, r)
        PROVE  ReuseInv'
    <2>1. PICK pc \in {"scan", "list"} :
              Begin(h, [pc |-> pc, root |-> r, slot |-> "resort", bundle |-> None,
                        found |-> {}, todo |-> {}])
      BY <1>2 DEF FetchPrekey, DeletePrekey
    <2>2. task'[h].found = {} /\ \A g \in Handlers : g # h => task'[g] = task[g]
      BY <1>0, <2>1, BeginEffect, ZenonT(60) DEF Slot
    <2> QED
      BY <1>2, <2>2, ReuseOnly, Zenon DEF FetchPrekey, DeletePrekey, history
  <1>3. ASSUME NEW h \in Handlers, Return(h),
               UNCHANGED <<store, accepted, again, served, twice, raced>>
        PROVE  ReuseInv'
    BY <1>0, <1>3, Ends, ReuseOnly
  <1>4. ASSUME NEW h \in Handlers, CheckReplay(h) PROVE ReuseInv'
    <2>0. /\ UNCHANGED <<store, accepted, again, served, twice, raced>> /\ task[h] # None
          /\ task[h].found = {}
      BY <1>0, <1>4, Zenon DEF CheckReplay, history, At, InHand
    <2>1. CASE task' = [task EXCEPT ![h].pc = "insert"]
      <3>1. task'[h].found = {} /\ \A g \in Handlers : g # h => task'[g] = task[g]
        BY <1>0, <2>0, <2>1, CheckEffect, Zenon
      <3> QED
        BY <2>0, <3>1, ReuseOnly, Zenon
    <2> QED
      BY <1>3, <1>4, <2>0, <2>1 DEF CheckReplay
  <1>5. ASSUME NEW h \in Handlers, FallbackToResort(h) \/ ListBundles(h) PROVE ReuseInv'
    <2>0. /\ UNCHANGED <<store, accepted, again, served, twice, raced>> /\ task[h] # None
          /\ task[h].found = {}
      BY <1>0, <1>5, Zenon DEF FallbackToResort, ListBundles, history, At, InHand
    <2>1. CASE ~Return(h)
      <3>1. task'[h].found = {} /\ \A g \in Handlers : g # h => task'[g] = task[g]
        BY <1>0, <1>5, <2>0, <2>1, StepEffect, Zenon
      <3> QED
        BY <2>0, <3>1, ReuseOnly, Zenon
    <2> QED
      BY <1>3, <2>0, <2>1
  <1>6. ASSUME NEW h \in Handlers, Compact(h) PROVE ReuseInv'
    <2>0. task[h] # None /\ UNCHANGED <<accepted, again, raced>>
      BY <1>6, Zenon DEF Compact, At
    <2>1. ASSUME NEW d \in task[h].todo, Removes(h, d), UNCHANGED <<served, twice>>
          PROVE  ReuseInv'
      BY <2>0, <2>1, ReuseRemoves, Zenon
    <2>2. CASE /\ task[h].todo = {} /\ Return(h) /\ UNCHANGED store
               /\ served' = served \cup task[h].found
               /\ twice' = twice \cup (task[h].found \cap served)
      BY <2>0, <2>2, ReuseAnswer
    <2> QED
      BY <1>6, <2>1, <2>2, Zenon DEF Compact, Removes
  <1>7. ASSUME NEW h \in Handlers, Erase(h) PROVE ReuseInv'
    <2>0. task[h] # None /\ UNCHANGED <<accepted, again, served, twice, raced>>
      BY <1>7 DEF Erase, At, history
    <2>1. ASSUME NEW d \in task[h].todo, Removes(h, d) PROVE ReuseInv'
      BY <2>0, <2>1, ReuseRemoves, Zenon
    <2> QED
      BY <1>3, <1>7, <2>0, <2>1, Zenon DEF Erase, Removes
  <1>8. CASE Crash \/ UNCHANGED vars \/ \E b \in Bundle : Age(b)
    <2>1. /\ UNCHANGED <<store, accepted, again, served, twice, raced>>
          /\ \A g \in Handlers : task'[g] = None \/ task'[g] = task[g]
      BY <1>8 DEF Crash, vars, Age, history
    <2>2. ASSUME NEW b \in Bundle PROVE OneUse(b)'
      <3>1. OneUse(b) /\ (Stored(b)' <=> Stored(b))
        BY <2>1, Zenon DEF ReuseInv, Stored, SlotOf
      <3>2. \A g \in Handlers : Holds(g, b)' => Holds(g, b) /\ task'[g] = task[g]
        BY <2>1 DEF Holds
      <3> QED
        BY <2>1, <3>1, <3>2, NoNewHolder, Zenon
    <2> QED
      BY <2>1, <2>2, Zenon DEF ReuseInv, ReuseNeedsRace
  <1> QED
    BY <1>1, <1>2, <1>4, <1>5, <1>6, <1>7, <1>8, ReuseInsert, ReuseScan, Zenon DEF Next

\* A one-time bundle is handed out twice only if two fetches held it at a time
\* or its device uploaded it again (fetch_prekey_handler), whatever other
\* requests and crashes come in between.
THEOREM NoOtherReuse == Spec => []ReuseNeedsRace
  <1>1. ReuseInv => ReuseNeedsRace
    BY DEF ReuseInv
  <1> QED
    BY <1>1, PlaceInvInit, PlaceInvNext, ReuseInvInit, ReuseInvNext, PTL DEF Spec
=============================================================================
