---------------------------- MODULE PrekeyServer ----------------------------
(***************************************************************************)
(* The prekey endpoints of the server (server/src/main.rs): devices upload *)
(* bundles of prekeys, one per device and one of last resort per identity; *)
(* a peer that wants to start a session fetches them, and what it fetched  *)
(* is deleted; the owner may delete them.                                  *)
(*                                                                         *)
(* A step is one database transaction, and requests interleave.  A bundle  *)
(* is its bundle_id, the identity and the device it belongs to; bundles    *)
(* whose signatures are bad are refused before anything is read and do not *)
(* appear.  Requests that the rate limiter refuses change nothing.         *)
(***************************************************************************)
EXTENDS Naturals

CONSTANTS
    Roots,          \* identity keys
    Devices,
    BundleIds,
    Owner,          \* the device that drew a bundle_id; it is random
    LastResort,     \* the bundles that are uploaded with is_last_resort
    Handlers,
    None,
    Reuploaded,     \* bundles that their device may upload again
    ShortLived      \* bundles that reach the end of their validity

Bundle == {b \in [root : Roots, device : Devices, id : BundleIds] : b.device = Owner[b.id]}

ASSUME OwnerAssumption == Owner \in [BundleIds -> Devices]

Slot == Devices \cup {"resort"}

\* What a request has in hand: the slot and bundle of an upload, the bundles
\* a fetch will answer with, the keys that are to be deleted.
Request == [pc : {"check", "insert", "scan", "fallback", "compact", "list", "erase"},
            root : Roots, slot : Slot, bundle : Bundle \cup {None},
            found : SUBSET Bundle, todo : SUBSET Devices]

ASSUME NoneAssumption == None \notin Bundle /\ None \notin Request

ASSUME SlotAssumption == "resort" \notin Devices

VARIABLES
    store,      \* tree_prekeys
    expired,    \* bundles that no longer validate
    task,       \* the requests under way
    accepted,   \* bundles whose upload was answered with 200
    again,      \* those that were accepted more than once
    served,     \* one-time bundles that a fetch was answered with
    twice,      \* one-time bundles that two fetches were answered with
    resorts,    \* identities with an accepted last-resort bundle
    lost,       \* one-time bundles deleted by a fetch that does not return them
    raced,      \* one-time bundles that two fetches held at a time
    late        \* one-time bundles uploaded to a slot a fetch is about to delete

vars == <<store, expired, task, accepted, again, served, twice, resorts, lost,
          raced, late>>

history == <<accepted, again, served, twice, resorts, lost, raced, late>>

At(h, pc) == task[h] # None /\ task[h].pc = pc

Return(h) == task' = [task EXCEPT ![h] = None]

Begin(h, r) == task' = [task EXCEPT ![h] = r]

Valid(b) == b # None /\ b \notin expired

-----------------------------------------------------------------------------
(* Upload *)

\* db_key of the upload handler: one entry for the device, one of last resort.
SlotOf(b) == IF b.id \in LastResort THEN "resort" ELSE b.device

\* A bundle that validates arrives, as a one-time or as a last-resort bundle.
UploadPrekey(h, b) ==
    /\ task[h] = None
    /\ b \notin expired
    /\ b.id \notin Reuploaded => /\ b \notin accepted
                                /\ \A g \in Handlers : task[g] # None => task[g].bundle # b
    /\ Begin(h, [pc |-> "check", root |-> b.root, slot |-> SlotOf(b), bundle |-> b,
                 found |-> {}, todo |-> {}])
    /\ UNCHANGED <<store, expired, history>>

\* The bundle_id is compared with that of the bundle stored in its place.
CheckReplay(h) ==
    LET t == task[h]
        existing == store[t.root][t.slot]
    IN  /\ At(h, "check")
        /\ IF existing # None /\ existing.id = t.bundle.id
           THEN Return(h)
           ELSE task' = [task EXCEPT ![h].pc = "insert"]
        /\ UNCHANGED <<store, expired, history>>

\* The entry is written, whatever is in its place by now.
InsertBundle(h) ==
    LET t == task[h]
    IN  /\ At(h, "insert")
        /\ store' = [store EXCEPT ![t.root][t.slot] = t.bundle]
        /\ accepted' = accepted \cup {t.bundle}
        /\ again' = again \cup ({t.bundle} \cap accepted)
        /\ resorts' = IF t.slot = "resort" THEN resorts \cup {t.root} ELSE resorts
        /\ late' = IF \E g \in Handlers : /\ At(g, "fallback") \/ At(g, "compact")
                                         /\ task[g].root = t.root /\ t.slot \in task[g].todo
                   THEN late \cup {t.bundle} ELSE late
        /\ Return(h)
        /\ UNCHANGED <<expired, served, twice, lost, raced>>

-----------------------------------------------------------------------------
(* Fetch *)

FetchPrekey(h, r) ==
    /\ task[h] = None
    /\ Begin(h, [pc |-> "scan", root |-> r, slot |-> "resort", bundle |-> None,
                 found |-> {}, todo |-> {}])
    /\ UNCHANGED <<store, expired, history>>

\* Mutant: one bundle is returned and the entries of all devices are deleted.
ScanBundles_One(h) ==
    LET r == task[h].root
        used == {d \in Devices : store[r][d] # None}
    IN  /\ At(h, "scan")
        /\ \E d \in used :
               task' = [task EXCEPT ![h] = [@ EXCEPT !.pc = "compact", !.todo = used,
                                                     !.found = {store[r][d]}]]
        /\ UNCHANGED <<store, expired, history>>

\* One read of all the identity's one-time bundles: the valid ones will be
\* returned, all of them deleted.
ScanBundles(h) ==
    LET r == task[h].root
        used == {d \in Devices : store[r][d] # None}
        found == {store[r][d] : d \in {d \in used : Valid(store[r][d])}}
    IN  /\ At(h, "scan")
        /\ task' = [task EXCEPT ![h] = [@ EXCEPT
                        !.pc = IF found = {} THEN "fallback" ELSE "compact",
                        !.found = found, !.todo = used]]
        /\ raced' = raced \cup {b \in found : \E g \in Handlers : At(g, "compact") /\ b \in task[g].found}
        /\ UNCHANGED <<store, expired, accepted, again, served, twice, resorts, lost, late>>

\* Mutant: the last-resort bundle is used up like the others.
FallbackToResort_Consumes(h) ==
    LET r == task[h].root
    IN  /\ At(h, "fallback")
        /\ store' = [store EXCEPT ![r]["resort"] = None]
        /\ IF Valid(store[r]["resort"])
           THEN task' = [task EXCEPT ![h].pc = "compact"]
           ELSE Return(h)
        /\ UNCHANGED <<expired, history>>

\* No one-time bundle: the one of last resort, or 404, and then the expired
\* entries stay.
FallbackToResort(h) ==
    LET b == store[task[h].root]["resort"]
    IN  /\ At(h, "fallback")
        /\ \/ /\ Valid(b)
              /\ task' = [task EXCEPT ![h] = [@ EXCEPT !.pc = "compact", !.bundle = b]]
           \/ /\ ~Valid(b)
              /\ Return(h)
        /\ UNCHANGED <<store, expired, history>>

\* Mutant: the answer is sent first and the entries are deleted afterwards.
Compact_AnswersFirst(h) ==
    LET t == task[h]
    IN  /\ At(h, "compact")
        /\ served' = served \cup t.found
        /\ twice' = twice \cup (t.found \cap served)
        /\ IF t.found # {}
           THEN task' = [task EXCEPT ![h].found = {}] /\ UNCHANGED store
           ELSE /\ store' = [store EXCEPT ![t.root] = [s \in Slot |->
                                 IF s \in t.todo THEN None ELSE @[s]]]
                /\ Return(h)
        /\ UNCHANGED <<expired, accepted, again, resorts, lost, raced, late>>

\* The deletions, one transaction each, and then the answer.
Compact(h) ==
    LET t == task[h]
    IN  /\ At(h, "compact")
        /\ \/ \E d \in t.todo :
                /\ store' = [store EXCEPT ![t.root][d] = None]
                /\ lost' = lost \cup {b \in {store[t.root][d]} \ t.found : Valid(b)}
                /\ task' = [task EXCEPT ![h].todo = @ \ {d}]
                /\ UNCHANGED <<served, twice>>
           \/ /\ t.todo = {}
              /\ served' = served \cup t.found
              /\ twice' = twice \cup (t.found \cap served)
              /\ Return(h)
              /\ UNCHANGED <<store, lost>>
        /\ UNCHANGED <<expired, accepted, again, resorts, raced, late>>

-----------------------------------------------------------------------------
(* Delete *)

\* The caller's token names the identity.
DeletePrekey(h, r) ==
    /\ task[h] = None
    /\ Begin(h, [pc |-> "list", root |-> r, slot |-> "resort", bundle |-> None,
                 found |-> {}, todo |-> {}])
    /\ UNCHANGED <<store, expired, history>>

ListBundles(h) ==
    LET r == task[h].root
        used == {d \in Devices : store[r][d] # None}
    IN  /\ At(h, "list")
        /\ task' = [task EXCEPT ![h] = [@ EXCEPT !.pc = "erase", !.todo = used]]
        /\ UNCHANGED <<store, expired, history>>

Erase(h) ==
    LET t == task[h]
    IN  /\ At(h, "erase")
        /\ \/ \E d \in t.todo :
                /\ store' = [store EXCEPT ![t.root][d] = None]
                /\ task' = [task EXCEPT ![h].todo = @ \ {d}]
           \/ /\ t.todo = {}
              /\ Return(h)
              /\ UNCHANGED store
        /\ UNCHANGED <<expired, history>>

-----------------------------------------------------------------------------

Age(b) ==
    /\ b.id \in ShortLived
    /\ expired' = expired \cup {b}
    /\ UNCHANGED <<store, task, history>>

\* The server restarts: the requests under way are gone.
Crash ==
    /\ task' = [h \in Handlers |-> None]
    /\ UNCHANGED <<store, expired, history>>

Init ==
    /\ store = [r \in Roots |-> [s \in Slot |-> None]]
    /\ expired = {}
    /\ task = [h \in Handlers |-> None]
    /\ accepted = {} /\ again = {}
    /\ served = {} /\ twice = {}
    /\ resorts = {} /\ lost = {}
    /\ raced = {} /\ late = {}

Next ==
    \/ \E h \in Handlers :
           \/ \E b \in Bundle : UploadPrekey(h, b)
           \/ \E r \in Roots : FetchPrekey(h, r) \/ DeletePrekey(h, r)
           \/ CheckReplay(h) \/ InsertBundle(h)
           \/ ScanBundles(h) \/ FallbackToResort(h) \/ Compact(h)
           \/ ListBundles(h) \/ Erase(h)
    \/ \E b \in Bundle : Age(b)
    \/ Crash

Spec == Init /\ [][Next]_vars

-----------------------------------------------------------------------------
(* Properties *)

\* A last-resort bundle, once accepted, is there for every later fetch: no
\* fetch and no deletion, alone or interleaved, takes it away ("It persists
\* forever").
ResortPersists == \A r \in resorts : store[r]["resort"] # None

\* Zero-Reuse, as far as fetch_prekey_handler guarantees it: a one-time
\* bundle is handed out twice only if two fetches held it at a time, or its
\* device uploaded it again; a crash between scan, deletions and answer does
\* not bring it back.
ReuseNeedsRace == twice \subseteq raced \cup again

\* A fetch deletes what it returns and what is no longer valid; it deletes
\* another bundle only if that was uploaded between its scan and its
\* deletions.
FetchDeletesServed == lost \subseteq late
=============================================================================
