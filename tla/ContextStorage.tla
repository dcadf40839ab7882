--------------------------- MODULE ContextStorage ---------------------------
(***************************************************************************)
(* Saving a SecureContext to disk and loading it again (core/src/storage.rs *)
(* and save_to_disk, load_from_disk of core/src/lib.rs): threads of one    *)
(* process that change the context and save it, each save a series of file *)
(* operations under a lock file, and a process that stops, crashes or      *)
(* meets an I/O error between any two of them.                             *)
(*                                                                         *)
(* The context is one pairwise session and one group.  A message key is a  *)
(* chain and a position on it.  A manifest stands for the payload whose    *)
(* hash it holds; every save encrypts under a new nonce and a new sequence *)
(* number, so no two blobs have the same hash.  The group's chain is not   *)
(* rotated.  A context that cannot be loaded is not replaced by a new one. *)
(***************************************************************************)
EXTENDS Naturals

CONSTANTS
    Threads,
    None,           \* no file, no context, no save under way
    Torn,           \* a file that was cut off while it was written
    MaxMessages,    \* ChainKey::DEFAULT_MAX_MESSAGES and reserved_until
    MaxChanges,     \* bound on the changes of a context
    MaxSeq,         \* bound on the sequence number
    MaxChains,      \* bound on the chains made
    Events          \* what may befall a save, subset of Event

Event == {"crash", "io", "unlock"}

ASSUME EventsAssumption == Events \subseteq Event

ASSUME BoundsAssumption ==
    /\ MaxMessages \in Nat \ {0}
    /\ MaxChanges \in Nat /\ MaxSeq \in Nat /\ MaxChains \in Nat

\* "index" is what the chain says of its position, "n" how often its key was
\* moved on; "remote" is whether the peer's DH key is known.
Session == [chain : Nat, index : Nat, n : Nat, remote : BOOLEAN]

Group == [chain : Nat, n : Nat]

\* "change" counts the changes that led to this state.
State == [change : Nat, session : Session, group : Group]

Context == [seq : Nat, state : State]

Payload == [seq : Nat, state : State]

Save == [pc : {"lock", "write", "truncate", "fill", "rename", "unlock"},
         seq : Nat, payload : Payload \cup {None}]

ASSUME NoneAssumption ==
    /\ None \notin Context /\ None \notin Payload /\ None \notin Save
    /\ Torn \notin Payload /\ Torn # None

VARIABLES
    ctx,        \* the context in memory, None when the process is not running
    task,       \* the save each thread is in
    lock,       \* is there a .lock file?
    tmp,        \* the .tmp file
    manifest,   \* the .manifest file
    blob,       \* the file itself
    chains,     \* number of chains made so far
    used,       \* keys that a message was encrypted under
    reused,     \* those that a second message was encrypted under
    saved,      \* change of the newest state whose save returned Ok, or 0
    cut         \* has the last save ended between manifest and rename?

vars == <<ctx, task, lock, tmp, manifest, blob, chains, used, reused, saved, cut>>

files == <<lock, tmp, manifest, blob>>

outcome == <<saved, cut>>

-----------------------------------------------------------------------------
(* Changes of the context *)

Running == ctx # None

Changeable == Running /\ ctx.state.change < MaxChanges

\* save_to_disk holds the read guards of keystore, sessions and groups.
Saving == \E t \in Threads : task[t] # None

UseKey(k) ==
    /\ used' = used \cup {k}
    /\ reused' = reused \cup ({k} \cap used)

\* The session encrypt sends from: a used-up chain is replaced, if the peer's
\* key is known.
Rotates(s) == s.index >= MaxMessages /\ s.remote

SendSession(s) ==
    IF Rotates(s) THEN [chain |-> chains, index |-> 0, n |-> 0, remote |-> TRUE] ELSE s

\* encrypt_message, which needs read guards only and runs beside a save; a
\* session that has no key left returns an error and nothing changes.
EncryptMessage ==
    LET old == ctx.state.session
        s == SendSession(old)
    IN  /\ Changeable
        /\ s.index < MaxMessages
        /\ Rotates(old) => chains < MaxChains
        /\ UseKey(<<s.chain, s.n>>)
        /\ ctx' = [ctx EXCEPT !.state.change = @ + 1,
                              !.state.session = [s EXCEPT !.index = @ + 1, !.n = @ + 1]]
        /\ chains' = IF Rotates(old) THEN chains + 1 ELSE chains
        /\ UNCHANGED <<task, files, outcome>>

\* perform_handshake puts a new session in the place of the peer's.
PerformHandshake ==
    /\ Changeable /\ ~Saving
    /\ chains < MaxChains
    /\ ctx' = [ctx EXCEPT !.state.change = @ + 1,
                          !.state.session = [chain |-> chains, index |-> 0, n |-> 0,
                                             remote |-> TRUE]]
    /\ chains' = chains + 1
    /\ UNCHANGED <<task, files, used, reused, outcome>>

\* encrypt_group_message
EncryptGroupMessage ==
    LET g == ctx.state.group
    IN  /\ Changeable /\ ~Saving
        /\ UseKey(<<g.chain, g.n>>)
        /\ ctx' = [ctx EXCEPT !.state.change = @ + 1, !.state.group.n = @ + 1]
        /\ UNCHANGED <<task, files, chains, outcome>>

-----------------------------------------------------------------------------
(* save_to_disk and save_context *)

At(t, pc) == task[t] # None /\ task[t].pc = pc

Goto(t, pc) == task' = [task EXCEPT ![t].pc = pc]

Return(t) == task' = [task EXCEPT ![t] = None]

\* The sequence number is drawn before the lock is taken.
SaveToDisk(t) ==
    /\ Running /\ task[t] = None
    /\ ctx.seq < MaxSeq
    /\ ctx' = [ctx EXCEPT !.seq = @ + 1]
    /\ task' = [task EXCEPT ![t] = [pc |-> "lock", seq |-> ctx.seq + 1, payload |-> None]]
    /\ UNCHANGED <<files, chains, used, reused, outcome>>

AcquireLock(t) ==
    /\ At(t, "lock") /\ ~lock
    /\ lock' = TRUE
    /\ Goto(t, "write")
    /\ UNCHANGED <<ctx, tmp, manifest, blob, chains, used, reused, outcome>>

\* 30 seconds have passed.
LockTimeout(t) ==
    /\ At(t, "lock") /\ lock
    /\ Return(t)
    /\ UNCHANGED <<ctx, files, chains, used, reused, outcome>>

\* The payload is the context as it is now, and goes to the .tmp file.
WriteTmp(t) ==
    LET payload == [seq |-> task[t].seq, state |-> ctx.state]
    IN  /\ At(t, "write")
        /\ tmp' = payload
        /\ task' = [task EXCEPT ![t].pc = "truncate", ![t].payload = payload]
        /\ UNCHANGED <<ctx, lock, manifest, blob, chains, used, reused, outcome>>

\* std::fs::write truncates the manifest ...
TruncateManifest(t) ==
    /\ At(t, "truncate")
    /\ manifest' = Torn
    /\ Goto(t, "fill")
    /\ UNCHANGED <<ctx, lock, tmp, blob, chains, used, reused, outcome>>

\* Mutant: the hash is that of the context as it is by now.
FillManifest_Live(t) ==
    /\ At(t, "fill")
    /\ manifest' = [seq |-> task[t].seq, state |-> ctx.state]
    /\ Goto(t, "rename")
    /\ UNCHANGED <<ctx, lock, tmp, blob, chains, used, reused, outcome>>

\* ... and fills it.
FillManifest(t) ==
    /\ At(t, "fill")
    /\ manifest' = task[t].payload
    /\ Goto(t, "rename")
    /\ UNCHANGED <<ctx, lock, tmp, blob, chains, used, reused, outcome>>

\* Mutant: an error of the rename is dropped.
Rename_Ignored(t) ==
    /\ At(t, "rename")
    /\ \/ tmp # None /\ blob' = tmp /\ tmp' = None
       \/ UNCHANGED <<tmp, blob>>
    /\ cut' = FALSE
    /\ Goto(t, "unlock")
    /\ UNCHANGED <<ctx, lock, manifest, chains, used, reused, saved>>

Rename(t) ==
    /\ At(t, "rename") /\ tmp # None
    /\ blob' = tmp
    /\ tmp' = None
    /\ cut' = FALSE
    /\ Goto(t, "unlock")
    /\ UNCHANGED <<ctx, lock, manifest, chains, used, reused, saved>>

\* LockGuard::drop, and Ok to the caller.
Unlock(t) ==
    /\ At(t, "unlock")
    /\ lock' = FALSE
    /\ saved' = task[t].payload.state.change
    /\ Return(t)
    /\ UNCHANGED <<ctx, tmp, manifest, blob, chains, used, reused, cut>>

\* A save that has begun with the manifest and has not renamed the file.
Between(t) == At(t, "fill") \/ At(t, "rename")

\* Mutant: the guard is forgotten when an error is returned.
Fails_KeepsLock(t) ==
    /\ "io" \in Events
    /\ task[t] # None /\ task[t].pc \in {"write", "truncate", "fill", "rename"}
    /\ Return(t)
    /\ UNCHANGED <<ctx, files, chains, used, reused, outcome>>

\* A file operation fails: what it was writing may be cut off, the error is
\* returned and the guard dropped.
Fails(t) ==
    /\ "io" \in Events
    /\ task[t] # None /\ task[t].pc \in {"write", "truncate", "fill", "rename"}
    /\ tmp' = IF task[t].pc = "write" THEN Torn ELSE tmp
    /\ lock' = FALSE
    /\ cut' = (cut \/ Between(t))
    /\ Return(t)
    /\ UNCHANGED <<ctx, manifest, blob, chains, used, reused, saved>>

-----------------------------------------------------------------------------
(* load_from_disk, and the end of the process *)

\* The checks of load_context: both files there and whole, the hash of the
\* blob in the manifest, no older sequence number.
Loadable ==
    /\ blob \in Payload /\ manifest \in Payload
    /\ manifest = blob
    /\ blob.seq >= manifest.seq

\* Mutant: the chain stays where it was saved.
JumpToReservation_Stays(s) == s

\* jump_to_reservation moves the index on, and not the key.
JumpToReservation(s) ==
    IF MaxMessages > s.index THEN [s EXCEPT !.index = MaxMessages] ELSE s

\* What the serialized session keeps: the peer's DH key is skipped.
Restored(state) ==
    [state EXCEPT !.session = [JumpToReservation(@) EXCEPT !.remote = FALSE]]

\* A new process loads the context; no other process uses the files.
LoadFromDisk ==
    /\ ~Running /\ ~lock
    /\ Loadable
    /\ ctx' = [seq |-> blob.seq, state |-> Restored(blob.state)]
    /\ UNCHANGED <<task, files, chains, used, reused, outcome>>

\* load_from_disk returns an error: a lock file that does not go away, or a
\* check that fails.
LoadFails ==
    /\ ~Running
    /\ lock \/ ~Loadable
    /\ UNCHANGED vars

Exit ==
    /\ Running /\ ~Saving
    /\ ctx' = None
    /\ UNCHANGED <<task, files, chains, used, reused, outcome>>

Crash ==
    /\ "crash" \in Events
    /\ Running
    /\ ctx' = None
    /\ task' = [t \in Threads |-> None]
    /\ cut' = (cut \/ \E t \in Threads : Between(t))
    /\ UNCHANGED <<files, chains, used, reused, saved>>

\* Somebody removes a lock file that a crash left behind.
RemoveStaleLock ==
    /\ "unlock" \in Events
    /\ ~Running /\ lock
    /\ lock' = FALSE
    /\ UNCHANGED <<ctx, task, tmp, manifest, blob, chains, used, reused, outcome>>

-----------------------------------------------------------------------------

Init ==
    /\ ctx = [seq |-> 0,
              state |-> [change |-> 1, group |-> [chain |-> 0, n |-> 0],
                         session |-> [chain |-> 1, index |-> 0, n |-> 0, remote |-> TRUE]]]
    /\ task = [t \in Threads |-> None]
    /\ lock = FALSE
    /\ tmp = None /\ manifest = None /\ blob = None
    /\ chains = 2
    /\ used = {} /\ reused = {}
    /\ saved = 0 /\ cut = FALSE

SaveContext(t) ==
    \/ AcquireLock(t) \/ LockTimeout(t)
    \/ WriteTmp(t) \/ TruncateManifest(t) \/ FillManifest(t) \/ Rename(t) \/ Unlock(t)
    \/ Fails(t)

Next ==
    \/ EncryptMessage \/ PerformHandshake \/ EncryptGroupMessage
    \/ \E t \in Threads : SaveToDisk(t) \/ SaveContext(t)
    \/ LoadFromDisk \/ LoadFails
    \/ Exit \/ Crash \/ RemoveStaleLock

Spec == Init /\ [][Next]_vars

-----------------------------------------------------------------------------
(* Properties *)

\* No key of a pairwise session is used for two messages, whatever save is
\* loaded after whatever was sent since ("no nonce reuse even after a crash").
NoKeyReuse == \A k \in reused : k[1] = 0

\* The same for the keys of a group, of which chain 0 is the one.
NoGroupKeyReuse == \A k \in reused : k[1] # 0

\* When no save is under way, what the last save_to_disk that returned Ok has
\* written can be loaded, or something newer, whatever threads, errors,
\* crashes and loads there were, unless the last save ended between manifest
\* and rename.
SavedIsLoadable ==
    saved > 0 /\ ~lock /\ ~cut => Loadable /\ blob.state.change >= saved

\* The file never goes back behind a save that returned Ok, whichever of two
\* threads that save drew its number first, and whatever fails.
SavedStays ==
    saved > 0 => blob \in Payload /\ blob.state.change >= saved

\* A running process's lock file is held by one of its saves: every return,
\* also with an error, removes it, and a crash leaves it for the next process,
\* which does not start before it is gone.
LockIsHeld ==
    Running /\ lock => \E t \in Threads : task[t] # None /\ task[t].pc # "lock"
=============================================================================
