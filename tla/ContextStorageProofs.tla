------------------------ MODULE ContextStorageProofs ------------------------
(***************************************************************************)
(* Proofs for ContextStorage, for any number of threads, messages, saves   *)
(* and chains.                                                             *)
(***************************************************************************)
EXTENDS ContextStorage, TLAPS

File == Payload \cup {None, Torn}

Types ==
    /\ ctx \in Context \cup {None}
    /\ task \in [Threads -> Save \cup {None}]
    /\ tmp \in File /\ manifest \in File /\ blob \in File
    /\ lock \in BOOLEAN /\ cut \in BOOLEAN
    /\ chains \in Nat /\ saved \in Nat

\* A save that is past the lock file.
Holds(t) == task[t] # None /\ task[t].pc # "lock"

\* A save that has written its payload and not moved it into place.
Written(t) == At(t, "truncate") \/ At(t, "fill") \/ At(t, "rename")

\* What the files and the context are to a save that is past the lock file.
InOrder(t) ==
    /\ task[t] # None => Running
    /\ Holds(t) => lock
    /\ Written(t) \/ At(t, "unlock") =>
           /\ task[t].payload \in Payload
           /\ saved <= task[t].payload.state.change
           /\ task[t].payload.state.change <= ctx.state.change
    /\ Written(t) => tmp = task[t].payload
    /\ At(t, "rename") => manifest = task[t].payload
    /\ At(t, "unlock") => blob = task[t].payload

OneHolder == \A t, u \in Threads : Holds(t) /\ Holds(u) => t = u

\* The manifest belongs to the file, unless a save has begun with the one and
\* not come to the other.
Whole == ~cut /\ (\A t \in Threads : ~Between(t)) => manifest = blob

DiskInv ==
    /\ Types
    /\ \A t \in Threads : InOrder(t)
    /\ OneHolder
    /\ Running => saved <= ctx.state.change
    /\ Whole
    /\ LockIsHeld
    /\ SavedStays

-----------------------------------------------------------------------------
(* Steps on the context and on a save *)

\* The session moves on or is replaced.
LEMMA SessionMoves ==
    ASSUME Types, Running, NEW s \in Session,
           ctx' = [ctx EXCEPT !.state.change = @ + 1, !.state.session = s]
    PROVE  /\ ctx' \in Context /\ ctx' # None
           /\ ctx'.state.change = ctx.state.change + 1
           /\ ctx'.state.session = s /\ ctx'.state.group = ctx.state.group
  <1>1. PICK c \in Context : c = ctx
    BY DEF Types, Running
  <1>2. PICK st \in State : st = c.state
    BY DEF Context
  <1>n. PICK n \in Nat : n = st.change + 1
    BY DEF State
  <1>3. PICK st2 \in State : st2 = [st EXCEPT !.change = n, !.session = s]
    BY Zenon DEF State
  <1>4. st2.change = st.change + 1 /\ st2.session = s /\ st2.group = st.group
    BY <1>n, <1>3 DEF State
  <1>5. ctx' = [c EXCEPT !.state = st2]
    BY <1>1, <1>2, <1>n, <1>3, Zenon DEF Context, State
  <1>6. ctx' \in Context /\ ctx'.state = st2
    BY <1>5, Zenon DEF Context
  <1> QED
    BY <1>1, <1>2, <1>4, <1>6, NoneAssumption

\* A group message is sent.
LEMMA GroupMoves ==
    ASSUME Types, Running,
           ctx' = [ctx EXCEPT !.state.change = @ + 1, !.state.group.n = @ + 1]
    PROVE  /\ ctx' \in Context /\ ctx' # None
           /\ ctx'.state.change = ctx.state.change + 1
           /\ ctx'.state.session = ctx.state.session
           /\ ctx'.state.group.chain = ctx.state.group.chain
  <1>1. PICK c \in Context : c = ctx
    BY DEF Types, Running
  <1>2. PICK st \in State : st = c.state
    BY DEF Context
  <1>3. PICK g \in Group : g = st.group
    BY DEF State
  <1>n. PICK n \in Nat, m \in Nat : n = st.change + 1 /\ m = g.n + 1
    BY DEF State, Group
  <1>4. PICK g2 \in Group : g2 = [g EXCEPT !.n = m]
    BY Zenon DEF Group
  <1>5. g2.chain = g.chain
    BY <1>4 DEF Group
  <1>6. PICK st2 \in State : st2 = [st EXCEPT !.change = n, !.group = g2]
    BY Zenon DEF State
  <1>7. st2.change = st.change + 1 /\ st2.session = st.session /\ st2.group = g2
    BY <1>n, <1>6 DEF State
  <1>8. ctx' = [c EXCEPT !.state = st2]
    BY <1>1, <1>2, <1>3, <1>n, <1>4, <1>6, Zenon DEF Context, State, Group
  <1>9. ctx' \in Context /\ ctx'.state = st2
    BY <1>8, Zenon DEF Context
  <1> QED
    BY <1>1, <1>2, <1>3, <1>5, <1>7, <1>9, NoneAssumption

\* The session that encrypt sends from.
LEMMA SendsFrom ==
    ASSUME Types, NEW s \in Session
    PROVE  /\ SendSession(s) \in Session
           /\ LET q == SendSession(s)
              IN  [q EXCEPT !.index = @ + 1, !.n = @ + 1] \in Session
  <1>1. SendSession(s) \in Session
    BY DEF Types, SendSession, Session
  <1>2. PICK q \in Session : q = SendSession(s)
    BY <1>1
  <1>n. PICK i \in Nat, n \in Nat : i = q.index + 1 /\ n = q.n + 1
    BY DEF Session
  <1>m. [q EXCEPT !.index = i, !.n = n] \in Session
    BY Zenon DEF Session
  <1>3. [q EXCEPT !.index = @ + 1, !.n = @ + 1] \in Session
    BY <1>n, <1>m, Zenon
  <1> QED
    BY <1>1, <1>2, <1>3

\* A save goes to its next step.
LEMMA GotoStep ==
    ASSUME Types, NEW t \in Threads, task[t] # None,
           NEW pc \in {"write", "truncate", "fill", "rename", "unlock"}, Goto(t, pc)
    PROVE  /\ task' \in [Threads -> Save \cup {None}]
           /\ task'[t] # None /\ task'[t].pc = pc /\ task'[t].payload = task[t].payload
           /\ \A u \in Threads : u # t => task'[u] = task[u]
  <1>1. PICK r \in Save : r = task[t]
    BY DEF Types
  <1>2. PICK q \in Save : q = [r EXCEPT !.pc = pc]
    BY Zenon DEF Save
  <1>3. q.pc = pc /\ q.payload = r.payload
    BY <1>2 DEF Save
  <1>4. task' = [task EXCEPT ![t] = q]
    BY <1>1, <1>2 DEF Goto
  <1> QED
    BY <1>1, <1>3, <1>4, NoneAssumption DEF Types

\* A save returns.
LEMMA ReturnStep ==
    ASSUME Types, NEW t \in Threads, Return(t)
    PROVE  /\ task' \in [Threads -> Save \cup {None}]
           /\ task'[t] = None
           /\ \A u \in Threads : u # t => task'[u] = task[u]
  BY DEF Types, Return

\* A save begins.
LEMMA BeginStep ==
    ASSUME Types, NEW t \in Threads, SaveToDisk(t)
    PROVE  /\ task' \in [Threads -> Save \cup {None}]
           /\ task[t] = None /\ task'[t] # None /\ task'[t].pc = "lock"
           /\ \A u \in Threads : u # t => task'[u] = task[u]
           /\ ctx' \in Context /\ ctx' # None /\ ctx'.state = ctx.state
  <1>1. PICK c \in Context : c = ctx
    BY DEF Types, SaveToDisk, Running
  <1>n. PICK n \in Nat : n = c.seq + 1
    BY DEF Context
  <1>2. PICK c2 \in Context : c2 = [c EXCEPT !.seq = n]
    BY Zenon DEF Context
  <1>3. c2.state = c.state
    BY <1>2 DEF Context
  <1>4. PICK r \in Save : r = [pc |-> "lock", seq |-> n, payload |-> None]
    BY Zenon DEF Save
  <1>5. r.pc = "lock" /\ r # None
    BY <1>4, NoneAssumption
  <1>6. task' = [task EXCEPT ![t] = r] /\ task[t] = None /\ ctx' = c2
    BY <1>1, <1>n, <1>2, <1>4, Zenon DEF SaveToDisk
  <1> QED
    BY <1>1, <1>2, <1>3, <1>5, <1>6, NoneAssumption DEF Types

\* A save takes the context as its payload.
LEMMA WriteStep ==
    ASSUME Types, NEW t \in Threads, Running, WriteTmp(t)
    PROVE  /\ task' \in [Threads -> Save \cup {None}]
           /\ task'[t] # None /\ task'[t].pc = "truncate" /\ task'[t].payload = tmp'
           /\ \A u \in Threads : u # t => task'[u] = task[u]
           /\ tmp' \in Payload /\ tmp'.state = ctx.state
  <1>1. PICK r \in Save : r = task[t]
    BY DEF Types, WriteTmp, At
  <1>2. r.seq \in Nat /\ ctx.state \in State
    BY DEF Save, Types, Running, Context
  <1>3. PICK p \in Payload : p = [seq |-> r.seq, state |-> ctx.state]
    BY <1>2, Zenon DEF Payload
  <1>4. p.state = ctx.state /\ tmp' = p
    BY <1>1, <1>3 DEF WriteTmp
  <1>5. PICK q \in Save : q = [r EXCEPT !.pc = "truncate", !.payload = p]
    BY Zenon DEF Save
  <1>6. q.pc = "truncate" /\ q.payload = p
    BY <1>5 DEF Save
  <1>7. task' = [task EXCEPT ![t] = q]
    BY <1>1, <1>3, <1>5, Zenon DEF WriteTmp, Types, Save
  <1> QED
    BY <1>4, <1>6, <1>7, NoneAssumption DEF Types
\* What a save that is under way knows, in the form its own steps need.
LEMMA HolderFacts ==
    ASSUME DiskInv, NEW t \in Threads, Holds(t)
    PROVE  /\ lock /\ Running /\ task[t] # None
           /\ \A u \in Threads : u # t => ~Holds(u)
  BY DEF DiskInv, InOrder, OneHolder, Holds

-----------------------------------------------------------------------------
(* The files and the saves *)

\* No file and no save at the beginning.
LEMMA DiskInvInit == Init => DiskInv
  <1> SUFFICES ASSUME Init PROVE DiskInv
    OBVIOUS
  <1>1. ctx \in Context
    BY DEF Init, Context, State, Session, Group
  <1>2. ctx.state.change = 1
    BY DEF Init
  <1>3. Types
    BY <1>1, Zenon DEF Init, Types, File
  <1> QED
    BY <1>2, <1>3
       DEF Init, DiskInv, InOrder, Holds, Written, At, OneHolder, Whole, LockIsHeld, SavedStays

\* A change of the context beside the saves under way, and the beginning of a
\* save.
LEMMA ContextOnly ==
    ASSUME DiskInv, Running, ctx' \in Context, ctx' # None,
           ctx'.state.change \in Nat, ctx.state.change <= ctx'.state.change,
           task' \in [Threads -> Save \cup {None}],
           \A u \in Threads : \/ task'[u] = task[u]
                              \/ task[u] = None /\ task'[u] # None /\ task'[u].pc = "lock",
           chains' \in Nat, UNCHANGED <<files, outcome>>
    PROVE  DiskInv'
  <1>1. Types'
    BY DEF DiskInv, Types, files, outcome
  <1>2. ctx.state.change \in Nat /\ saved \in Nat
    BY DEF DiskInv, Types, Running, Context, State
  <1>3. \A u \in Threads : (Holds(u)' <=> Holds(u)) /\ (Holds(u)' => task'[u] = task[u])
    BY DEF Holds
  <1>4. ASSUME NEW u \in Threads PROVE InOrder(u)'
    <2>1. CASE Holds(u)
      <3>1. task'[u] = task[u] /\ InOrder(u) /\ ctx' # None
        BY <1>3, <2>1, Zenon DEF DiskInv
      <3>2. task[u].payload \in Payload => task[u].payload.state.change \in Nat
        BY Zenon DEF Payload, State
      <3> QED
        BY <1>2, <2>1, <3>1, <3>2 DEF InOrder, Holds, Written, At, Running, files, outcome
    <2>2. CASE ~Holds(u)
      BY <1>3, <2>2 DEF InOrder, Holds, Written, At, Running
    <2> QED
      BY <2>1, <2>2, Zenon
  <1>5. OneHolder'
    BY <1>3 DEF DiskInv, OneHolder
  <1>6. saved' <= ctx'.state.change
    BY <1>2 DEF DiskInv, outcome
  <1>7. Whole'
    <2>1. \A u \in Threads : Between(u)' <=> Between(u)
      BY DEF Between, At
    <2> QED
      BY <2>1 DEF DiskInv, Whole, files, outcome
  <1>8. LockIsHeld'
    BY <1>3 DEF DiskInv, LockIsHeld, Holds, files
  <1>9. SavedStays'
    BY DEF DiskInv, SavedStays, files, outcome
  <1> QED
    BY <1>1, <1>4, <1>5, <1>6, <1>7, <1>8, <1>9 DEF DiskInv

\* A step after which no save is under way: the process stops, or starts.
LEMMA NoSave ==
    ASSUME DiskInv, \A t \in Threads : task'[t] = None, Types', Running' => ~lock',
           Running' => saved' <= ctx'.state.change,
           ~cut' => ~cut /\ \A t \in Threads : ~Between(t),
           UNCHANGED <<manifest, blob, saved>>
    PROVE  DiskInv'
  <1>1. \A t \in Threads : InOrder(t)'
    BY Zenon DEF InOrder, Holds, Written, At
  <1>2. OneHolder' /\ LockIsHeld' /\ SavedStays'
    BY DEF DiskInv, OneHolder, Holds, LockIsHeld, SavedStays, Running
  <1>3. Whole'
    BY DEF DiskInv, Whole
  <1> QED
    BY <1>1, <1>2, <1>3, Zenon DEF DiskInv

\* The save that holds the lock file goes on, and the others are not past it.
LEMMA HolderOnly ==
    ASSUME DiskInv, NEW t \in Threads, Types', InOrder(t)', Holds(t)',
           \A u \in Threads : u # t => task'[u] = task[u] /\ ~Holds(u),
           Whole', SavedStays', UNCHANGED <<ctx, saved>>
    PROVE  DiskInv'
  <1>1. ASSUME NEW u \in Threads, u # t PROVE InOrder(u)' /\ ~Holds(u)'
    BY <1>1, Zenon DEF DiskInv, InOrder, Holds, Written, At, Running
  <1>2. OneHolder' /\ LockIsHeld'
    BY <1>1 DEF OneHolder, LockIsHeld, Holds
  <1>3. Running' => saved' <= ctx'.state.change
    BY Zenon DEF DiskInv, Running
  <1> QED
    BY <1>1, <1>2, <1>3, Zenon DEF DiskInv
\* The save that holds the lock file returns and removes it.
LEMMA HolderReturns ==
    ASSUME DiskInv, NEW t \in Threads, Holds(t), Return(t), lock' = FALSE, Types',
           saved' \in {saved, task[t].payload.state.change},
           saved' <= ctx.state.change, Whole', SavedStays', UNCHANGED ctx
    PROVE  DiskInv'
  <1>1. task'[t] = None /\ \A u \in Threads : u # t => task'[u] = task[u] /\ ~Holds(u)
    BY ReturnStep, HolderFacts, Zenon DEF DiskInv
  <1>2. ASSUME NEW u \in Threads PROVE InOrder(u)' /\ ~Holds(u)'
    BY <1>1, Zenon DEF DiskInv, InOrder, Holds, Written, At, Running
  <1>3. OneHolder' /\ LockIsHeld'
    BY <1>2 DEF OneHolder, LockIsHeld
  <1> QED
    BY <1>2, <1>3, Zenon DEF DiskInv

\* What load_context makes of a state is one, with the same changes behind it.
LEMMA RestoredState ==
    ASSUME NEW st \in State
    PROVE  /\ Restored(st) \in State
           /\ Restored(st).change = st.change /\ Restored(st).group = st.group
           /\ Restored(st).session.chain = st.session.chain
           /\ Restored(st).session.index >= MaxMessages
  <1>1. PICK s \in Session : s = st.session
    BY DEF State
  <1>2. PICK j \in Session : j = JumpToReservation(s)
    BY BoundsAssumption, Zenon DEF JumpToReservation, Session
  <1>3. j.chain = s.chain /\ j.index >= MaxMessages
    BY <1>2, BoundsAssumption DEF JumpToReservation, Session
  <1>4. PICK q \in Session : q = [j EXCEPT !.remote = FALSE]
    BY Zenon DEF Session
  <1>5. q.chain = j.chain /\ q.index = j.index
    BY <1>4 DEF Session
  <1>6. Restored(st) = [st EXCEPT !.session = q]
    BY <1>1, <1>2, <1>4 DEF Restored, State
  <1>7. /\ Restored(st) \in State /\ Restored(st).session = q
        /\ Restored(st).change = st.change /\ Restored(st).group = st.group
    BY <1>6 DEF State
  <1> QED
    BY <1>1, <1>3, <1>5, <1>7

\* A process that loads a context continues from what is in the file.
LEMMA LoadStep ==
    ASSUME Types, LoadFromDisk
    PROVE  /\ ctx' \in Context /\ ctx' # None /\ blob \in Payload /\ blob.state \in State
           /\ ctx'.state = Restored(blob.state)
  <1>1. blob \in Payload /\ blob.seq \in Nat /\ blob.state \in State
    BY DEF LoadFromDisk, Loadable, Payload
  <1>2. PICK st \in State : st = Restored(blob.state)
    BY <1>1, RestoredState
  <1>3. ctx' = [seq |-> blob.seq, state |-> st]
    BY <1>2 DEF LoadFromDisk
  <1> QED
    BY <1>1, <1>2, <1>3, NoneAssumption DEF Context

\* The change of a context is a number.
LEMMA ChangeIsNat == ASSUME Types, Running PROVE ctx.state.change \in Nat /\ ctx.state \in State
  BY DEF Types, Running, Context, State

\* The steps of a save between its lock file and its return.
LEMMA SaveKeepsDiskInv ==
    ASSUME DiskInv, NEW t \in Threads, SaveContext(t)
    PROVE  DiskInv'
  <1>0. Types /\ InOrder(t) /\ task[t] # None /\ Running
    BY Zenon DEF DiskInv, InOrder, SaveContext, AcquireLock, LockTimeout, WriteTmp,
           TruncateManifest, FillManifest, Rename, Unlock, Fails, At
  <1>n. ctx.state.change \in Nat /\ saved \in Nat
    BY <1>0, ChangeIsNat, Zenon DEF Types
  <1>h. ASSUME ~At(t, "lock")
        PROVE  Holds(t) /\ \A u \in Threads : u # t => ~Holds(u) /\ ~Between(u)
    <2>1. Holds(t)
      BY <1>0, <1>h, Zenon DEF Holds, At
    <2> QED
      BY <2>1, HolderFacts DEF Holds, Between, At
  <1>1. CASE AcquireLock(t)
    <2>1. \A u \in Threads : ~Holds(u)
      BY <1>1, Zenon DEF DiskInv, InOrder, AcquireLock
    <2>2. /\ task' \in [Threads -> Save \cup {None}] /\ task'[t] # None /\ task'[t].pc = "write"
          /\ \A u \in Threads : u # t => task'[u] = task[u]
      BY <1>0, <1>1, GotoStep DEF AcquireLock
    <2>3. lock' = TRUE /\ UNCHANGED <<ctx, tmp, manifest, blob, chains, outcome>>
      BY <1>1, Zenon DEF AcquireLock
    <2>4. Types' /\ InOrder(t)' /\ Holds(t)'
      BY <1>0, <2>2, <2>3, Zenon DEF Types, InOrder, Holds, Written, At, Running, outcome
    <2>5. Whole' /\ SavedStays'
      <3>1. \A u \in Threads : Between(u)' <=> Between(u)
        BY <1>1, <2>2, Zenon DEF Between, At, AcquireLock
      <3> QED
        BY <2>3, <3>1, Zenon DEF DiskInv, Whole, SavedStays, outcome
    <2> QED
      BY <2>1, <2>2, <2>3, <2>4, <2>5, HolderOnly, Zenon DEF outcome
  <1>2. CASE LockTimeout(t)
    <2>1. /\ task' \in [Threads -> Save \cup {None}] /\ task'[t] = None
          /\ \A u \in Threads : u # t => task'[u] = task[u]
      BY <1>0, <1>2, ReturnStep, Zenon DEF LockTimeout
    <2>2. UNCHANGED <<ctx, lock, tmp, manifest, blob, chains, saved, cut>> /\ ~Holds(t)
      BY <1>2, Zenon DEF LockTimeout, files, outcome, Holds, At
    <2>3. \A u \in Threads : (Holds(u)' <=> Holds(u)) /\ (Holds(u)' => task'[u] = task[u])
      BY <2>1, <2>2 DEF Holds
    <2>4. Types'
      BY <1>0, <2>1, <2>2, Zenon DEF Types
    <2>5. \A u \in Threads : InOrder(u)'
      BY <2>1, <2>2, <2>3, ZenonT(120) DEF DiskInv, InOrder, Holds, Written, At, Running
    <2>6. OneHolder' /\ LockIsHeld' /\ SavedStays' /\ saved' <= ctx'.state.change
      BY <1>0, <2>2, <2>3, Zenon DEF DiskInv, OneHolder, LockIsHeld, Holds, SavedStays, Running
    <2>7. Whole'
      BY <2>2, <2>3, <2>1, Zenon DEF DiskInv, Whole, Between, At, Holds
    <2> QED
      BY <2>4, <2>5, <2>6, <2>7, Zenon DEF DiskInv
  <1>3. CASE WriteTmp(t)
    <2>1. /\ task' \in [Threads -> Save \cup {None}] /\ task'[t] # None
          /\ task'[t].pc = "truncate" /\ task'[t].payload = tmp'
          /\ \A u \in Threads : u # t => task'[u] = task[u]
          /\ tmp' \in Payload /\ tmp'.state = ctx.state
      BY <1>0, <1>3, WriteStep
    <2>2. /\ UNCHANGED <<ctx, lock, manifest, blob, chains, saved, cut>>
          /\ At(t, "write") /\ ~At(t, "lock")
      BY <1>3 DEF WriteTmp, outcome, At
    <2>3. lock /\ saved <= ctx.state.change
      BY <1>0, <1>h, <2>2, HolderFacts, Zenon DEF DiskInv
    <2>4. Types' /\ InOrder(t)' /\ Holds(t)'
      BY <1>0, <1>n, <2>1, <2>2, <2>3 DEF Types, InOrder, Holds, Written, At, Running, File
    <2>5. Whole' /\ SavedStays'
      BY <1>h, <2>1, <2>2, Zenon DEF DiskInv, Whole, Between, At, SavedStays
    <2> QED
      BY <1>h, <2>1, <2>2, <2>4, <2>5, HolderOnly, Zenon
  <1>4. CASE TruncateManifest(t)
    <2>1. /\ task' \in [Threads -> Save \cup {None}] /\ task'[t] # None
          /\ task'[t].pc = "fill" /\ task'[t].payload = task[t].payload
          /\ \A u \in Threads : u # t => task'[u] = task[u]
      BY <1>0, <1>4, GotoStep DEF TruncateManifest
    <2>2. /\ UNCHANGED <<ctx, lock, tmp, blob, chains, saved, cut>> /\ manifest' = Torn
          /\ At(t, "truncate") /\ ~At(t, "lock")
      BY <1>4, Zenon DEF TruncateManifest, outcome, At
    <2>4. Types' /\ InOrder(t)' /\ Holds(t)'
      BY <1>0, <2>1, <2>2, Zenon DEF Types, InOrder, Holds, Written, At, Running, File
    <2>5. Whole' /\ SavedStays'
      BY <2>1, <2>2, Zenon DEF DiskInv, Whole, Between, At, SavedStays
    <2> QED
      BY <1>h, <2>1, <2>2, <2>4, <2>5, HolderOnly, Zenon
  <1>5. CASE FillManifest(t)
    <2>1. /\ task' \in [Threads -> Save \cup {None}] /\ task'[t] # None
          /\ task'[t].pc = "rename" /\ task'[t].payload = task[t].payload
          /\ \A u \in Threads : u # t => task'[u] = task[u]
      BY <1>0, <1>5, GotoStep, Zenon DEF FillManifest
    <2>2. /\ UNCHANGED <<ctx, lock, tmp, blob, chains, saved, cut>> /\ manifest' = task[t].payload
          /\ At(t, "fill") /\ ~At(t, "lock")
      BY <1>5, Zenon DEF FillManifest, outcome, At
    <2>4. Types' /\ InOrder(t)' /\ Holds(t)'
      BY <1>0, <2>1, <2>2, Zenon DEF Types, InOrder, Holds, Written, At, Running, File
    <2>5. Whole' /\ SavedStays'
      BY <2>1, <2>2, Zenon DEF DiskInv, Whole, Between, At, SavedStays
    <2> QED
      BY <1>h, <2>1, <2>2, <2>4, <2>5, HolderOnly, Zenon
  <1>6. CASE Rename(t)
    <2>1. /\ task' \in [Threads -> Save \cup {None}] /\ task'[t] # None
          /\ task'[t].pc = "unlock" /\ task'[t].payload = task[t].payload
          /\ \A u \in Threads : u # t => task'[u] = task[u]
      BY <1>0, <1>6, GotoStep, Zenon DEF Rename
    <2>2. /\ UNCHANGED <<ctx, lock, manifest, chains, saved>> /\ blob' = tmp /\ tmp' = None
          /\ cut' = FALSE /\ At(t, "rename") /\ ~At(t, "lock")
      BY <1>6, Zenon DEF Rename, At
    <2>3. /\ tmp = task[t].payload /\ manifest = tmp /\ tmp \in Payload
          /\ saved <= tmp.state.change
      BY <1>0, <2>2, Zenon DEF InOrder, Written
    <2>4. Types' /\ InOrder(t)' /\ Holds(t)'
      BY <1>0, <2>1, <2>2, <2>3, ZenonT(60) DEF Types, InOrder, Holds, Written, At, Running, File
    <2>5. Whole'
      BY <2>2, <2>3, Zenon DEF Whole
    <2>6. SavedStays'
      <3>1. tmp.state.change \in Nat
        BY <2>3, Zenon DEF Payload, State
      <3> QED
        BY <1>n, <2>2, <2>3, <3>1, Zenon DEF SavedStays
    <2> QED
      BY <1>h, <2>1, <2>2, <2>4, <2>5, <2>6, HolderOnly, Zenon
  <1>7. CASE Unlock(t)
    <2>1. /\ task' \in [Threads -> Save \cup {None}] /\ task'[t] = None /\ Return(t)
          /\ \A u \in Threads : u # t => task'[u] = task[u]
      BY <1>0, <1>7, ReturnStep, Zenon DEF Unlock
    <2>2. /\ UNCHANGED <<ctx, tmp, manifest, blob, chains, cut>> /\ lock' = FALSE
          /\ saved' = task[t].payload.state.change /\ At(t, "unlock") /\ ~At(t, "lock")
      BY <1>7, Zenon DEF Unlock, At
    <2>3. /\ blob = task[t].payload /\ blob \in Payload /\ saved' <= ctx.state.change
          /\ saved' \in Nat /\ saved' = blob.state.change
      BY <1>0, <2>2, Zenon DEF InOrder, Payload, State
    <2>4. Types'
      BY <1>0, <2>1, <2>2, <2>3, Zenon DEF Types
    <2>5. Whole'
      BY <1>h, <2>1, <2>2, Zenon DEF DiskInv, Whole, Between, At
    <2>6. SavedStays'
      BY <2>2, <2>3 DEF SavedStays
    <2> QED
      BY <1>h, <2>1, <2>2, <2>3, <2>4, <2>5, <2>6, HolderReturns, Zenon
  <1>8. CASE Fails(t)
    <2>1. /\ task' \in [Threads -> Save \cup {None}] /\ task'[t] = None /\ Return(t)
          /\ \A u \in Threads : u # t => task'[u] = task[u]
      BY <1>0, <1>8, ReturnStep, Zenon DEF Fails
    <2>2. /\ UNCHANGED <<ctx, manifest, blob, chains, saved>> /\ lock' = FALSE
          /\ tmp' \in {tmp, Torn} /\ cut' = (cut \/ Between(t)) /\ ~At(t, "lock")
      BY <1>8 DEF Fails, At
    <2>3. cut' \in BOOLEAN
      BY <1>0, <2>2 DEF Types
    <2>4. Types'
      BY <1>0, <2>1, <2>2, <2>3, Zenon DEF Types, File
    <2>5. Whole' /\ SavedStays' /\ saved' <= ctx.state.change
      BY <1>0, <1>h, <2>2, ZenonT(60) DEF DiskInv, Whole, SavedStays
    <2> QED
      BY <1>h, <2>1, <2>2, <2>4, <2>5, HolderReturns, Zenon
  <1> QED
    BY <1>1, <1>2, <1>3, <1>4, <1>5, <1>6, <1>7, <1>8, Zenon DEF SaveContext
\* What a message or a handshake changes of the context.
LEMMA SessionStep ==
    ASSUME Types, EncryptMessage \/ PerformHandshake
    PROVE  /\ ctx' \in Context /\ ctx' # None
           /\ ctx'.state.change = ctx.state.change + 1 /\ ctx'.state.group = ctx.state.group
           /\ EncryptMessage =>
                  LET s == SendSession(ctx.state.session)
                  IN  ctx'.state.session = [s EXCEPT !.index = @ + 1, !.n = @ + 1]
           /\ ~EncryptMessage =>
                  ctx'.state.session = [chain |-> chains, index |-> 0, n |-> 0, remote |-> TRUE]
  <1>0. Running /\ ctx.state.session \in Session /\ chains \in Nat
    BY ChangeIsNat DEF EncryptMessage, PerformHandshake, Changeable, Types, State
  <1>1. CASE EncryptMessage
    <2> DEFINE s == SendSession(ctx.state.session)
    <2>1. PICK q \in Session : q = [s EXCEPT !.index = @ + 1, !.n = @ + 1]
      BY <1>0, SendsFrom, Zenon
    <2>2. ctx' = [ctx EXCEPT !.state.change = @ + 1, !.state.session = q]
      BY <1>1, <2>1, ZenonT(60) DEF EncryptMessage
    <2> QED
      BY <1>0, <1>1, <2>1, <2>2, SessionMoves, Zenon
  <1>2. CASE PerformHandshake /\ ~EncryptMessage
    <2>1. PICK q \in Session : q = [chain |-> chains, index |-> 0, n |-> 0, remote |-> TRUE]
      BY <1>0, Zenon DEF Session
    <2>2. ctx' = [ctx EXCEPT !.state.change = @ + 1, !.state.session = q]
      BY <1>2, <2>1, Zenon DEF PerformHandshake
    <2> QED
      BY <1>0, <1>2, <2>1, <2>2, SessionMoves, Zenon
  <1> QED
    BY <1>1, <1>2, Zenon

\* Every step keeps the files in order.
LEMMA DiskInvNext == DiskInv /\ [Next]_vars => DiskInv'
  <1> SUFFICES ASSUME DiskInv, [Next]_vars PROVE DiskInv'
    BY Zenon
  <1>0. Types
    BY Zenon DEF DiskInv
  <1>1. CASE EncryptMessage \/ PerformHandshake
    <2>1. Running /\ ctx.state.change \in Nat
      BY <1>0, <1>1, ChangeIsNat, Zenon DEF EncryptMessage, PerformHandshake, Changeable
    <2>2. UNCHANGED <<task, files, outcome>> /\ chains' \in Nat
      BY <1>0, <1>1 DEF EncryptMessage, PerformHandshake, Types
    <2>3. task' \in [Threads -> Save \cup {None}]
      BY <1>0, <2>2, Zenon DEF Types
    <2> QED
      BY <1>0, <1>1, <2>1, <2>2, <2>3, SessionStep, ContextOnly
  <1>2. CASE EncryptGroupMessage
    <2>1. Running /\ ctx.state.change \in Nat
      BY <1>0, <1>2, ChangeIsNat DEF EncryptGroupMessage, Changeable
    <2>2. UNCHANGED <<task, files, outcome, chains>>
      BY <1>2, Zenon DEF EncryptGroupMessage
    <2>3. /\ ctx' \in Context /\ ctx' # None /\ ctx'.state.change = ctx.state.change + 1
      BY <1>0, <1>2, <2>1, GroupMoves, Zenon DEF EncryptGroupMessage
    <2>4. task' \in [Threads -> Save \cup {None}] /\ chains' \in Nat
      BY <1>0, <2>2, Zenon DEF Types
    <2> QED
      BY <2>1, <2>2, <2>3, <2>4, ContextOnly
  <1>3. ASSUME NEW t \in Threads, SaveToDisk(t) PROVE DiskInv'
    <2>1. Running /\ ctx.state.change \in Nat
      BY <1>0, <1>3, ChangeIsNat DEF SaveToDisk
    <2>2. UNCHANGED <<files, outcome>> /\ chains' \in Nat
      BY <1>0, <1>3, Zenon DEF SaveToDisk, Types
    <2> QED
      BY <1>0, <1>3, <2>1, <2>2, BeginStep, ContextOnly
  <1>4. CASE LoadFromDisk
    <2>1. /\ ctx' \in Context /\ blob \in Payload /\ blob.state \in State
          /\ ctx'.state = Restored(blob.state)
      BY <1>0, <1>4, LoadStep, Zenon
    <2>2. ctx'.state.change = blob.state.change /\ blob.state.change \in Nat
      BY <2>1, RestoredState DEF State
    <2>3. ~Running /\ ~lock /\ UNCHANGED <<task, files, chains, outcome>>
      BY <1>4, Zenon DEF LoadFromDisk
    <2>4. \A t \in Threads : task'[t] = None /\ ~Between(t)
      BY <2>3, Zenon DEF DiskInv, InOrder, Between, At
    <2>5. saved' <= ctx'.state.change
      BY <1>0, <2>2, <2>3 DEF DiskInv, SavedStays, Types, outcome
    <2>6. Types'
      BY <1>0, <2>1, <2>3, Zenon DEF Types, files, outcome
    <2> QED
      BY <2>3, <2>4, <2>5, <2>6, NoSave, Zenon DEF files, outcome
  <1>5. CASE Exit \/ Crash
    <2>1. /\ ctx' = None /\ UNCHANGED <<files, chains, saved>>
          /\ cut' = cut \/ cut' = (cut \/ \E t \in Threads : Between(t))
      BY <1>5, Zenon DEF Exit, Crash, outcome
    <2>2. task' \in [Threads -> Save \cup {None}] /\ \A t \in Threads : task'[t] = None
      BY <1>0, <1>5 DEF Exit, Crash, Saving, Types
    <2>3. ~cut' => ~cut /\ \A t \in Threads : ~Between(t)
      BY <1>5, Zenon DEF Exit, Crash, Saving, outcome, Between, At
    <2>4. cut' \in BOOLEAN
      BY <1>0, <2>1, Zenon DEF Types
    <2>5. Types'
      BY <1>0, <2>1, <2>2, <2>4, Zenon DEF Types, files
    <2> QED
      BY <2>1, <2>2, <2>3, <2>5, NoSave, Zenon DEF files, Running
  <1>6. CASE RemoveStaleLock
    <2>1. /\ ~Running /\ lock' = FALSE
          /\ UNCHANGED <<ctx, task, tmp, manifest, blob, chains, saved, cut>>
      BY <1>6, Zenon DEF RemoveStaleLock, outcome
    <2>2. \A t \in Threads : task'[t] = None /\ ~Between(t)
      BY <2>1, Zenon DEF DiskInv, InOrder, Between, At
    <2>3. Types' /\ ~Running'
      BY <1>0, <2>1, Zenon DEF Types, Running
    <2> QED
      BY <2>1, <2>2, <2>3, NoSave
  <1>7. CASE UNCHANGED vars
    <2>1. UNCHANGED <<ctx, task, lock, tmp, manifest, blob, chains, saved, cut>>
      BY <1>7, Zenon DEF vars
    <2>2. Types' /\ OneHolder' /\ Whole' /\ LockIsHeld' /\ SavedStays'
      BY <2>1, Zenon DEF DiskInv, Types, OneHolder, Holds, Whole, Between, At, LockIsHeld, Running,
                  SavedStays
    <2>3. \A t \in Threads : InOrder(t)'
      BY <2>1, ZenonT(120) DEF DiskInv, InOrder, Holds, Written, At, Running
    <2> QED
      BY <2>1, <2>2, <2>3, Zenon DEF DiskInv, Running
  <1> QED
    BY <1>1, <1>2, <1>3, <1>4, <1>5, <1>6, <1>7, SaveKeepsDiskInv, Zenon DEF Next, LoadFails

\* The lock file of a running process belongs to one of its saves (LockGuard of
\* storage.rs), for any number of threads.
THEOREM LockHasHolder == Spec => []LockIsHeld
  <1>1. DiskInv => LockIsHeld
    BY DEF DiskInv
  <1> QED
    BY <1>1, DiskInvInit, DiskInvNext, PTL DEF Spec

\* The file never goes back behind a save that returned Ok (save_context),
\* whatever threads, errors, crashes and loads there are.
THEOREM NothingSavedIsLost == Spec => []SavedStays
  <1>1. DiskInv => SavedStays
    BY DEF DiskInv
  <1> QED
    BY <1>1, DiskInvInit, DiskInvNext, PTL DEF Spec

\* What save_context has written, load_context accepts, unless the last save
\* ended between manifest and rename.
THEOREM SavedCanBeLoaded == Spec => []SavedIsLoadable
  <1>1. ASSUME DiskInv PROVE SavedIsLoadable
    <2> SUFFICES ASSUME saved > 0, ~lock, ~cut PROVE Loadable /\ blob.state.change >= saved
      BY DEF SavedIsLoadable
    <2>1. blob \in Payload /\ blob.state.change >= saved
      BY <1>1, Zenon DEF DiskInv, SavedStays
    <2>2. \A t \in Threads : ~Between(t)
      BY <1>1, Zenon DEF DiskInv, InOrder, Holds, Between, At
    <2>3. manifest = blob
      BY <1>1, <2>2 DEF DiskInv, Whole
    <2>4. blob.seq \in Nat
      BY <2>1, Zenon DEF Payload
    <2> QED
      BY <2>1, <2>3, <2>4 DEF Loadable
  <1> QED
    BY <1>1, DiskInvInit, DiskInvNext, PTL DEF Spec
-----------------------------------------------------------------------------
(* The keys *)

\* The group has chain 0, the session one that was made.
Made(st) == st.group.chain = 0 /\ 0 < st.session.chain /\ st.session.chain < chains

\* The key that the session would send with is ahead of all that were used.
Ahead(s) == s.index < MaxMessages => \A k \in used : k[1] = s.chain => k[2] < s.n

KeyInv ==
    /\ 0 < chains
    /\ \A k \in used : k[1] \in Nat /\ k[2] \in Nat /\ k[1] < chains
    /\ Running => Made(ctx.state) /\ Ahead(ctx.state.session)
    /\ \A f \in {tmp, blob} : f \in Payload => Made(f.state)
    /\ NoKeyReuse

\* Nothing was sent at the beginning.
LEMMA KeyInvInit == Init => KeyInv
  BY NoneAssumption, SMTT(30) DEF Init, KeyInv, Made, Ahead, NoKeyReuse

\* A step that sends nothing and makes no chain.
LEMMA NothingSent ==
    ASSUME KeyInv, Running' => Made(ctx'.state) /\ Ahead(ctx'.state.session),
           \A f \in {tmp', blob'} : f \in Payload => Made(f.state),
           UNCHANGED <<chains, used, reused>>
    PROVE  KeyInv'
  <1>1. Running' => Made(ctx.state)' /\ Ahead(ctx.state.session)'
    BY Zenon DEF Made, Ahead
  <1>2. \A f \in {tmp', blob'} : f \in Payload => Made(f.state)'
    BY Zenon DEF Made
  <1> QED
    BY <1>1, <1>2, Zenon DEF KeyInv, NoKeyReuse, Made

\* The session's next key is new: on a chain that goes on it is ahead of the
\* keys used, and a new chain has none.
LEMMA EncryptKeepsKeyInv ==
    ASSUME Types, KeyInv, EncryptMessage
    PROVE  KeyInv'
  <1>0. Running /\ ctx.state.session \in Session /\ chains \in Nat /\ MaxMessages \in Nat
    BY ChangeIsNat, BoundsAssumption, SMTT(30) DEF EncryptMessage, Changeable, Types, State
  <1>1. PICK s \in Session : s = SendSession(ctx.state.session)
    BY <1>0, SendsFrom, Zenon
  <1>2. /\ UNCHANGED <<tmp, blob>> /\ s.index < MaxMessages
        /\ used' = used \cup {<<s.chain, s.n>>}
        /\ reused' = reused \cup ({<<s.chain, s.n>>} \cap used)
        /\ chains' = IF Rotates(ctx.state.session) THEN chains + 1 ELSE chains
    BY <1>1 DEF EncryptMessage, UseKey, files
  <1>3. /\ ctx' # None /\ ctx'.state.group = ctx.state.group
        /\ ctx'.state.session = [s EXCEPT !.index = @ + 1, !.n = @ + 1]
    BY <1>1, SessionStep
  <1>4. /\ ctx'.state.session.chain = s.chain /\ ctx'.state.session.n = s.n + 1
        /\ s.chain \in Nat /\ s.n \in Nat
    BY <1>3 DEF Session
  <1>5. /\ 0 < s.chain /\ s.chain < chains' /\ chains <= chains' /\ chains' \in Nat
        /\ \A k \in used : k[1] = s.chain => k[2] < s.n
    <2>1. CASE Rotates(ctx.state.session)
      <3>1. s.chain = chains /\ chains' = chains + 1
        BY <1>1, <1>2, <2>1, Zenon DEF SendSession
      <3> QED
        BY <1>0, <3>1 DEF KeyInv
    <2>2. CASE ~Rotates(ctx.state.session)
      <3>1. s = ctx.state.session /\ chains' = chains
        BY <1>1, <1>2, <2>2, Zenon DEF SendSession
      <3> QED
        BY <1>0, <1>2, <3>1 DEF KeyInv, Made, Ahead
    <2> QED
      BY <2>1, <2>2, Zenon
  <1>6. <<s.chain, s.n>> \notin used
    BY <1>4, <1>5
  <1>7. NoKeyReuse'
    BY <1>2, <1>6, Zenon DEF KeyInv, NoKeyReuse
  <1>8. \A k \in used' : k[1] \in Nat /\ k[2] \in Nat /\ k[1] < chains'
    BY <1>0, <1>2, <1>4, <1>5 DEF KeyInv
  <1>9. Made(ctx.state)' /\ Ahead(ctx.state.session)'
    <2>1. Made(ctx.state)'
      BY <1>0, <1>3, <1>4, <1>5, Zenon DEF KeyInv, Made
    <2>2. \A k \in used' : k[1] = s.chain => k[2] < s.n + 1
      BY <1>2, <1>4, <1>5 DEF KeyInv
    <2> QED
      BY <1>4, <2>1, <2>2 DEF Ahead
  <1>10. ASSUME NEW f \in {tmp', blob'}, f \in Payload PROVE Made(f.state)'
    <2>1. Made(f.state) /\ f.state.session.chain \in Nat
      BY <1>2, <1>10 DEF KeyInv, Payload, State, Session
    <2> QED
      BY <1>0, <1>5, <2>1 DEF Made
  <1>11. 0 < chains'
    BY <1>0, <1>5 DEF KeyInv
  <1> QED
    BY <1>7, <1>8, <1>9, <1>10, <1>11, Zenon DEF KeyInv

\* A new session has a chain of its own.
LEMMA HandshakeKeepsKeyInv ==
    ASSUME Types, KeyInv, PerformHandshake, ~EncryptMessage
    PROVE  KeyInv'
  <1>0. Running /\ chains \in Nat /\ chains' = chains + 1 /\ UNCHANGED <<tmp, blob, used, reused>>
    BY DEF PerformHandshake, Changeable, Types, files
  <1>1. /\ ctx'.state.group = ctx.state.group
        /\ ctx'.state.session = [chain |-> chains, index |-> 0, n |-> 0, remote |-> TRUE]
    BY SessionStep, Zenon
  <1>2. Made(ctx.state)' /\ Ahead(ctx.state.session)'
    BY <1>0, <1>1 DEF KeyInv, Made, Ahead
  <1>3. ASSUME NEW f \in {tmp', blob'}, f \in Payload PROVE Made(f.state)'
    <2>1. Made(f.state) /\ f.state.session.chain \in Nat
      BY <1>0, <1>3, Zenon DEF KeyInv, Payload, State, Session
    <2> QED
      BY <1>0, <2>1 DEF Made
  <1> QED
    BY <1>0, <1>2, <1>3 DEF KeyInv, NoKeyReuse

\* A group's key is on chain 0.
LEMMA GroupKeepsKeyInv ==
    ASSUME Types, KeyInv, EncryptGroupMessage
    PROVE  KeyInv'
  <1>0. Running /\ ctx.state.group \in Group /\ chains \in Nat
    BY ChangeIsNat DEF EncryptGroupMessage, Changeable, Types, State
  <1>1. PICK n \in Nat : n = ctx.state.group.n
    BY <1>0 DEF Group
  <1>2. Made(ctx.state) /\ Ahead(ctx.state.session)
    BY <1>0 DEF KeyInv
  <1>3. /\ UNCHANGED <<tmp, blob, chains>>
        /\ used' = used \cup {<<0, n>>} /\ reused' = reused \cup ({<<0, n>>} \cap used)
    BY <1>1, <1>2, Zenon DEF EncryptGroupMessage, UseKey, files, Made
  <1>4. /\ ctx'.state.session = ctx.state.session
        /\ ctx'.state.group.chain = ctx.state.group.chain
    BY <1>0, GroupMoves, Zenon DEF EncryptGroupMessage
  <1>5. Made(ctx.state)' /\ Ahead(ctx.state.session)'
    BY <1>2, <1>3, <1>4 DEF Made, Ahead
  <1>6. \A f \in {tmp', blob'} : f \in Payload => Made(f.state)'
    BY <1>3, Zenon DEF KeyInv, Made
  <1>7. /\ 0 < chains' /\ NoKeyReuse'
        /\ \A k \in used' : k[1] \in Nat /\ k[2] \in Nat /\ k[1] < chains'
    BY <1>0, <1>3 DEF KeyInv, NoKeyReuse
  <1> QED
    BY <1>5, <1>6, <1>7 DEF KeyInv

\* Every step keeps the keys apart.
LEMMA KeyInvNext == DiskInv /\ KeyInv /\ [Next]_vars => KeyInv'
  <1> SUFFICES ASSUME DiskInv, KeyInv, [Next]_vars PROVE KeyInv'
    OBVIOUS
  <1>0. Types
    BY DEF DiskInv
  <1>1. ASSUME NEW t \in Threads, SaveToDisk(t) PROVE KeyInv'
    <2>1. ctx'.state = ctx.state /\ Running
      BY <1>0, <1>1, BeginStep, ZenonT(60) DEF SaveToDisk
    <2> QED
      BY <1>1, <2>1, NothingSent DEF KeyInv, SaveToDisk, files
  <1>2. ASSUME NEW t \in Threads, SaveContext(t), ~WriteTmp(t) PROVE KeyInv'
    <2>1. /\ UNCHANGED <<ctx, chains, used, reused>>
          /\ tmp' \in {tmp, None, Torn} /\ blob' \in {blob, tmp}
      BY <1>2, ZenonT(60) DEF SaveContext, AcquireLock, LockTimeout, TruncateManifest, FillManifest, Rename,
                  Unlock, Fails, files
    <2> QED
      BY <2>1, NothingSent, NoneAssumption, SMTT(30) DEF KeyInv, Running
  <1>3. ASSUME NEW t \in Threads, WriteTmp(t) PROVE KeyInv'
    <2>1. Running
      BY <1>3 DEF DiskInv, InOrder, WriteTmp, At
    <2>2. tmp'.state = ctx.state /\ UNCHANGED <<ctx, blob, chains, used, reused>>
      BY <1>0, <1>3, <2>1, WriteStep, Zenon DEF WriteTmp
    <2> QED
      BY <2>1, <2>2, NothingSent, Zenon DEF KeyInv
  <1>4. CASE LoadFromDisk
    <2>1. /\ blob \in Payload /\ blob.state \in State /\ ctx'.state = Restored(blob.state)
      BY <1>0, <1>4, LoadStep
    <2>2. PICK st \in State : st = ctx'.state
      BY <2>1, RestoredState, Zenon
    <2>3. /\ st.group = blob.state.group /\ st.session.chain = blob.state.session.chain
          /\ st.session.index >= MaxMessages /\ st.session.index \in Nat
      BY <2>1, <2>2, RestoredState, ZenonT(60) DEF State, Session
    <2>4. Made(ctx'.state) /\ Ahead(ctx'.state.session)
      BY <2>1, <2>2, <2>3, BoundsAssumption DEF KeyInv, Made, Ahead
    <2> QED
      BY <1>4, <2>4, NothingSent, Zenon DEF KeyInv, LoadFromDisk, files
  <1>5. CASE Exit \/ Crash \/ RemoveStaleLock \/ UNCHANGED vars
    <2>1. UNCHANGED <<tmp, blob, chains, used, reused>> /\ (ctx' = None \/ ctx' = ctx)
      BY <1>5 DEF Exit, Crash, RemoveStaleLock, vars, files
    <2> QED
      BY <2>1, NothingSent, Zenon DEF KeyInv, Running
  <1> QED
    BY <1>0, <1>1, <1>2, <1>3, <1>4, <1>5, EncryptKeepsKeyInv, HandshakeKeepsKeyInv,
       GroupKeepsKeyInv DEF Next, LoadFails

\* No key of a pairwise session encrypts two messages, whichever save is loaded
\* after whatever was sent since (jump_to_reservation), for any number of
\* messages, saves and restarts.
THEOREM KeysAreFresh == Spec => []NoKeyReuse
  <1>1. KeyInv => NoKeyReuse
    BY DEF KeyInv
  <1> QED
    BY <1>1, DiskInvInit, DiskInvNext, KeyInvInit, KeyInvNext, PTL DEF Spec
=============================================================================
