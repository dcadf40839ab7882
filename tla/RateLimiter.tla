---------------------------- MODULE RateLimiter ----------------------------
(***************************************************************************)
(* The rate limiter that guards every operation of a SecureContext and     *)
(* every request of the relay server (core/src/rate_limit.rs).             *)
(*                                                                         *)
(* A call of check reads the clock, takes the lock of the global counter,  *)
(* releases it, and takes the lock of the client table; calls of different *)
(* threads interleave between these steps, so a call may go on with a time *)
(* that is already past.  A tick stands for a millisecond: Second is the   *)
(* 1000 of the code, Credit its 60 s, Wrap its 2^32.  The profiles of      *)
(* Cargo.toml set overflow-checks and panic = "abort": a product that does *)
(* not fit into 32 bits ends the process.                                  *)
(***************************************************************************)
EXTENDS Integers, FiniteSets, Option

CONSTANTS
    Clients,        \* client_id strings that are followed; the others are counted
    Operations,     \* operation names that callers use
    Threads,        \* threads that call check
    Windows,        \* the fixed windows: second, minute, hour, day
    Length,         \* the length of each window
    Second, Credit, Wrap,
    NewLimits,      \* the limits that RateLimiter::new inserts
    ServerLimits,   \* the limits that run_server adds
    NewRps,         \* global_rps of RateLimiter::new
    ServerRps,      \* global_rps of run_server
    MaxTracked,     \* MAX_TRACKED_CLIENTS
    Ages,           \* arguments of prune_inactive
    MaxTime,        \* bound on the clock
    MaxStall        \* bound on how long a call of check is held up

\* OperationLimit
Limit == [max : [Windows -> Nat], cooldown : Nat, burst_size : Nat]

ASSUME TimeAssumption ==
    /\ Second \in Nat \ {0} /\ Credit \in Nat /\ Wrap \in Nat \ {0}
    /\ Length \in [Windows -> Nat \ {0}]
    /\ MaxTime \in Nat /\ MaxStall \in Nat

ASSUME LimitsAssumption ==
    /\ DOMAIN NewLimits \subseteq Operations /\ DOMAIN ServerLimits \subseteq Operations
    /\ \A o \in DOMAIN NewLimits : NewLimits[o] \in Limit
    /\ \A o \in DOMAIN ServerLimits : ServerLimits[o] \in Limit
    /\ NewRps \in Nat /\ ServerRps \in Nat /\ MaxTracked \in Nat /\ Ages \subseteq Nat

\* ClientCounter
Counter == [count : [Windows -> Nat], last : [Windows -> Int],
            cooldown_until : Int \cup {None}, burst_tokens : Nat, last_refill : Int]

\* A call of check that is under way.
Call == [op : Operations, client : Clients, now : Nat,
         error : {"none", "global"}]

ASSUME CounterAssumption == None \notin Int /\ None \notin Counter /\ None \notin Call

VARIABLES
    clock,
    limits,     \* RateLimiter.limits
    rps,        \* RateLimiter.global_rps
    global,     \* RateLimiter.global_counter
    counters,   \* RateLimiter.counters; None: no entry
    others,     \* entries of RateLimiter.counters for other clients
    call,       \* the call of each thread
    aborted,    \* the process has ended
    admitted,   \* per client, the calls that were admitted
    refusal,    \* per client, the last call refused
    touched     \* per client, when the limiter last dealt with it

limiterVars == <<clock, limits, rps, global, counters, others, call, aborted, admitted, refusal, touched>>
history == <<admitted, refusal, touched>>

\* A call that check has admitted: what, when, and which of those.
Admission == [op : Operations, at : Nat, n : Nat]

-----------------------------------------------------------------------------
(* Counters *)

\* Instant::duration_since, which is zero when the other instant is later.
Since(now, then) == IF now >= then THEN now - then ELSE 0

\* ClientCounter::default
NewCounter(now) ==
    [count |-> [w \in Windows |-> 0], last |-> [w \in Windows |-> now],
     cooldown_until |-> None, burst_tokens |-> 0, last_refill |-> now - Credit]

\* Mutant: the count of a window that is over is cleared, its start is not moved.
UpdateCounters_KeepsStart(k, now) ==
    LET over(w) == Since(now, k.last[w]) >= Length[w]
    IN  [k EXCEPT !.count = [w \in Windows |-> IF over(w) THEN 0 ELSE @[w]]]

UpdateCounters(k, now) ==
    LET over(w) == Since(now, k.last[w]) >= Length[w]
    IN  [k EXCEPT !.count = [w \in Windows |-> IF over(w) THEN 0 ELSE k.count[w]],
                  !.last = [w \in Windows |-> IF over(w) THEN now ELSE k.last[w]]]

\* elapsed.as_millis() as u32 * burst_size: the cast wraps, the product must fit.
Product(k, limit, now) == (Since(now, k.last_refill) % Wrap) * limit.burst_size

Overflows(k, limit, now) == Product(k, limit, now) >= Wrap

RefillBurstTokens(k, limit, now) ==
    LET added == Product(k, limit, now) \div Second
        full == k.burst_tokens + added
    IN  IF added = 0 THEN k
        ELSE [k EXCEPT !.burst_tokens =
                           IF full < limit.burst_size THEN full ELSE limit.burst_size,
                       !.last_refill = now]

Tracked == {c \in Clients : counters[c] # None}

Full == Cardinality(Tracked) + others >= MaxTracked

\* counters.entry(client_id).or_default()
Entry(c, now) == IF counters[c] = None THEN NewCounter(now) ELSE counters[c]

InCooldown(k, now) == k.cooldown_until # None /\ now < k.cooldown_until

\* The counter after the cooldown check, update_counters and
\* refill_burst_tokens.
Refreshed(k, limit, now) ==
    LET cooled == IF InCooldown(k, now) THEN k ELSE [k EXCEPT !.cooldown_until = None]
    IN  RefillBurstTokens(UpdateCounters(cooled, now), limit, now)

\* Steps 3 and 4 of check, for a call that has passed the global limit.
Allowed(c, limit, now) ==
    LET k == Entry(c, now)
        fresh == Refreshed(k, limit, now)
    IN  /\ c \notin Tracked => ~Full
        /\ ~InCooldown(k, now)
        /\ fresh.burst_tokens > 0
        /\ \A w \in Windows : fresh.count[w] < limit.max[w]

-----------------------------------------------------------------------------
(* Setting the limiter up *)

\* run_server: before the limiter is shared.  A SecureContext uses it as new
\* leaves it.
ConfigureServer ==
    /\ ~aborted
    /\ limits = NewLimits
    /\ others = 0 /\ \A c \in Clients : counters[c] = None
    /\ \A t \in Threads : call[t] = None
    /\ clock = 0 /\ global.count = 0
    /\ limits' = [o \in DOMAIN NewLimits \cup DOMAIN ServerLimits |->
                      IF o \in DOMAIN ServerLimits THEN ServerLimits[o] ELSE NewLimits[o]]
    /\ rps' = ServerRps
    /\ UNCHANGED <<clock, global, counters, others, call, aborted, history>>

-----------------------------------------------------------------------------
(* check *)

\* The global counter after its window was reset, if that is due.
GlobalWindow(now) ==
    IF Since(now, global.last_reset) >= Second
    THEN [count |-> 0, last_reset |-> now]
    ELSE global

\* The clock is read; step 1, and step 2: a call that names no known operation
\* has been counted globally and returns.
CheckGlobalLimit(t, o, c) ==
    LET g == GlobalWindow(clock)
        over == g.count >= rps
    IN  /\ ~aborted
        /\ call[t] = None
        /\ global' = IF over THEN g ELSE [g EXCEPT !.count = @ + 1]
        /\ call' = IF o \notin DOMAIN limits THEN call
                   ELSE [call EXCEPT ![t] = [op |-> o, client |-> c, now |-> clock,
                                             error |-> IF over THEN "global" ELSE "none"]]
        /\ UNCHANGED <<clock, limits, rps, counters, others, aborted, history>>

\* One more admission of o, now.
Newly(c, o) ==
    LET nth(i) == [op |-> o, at |-> clock, n |-> i]
    IN  nth(CHOOSE i \in 0..Cardinality(admitted[c]) : nth(i) \notin admitted[c])

Recorded(c, o) == [admitted EXCEPT ![c] = @ \cup {Newly(c, o)}]

\* Mutant: a second refusal adds to the cooldown that is running.
Refused_AddsUp(k, limit, now) ==
    LET from == IF k.cooldown_until = None THEN now ELSE k.cooldown_until
    IN  [k EXCEPT !.cooldown_until = from + limit.cooldown]

\* Mutant: a cooldown that is running is left alone.
Refused_LetsRun(k, limit, now) ==
    IF k.cooldown_until = None THEN [k EXCEPT !.cooldown_until = now + limit.cooldown] ELSE k

\* Step 5: any refusal starts the cooldown of this operation anew.
Refused(k, limit, now) == [k EXCEPT !.cooldown_until = now + limit.cooldown]

Granted(k) == [k EXCEPT !.count = [w \in Windows |-> k.count[w] + 1],
                        !.burst_tokens = k.burst_tokens - 1]

\* Steps 3 to 5, under the lock of the table.  The entry is made even when the
\* table is full.
CheckClient(t) ==
    LET c == call[t].client
        now == call[t].now
        limit == limits[call[t].op]
        k == Refreshed(Entry(c, now), limit, now)
        ok == call[t].error = "none" /\ Allowed(c, limit, now)
    IN  /\ ~aborted
        /\ call[t] # None
        /\ ~Overflows(Entry(c, now), limit, now)
        /\ counters' = [counters EXCEPT ![c] =
                            IF ok THEN Granted(k) ELSE Refused(k, limit, now)]
        /\ admitted' = IF ok THEN Recorded(c, call[t].op)
                       ELSE admitted
        /\ refusal' = IF ok THEN refusal
                      ELSE [refusal EXCEPT ![c] = [op |-> call[t].op, now |-> now]]
        /\ touched' = [touched EXCEPT ![c] = clock]
        /\ call' = [call EXCEPT ![t] = None]
        /\ UNCHANGED <<clock, limits, rps, global, others, aborted>>

\* refill_burst_tokens panics: the process is gone with all its threads.
CheckClientPanics(t) ==
    /\ ~aborted
    /\ call[t] # None
    /\ Overflows(Entry(call[t].client, call[t].now), limits[call[t].op], call[t].now)
    /\ aborted' = TRUE
    /\ UNCHANGED <<clock, limits, rps, global, counters, others, call, history>>

-----------------------------------------------------------------------------
(* The other operations *)

\* check_global
CheckGlobal ==
    LET g == GlobalWindow(clock)
    IN  /\ ~aborted
        /\ global' = IF g.count >= rps THEN g ELSE [g EXCEPT !.count = @ + 1]
        /\ UNCHANGED <<clock, limits, rps, counters, others, call, aborted, history>>

\* check for some other client, whose counter is left out.
CheckOther ==
    LET g == GlobalWindow(clock)
    IN  /\ ~aborted
        /\ others < MaxTracked
        /\ others' = others + 1
        /\ global' = IF g.count >= rps THEN g ELSE [g EXCEPT !.count = @ + 1]
        /\ UNCHANGED <<clock, limits, rps, counters, call, aborted, history>>

\* remaining: the query brings the counter up to date; it makes an entry for a
\* client it does not know unless the table is full.
Remaining(o, c) ==
    LET k == Entry(c, clock)
    IN  /\ ~aborted
        /\ o \in DOMAIN limits
        /\ c \notin Tracked => ~Full
        /\ IF Overflows(k, limits[o], clock)
           THEN aborted' = TRUE /\ UNCHANGED <<counters, touched>>
           ELSE /\ counters' = [counters EXCEPT ![c] =
                       RefillBurstTokens(UpdateCounters(k, clock), limits[o], clock)]
                /\ touched' = [touched EXCEPT ![c] = clock]
                /\ UNCHANGED aborted
        /\ UNCHANGED <<clock, limits, rps, global, others, call, admitted, refusal>>

\* Forgetting a client ends what can be said of it.
Forget(gone) ==
    /\ counters' = [c \in Clients |-> IF c \in gone THEN None ELSE counters[c]]
    /\ admitted' = [c \in Clients |-> IF c \in gone THEN {} ELSE admitted[c]]
    /\ refusal' = [c \in Clients |-> IF c \in gone THEN None ELSE refusal[c]]
    /\ others' \in 0..others
    /\ UNCHANGED <<clock, limits, rps, global, call, aborted, touched>>

\* reset
Reset(c) ==
    /\ ~aborted
    /\ c \in Tracked
    /\ Forget({c})
    /\ UNCHANGED others

\* prune_inactive
PruneInactive(age) ==
    /\ ~aborted
    /\ Forget({c \in Tracked : \E w \in Windows :
                   Length[w] = Second /\ Since(clock, counters[c].last[w]) >= age})

\* Time passes.  What no window and no cooldown reaches any more is dropped
\* from the history.
Tick ==
    LET recent(at) == \E w \in Windows : clock + 1 - at < Length[w]
    IN  /\ ~aborted
        /\ clock < MaxTime
        /\ \A t \in Threads : call[t] # None => clock - call[t].now < MaxStall
        /\ clock' = clock + 1
        /\ admitted' = [c \in Clients |-> {a \in admitted[c] : recent(a.at)}]
        /\ refusal' = [c \in Clients |->
               IF refusal[c] # None /\ clock >= refusal[c].now + limits[refusal[c].op].cooldown
               THEN None ELSE refusal[c]]
        /\ UNCHANGED <<limits, rps, global, counters, others, call, aborted, touched>>

\* The process is started again.
Restart ==
    /\ aborted
    /\ aborted' = FALSE
    /\ limits' = NewLimits
    /\ rps' = NewRps
    /\ global' = [count |-> 0, last_reset |-> clock]
    /\ counters' = [c \in Clients |-> None]
    /\ others' = 0
    /\ call' = [t \in Threads |-> None]
    /\ admitted' = [c \in Clients |-> {}]
    /\ refusal' = [c \in Clients |-> None]
    /\ UNCHANGED <<clock, touched>>

-----------------------------------------------------------------------------

LimiterInit ==
    /\ clock = 0
    /\ limits = NewLimits
    /\ rps = NewRps
    /\ global = [count |-> 0, last_reset |-> 0]
    /\ counters = [c \in Clients |-> None]
    /\ others = 0
    /\ call = [t \in Threads |-> None]
    /\ aborted = FALSE
    /\ admitted = [c \in Clients |-> {}]
    /\ refusal = [c \in Clients |-> None]
    /\ touched = [c \in Clients |-> 0]

LimiterNext ==
    \/ ConfigureServer
    \/ \E t \in Threads :
           \/ \E o \in Operations, c \in Clients : CheckGlobalLimit(t, o, c)
           \/ CheckClient(t) \/ CheckClientPanics(t)
    \/ CheckGlobal \/ CheckOther
    \/ \E o \in Operations, c \in Clients : Remaining(o, c)
    \/ \E c \in Clients : Reset(c)
    \/ \E age \in Ages : PruneInactive(age)
    \/ Tick
    \/ Restart

LimiterSpec == LimiterInit /\ [][LimiterNext]_limiterVars

-----------------------------------------------------------------------------
(* Properties *)

\* The admissions of o for c in the span of time that begins at from.
AdmittedWithin(c, o, from, span) ==
    {a \in admitted[c] : a.op = o /\ a.at >= from /\ a.at < from + span}

\* The fixed windows of check let at most twice the maximum of an operation
\* through in any span of a window's length, less the time a call may be held
\* up between reading the clock and taking the lock: two calls that finish in
\* the wrong order never open a third window in that span.
SlidingLimit ==
    \A c \in Clients, o \in DOMAIN limits, w \in Windows, from \in 0..clock :
        Cardinality(AdmittedWithin(c, o, from, Length[w] - MaxStall)) <= 2 * limits[o].max[w]

\* A cooldown that a refused call of check starts is served in full, counted
\* from the start of that call, whatever calls overtake it; only a later
\* refusal replaces it.
PenaltyServed ==
    [][\A c \in Clients :
           admitted'[c] \ admitted[c] # {} /\ refusal[c] # None
           => clock >= refusal[c].now + limits[refusal[c].op].cooldown]_limiterVars

\* Long enough for every window and every cooldown to be over.
Patient(c) ==
    /\ \A w \in Windows : clock - touched[c] >= Length[w]
    /\ \A o \in DOMAIN limits : clock - touched[c] >= limits[o].cooldown

\* A client that has left the limiter alone for the longest window and the
\* longest cooldown is admitted by check again, whatever it or others did
\* before, if the refill of its tokens does not overflow.
PatientIsAdmitted ==
    \A c \in Tracked, o \in DOMAIN limits :
        /\ ~aborted /\ Patient(c)
        /\ \A t \in Threads : call[t] = None
        /\ ~Overflows(counters[c], limits[o], clock)
        => Allowed(c, limits[o], clock)

\* check comes back with Ok or with a RateLimitError: no call of it that is
\* under way has brought the process down.
CheckReturns ==
    \A t \in Threads : aborted /\ call[t] # None =>
        ~Overflows(Entry(call[t].client, call[t].now), limits[call[t].op], call[t].now)
=============================================================================
