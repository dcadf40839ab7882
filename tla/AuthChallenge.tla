--------------------------- MODULE AuthChallenge ---------------------------
(***************************************************************************)
(* Challenge-response authentication (server/src/auth.rs).  A user asks    *)
(* for a challenge, which is stored under the user's key, and proves       *)
(* ownership of the key by signing it; the handler looks the challenge up, *)
(* checks the proof, removes the challenge and issues a token.  Lookup and *)
(* removal are separate database transactions, and handlers interleave.    *)
(*                                                                         *)
(* The HMAC over the stored value only detects a changed database and is   *)
(* left out.  A token stands for the challenge it was issued on.           *)
(***************************************************************************)
EXTENDS Naturals, Option

CONSTANTS
    Users,
    Challenges,     \* the random values; each is drawn once
    Handlers        \* prove requests that may be under way together

Proof == [pc : {"lookup", "discard", "invalidate", "issue"},
          user : Users, challenge : Challenges, signed : BOOLEAN]

ASSUME NoneAssumption == None \notin Users /\ None \notin Challenges /\ None \notin Proof

VARIABLES
    pending,    \* tree_challenges: the challenge stored for a user
    drawn,      \* for whom a challenge was drawn
    expired,    \* challenges older than 60 seconds
    task,       \* the prove requests under way
    latest,     \* the challenge a user was sent last
    proven,     \* challenges with a proof that passed the checks
    tokens,     \* the users that hold a token for a challenge
    twice,      \* challenges that two tokens were issued on
    raced,      \* challenges with two proofs between lookup and removal at a time
    overtaken   \* challenges stored while a proof of the user was in that gap

vars == <<pending, drawn, expired, task, latest, proven, tokens, twice, raced, overtaken>>

At(h, pc) == task[h] # None /\ task[h].pc = pc

Goto(h, pc) == task' = [task EXCEPT ![h].pc = pc]

Return(h) == task' = [task EXCEPT ![h] = None]

\* Between the lookup and the removal of the entry.
InGap(h) == At(h, "discard") \/ At(h, "invalidate")

\* challenge_handler: the new challenge replaces the pending one.
ChallengeHandler(u, c) ==
    /\ drawn[c] = None
    /\ drawn' = [drawn EXCEPT ![c] = u]
    /\ pending' = [pending EXCEPT ![u] = c]
    /\ latest' = [latest EXCEPT ![u] = c]
    /\ overtaken' = IF \E h \in Handlers : InGap(h) /\ task[h].user = u
                    THEN overtaken \cup {c} ELSE overtaken
    /\ UNCHANGED <<expired, task, proven, tokens, twice, raced>>

\* The challenge's 60 seconds are over.
Expire(c) ==
    /\ drawn[c] # None
    /\ expired' = expired \cup {c}
    /\ UNCHANGED <<pending, drawn, task, latest, proven, tokens, twice, raced, overtaken>>

\* A request for user u with challenge c arrives; its signature verifies
\* under u's key, or not.
ProveHandler(h, u, c, signed) ==
    /\ task[h] = None
    /\ drawn[c] # None
    /\ task' = [task EXCEPT ![h] = [pc |-> "lookup", user |-> u, challenge |-> c,
                                    signed |-> signed]]
    /\ UNCHANGED <<pending, drawn, expired, latest, proven, tokens, twice, raced, overtaken>>

\* Mutant: the challenge in the request is not compared with the stored one.
Lookup_NoCompare(h) ==
    LET t == task[h]
        stored == pending[t.user]
    IN  /\ At(h, "lookup")
        /\ IF stored # None /\ {stored, t.challenge} \cap expired = {} /\ t.signed
           THEN Goto(h, "invalidate") /\ proven' = proven \cup {stored}
           ELSE Return(h) /\ UNCHANGED proven
        /\ UNCHANGED <<pending, drawn, expired, latest, tokens, twice, raced, overtaken>>

\* Mutant: the challenge is taken out of the table before the checks.
Lookup_Takes(h) ==
    LET t == task[h]
        stored == pending[t.user]
    IN  /\ At(h, "lookup")
        /\ pending' = [pending EXCEPT ![t.user] = None]
        /\ IF stored = t.challenge /\ stored \notin expired /\ t.signed
           THEN Goto(h, "issue") /\ proven' = proven \cup {stored}
           ELSE Return(h) /\ UNCHANGED proven
        /\ UNCHANGED <<drawn, expired, latest, tokens, twice, raced, overtaken>>

\* One read of the database; the checks that follow are local.
Lookup(h) ==
    LET t == task[h]
        stored == pending[t.user]
    IN  /\ At(h, "lookup")
        /\ \/ /\ stored = None
              /\ Return(h)
              /\ UNCHANGED <<proven, raced>>
           \/ /\ stored # None /\ stored \in expired
              /\ Goto(h, "discard")
              /\ UNCHANGED <<proven, raced>>
           \/ /\ stored # None /\ stored \notin expired
              /\ ~(stored = t.challenge /\ t.signed)
              /\ Return(h)
              /\ UNCHANGED <<proven, raced>>
           \/ /\ stored = t.challenge /\ stored \notin expired /\ t.signed
              /\ Goto(h, "invalidate")
              /\ proven' = proven \cup {stored}
              /\ raced' = IF \E g \in Handlers : At(g, "invalidate") /\ task[g].challenge = stored
                          THEN raced \cup {stored} ELSE raced
        /\ UNCHANGED <<pending, drawn, expired, latest, tokens, twice, overtaken>>

\* "Challenge expired": the entry is removed.
Discard(h) ==
    /\ At(h, "discard")
    /\ pending' = [pending EXCEPT ![task[h].user] = None]
    /\ Return(h)
    /\ UNCHANGED <<drawn, expired, latest, proven, tokens, twice, raced, overtaken>>

\* Mutant: the challenge stays pending.
Invalidate_Keeps(h) ==
    /\ At(h, "invalidate")
    /\ Goto(h, "issue")
    /\ UNCHANGED <<pending, drawn, expired, latest, proven, tokens, twice, raced, overtaken>>

\* The entry of the user is removed, whatever it holds by now.
Invalidate(h) ==
    /\ At(h, "invalidate")
    /\ pending' = [pending EXCEPT ![task[h].user] = None]
    /\ Goto(h, "issue")
    /\ UNCHANGED <<drawn, expired, latest, proven, tokens, twice, raced, overtaken>>

\* The token names the user of the request, and ends the request.
IssueToken(h) ==
    LET t == task[h]
    IN  /\ At(h, "issue")
        /\ tokens' = [tokens EXCEPT ![t.challenge] = @ \cup {t.user}]
        /\ twice' = IF tokens[t.challenge] # {} THEN twice \cup {t.challenge} ELSE twice
        /\ Return(h)
        /\ UNCHANGED <<pending, drawn, expired, latest, proven, raced, overtaken>>

\* The server restarts: pending challenges are in the database.
Crash ==
    /\ task' = [h \in Handlers |-> None]
    /\ UNCHANGED <<pending, drawn, expired, latest, proven, tokens, twice, raced, overtaken>>

Init ==
    /\ pending = [u \in Users |-> None]
    /\ drawn = [c \in Challenges |-> None]
    /\ expired = {}
    /\ task = [h \in Handlers |-> None]
    /\ latest = [u \in Users |-> None]
    /\ proven = {}
    /\ tokens = [c \in Challenges |-> {}]
    /\ twice = {} /\ raced = {} /\ overtaken = {}

Prove(h) == Lookup(h) \/ Discard(h) \/ Invalidate(h) \/ IssueToken(h)

Next ==
    \/ \E u \in Users, c \in Challenges : ChallengeHandler(u, c)
    \/ \E c \in Challenges : Expire(c)
    \/ \E h \in Handlers :
           \/ \E u \in Users, c \in Challenges, signed \in BOOLEAN : ProveHandler(h, u, c, signed)
           \/ Prove(h)
    \/ Crash

Spec == Init /\ [][Next]_vars

-----------------------------------------------------------------------------
(* Properties *)

\* A token of prove_handler goes to the user for whom its challenge was drawn,
\* however requests and new challenges of several users interleave.
TokenFollowsChallenge ==
    \A c \in Challenges : tokens[c] \subseteq {drawn[c]}

\* One-time use: prove_handler issues two tokens on a challenge only if two
\* proofs of it were between the lookup and the removal at the same time;
\* restarts, new challenges and expiry do not make a challenge good again.
OneTimeUse == twice \subseteq raced

\* The challenge that challenge_handler answered last stays pending until it
\* expires or a proof with it passes, unless it was stored while a proof of
\* the user was about to remove the entry it had looked up.
LatestStands ==
    \A u \in Users :
        latest[u] \in {pending[u], None} \cup expired \cup proven \cup overtaken
=============================================================================
