---------------------------- MODULE AccessProofs ----------------------------
(***************************************************************************)
(* Proofs about the two things that let a request in: the challenges of    *)
(* AuthChallenge, for any users and any number of requests under way, and  *)
(* the limits of RateLimiter, for any clients, threads, limits and times.  *)
(***************************************************************************)
EXTENDS AuthChallenge, RateLimiter, FiniteSetTheorems, TLAPS

Types ==
    /\ pending \in [Users -> Challenges \cup {None}]
    /\ drawn \in [Challenges -> Users \cup {None}]
    /\ latest \in [Users -> Challenges \cup {None}]
    /\ tokens \in [Challenges -> SUBSET Users]
    /\ task \in [Handlers -> Proof \cup {None}]

\* A proof that has passed the checks of the lookup.
Passed(h) == At(h, "invalidate") \/ At(h, "issue")

\* What is pending for a user was drawn for that user, and so was what a
\* proof of theirs has passed with.
UserInv ==
    /\ Types
    /\ \A u \in Users : pending[u] # None => drawn[pending[u]] = u
    /\ \A h \in Handlers : Passed(h) => drawn[task[h].challenge] = task[h].user
    /\ TokenFollowsChallenge

\* A challenge that is pending has not been used; one that was not raced for
\* has one proof at most, and none once it was used.
OnceInv ==
    /\ \A u \in Users, c \in Challenges : pending[u] = c =>
           tokens[c] = {} /\ \A h \in Handlers : At(h, "issue") => task[h].challenge # c
    /\ \A c \in Challenges : c \notin raced =>
           \A h \in Handlers : Passed(h) /\ task[h].challenge = c =>
               tokens[c] = {} /\ \A g \in Handlers : Passed(g) /\ task[g].challenge = c => g = h
    /\ OneTimeUse

\* What is pending is the latest, and a proof that is about to remove an entry
\* meets one that is expired, proven or stored in the meantime.
StandInv ==
    /\ \A u \in Users : pending[u] \in {None, latest[u]}
    /\ \A h \in Handlers : InGap(h) => latest[task[h].user] \in expired \cup proven \cup overtaken
    /\ LatestStands

-----------------------------------------------------------------------------

\* A request that goes on keeps user and challenge; the others stay.
LEMMA GotoStep ==
    ASSUME Types, NEW h \in Handlers, task[h] # None,
           NEW pc \in {"lookup", "discard", "invalidate", "issue"}, Goto(h, pc)
    PROVE  /\ task' \in [Handlers -> Proof \cup {None}]
           /\ task'[h] # None /\ task'[h].pc = pc
           /\ task'[h].user = task[h].user /\ task'[h].challenge = task[h].challenge
           /\ \A g \in Handlers : g # h => task'[g] = task[g]
  <1>1. PICK t \in Proof : task[h] = t
    BY DEF Types
  <1>2. [t EXCEPT !.pc = pc] \in Proof
    BY DEF Proof
  <1>3. task' = [task EXCEPT ![h] = [t EXCEPT !.pc = pc]]
    BY <1>1 DEF Goto
  <1>4. task'[h] = [t EXCEPT !.pc = pc]
    BY <1>3 DEF Types
  <1>5. task'[h].pc = pc /\ task'[h].user = t.user /\ task'[h].challenge = t.challenge
    BY <1>1, <1>4 DEF Proof
  <1> QED
    BY <1>1, <1>2, <1>3, <1>4, <1>5, NoneAssumption DEF Types

\* A request that ends is gone; the others stay.
LEMMA ReturnStep ==
    ASSUME Types, NEW h \in Handlers, Return(h)
    PROVE  /\ task' \in [Handlers -> Proof \cup {None}]
           /\ task'[h] = None
           /\ \A g \in Handlers : g # h => task'[g] = task[g]
  BY DEF Types, Return

\* The fields of a request under way.
LEMMA TaskFields ==
    ASSUME Types, NEW h \in Handlers, task[h] # None
    PROVE  task[h].user \in Users /\ task[h].challenge \in Challenges
  BY DEF Types, Proof

\* The store of challenges is emptied for a user, and the others keep theirs.
LEMMA Emptied ==
    ASSUME Types, NEW u \in Users, pending' = [pending EXCEPT ![u] = None]
    PROVE  /\ pending' \in [Users -> Challenges \cup {None}] /\ pending'[u] = None
           /\ \A v \in Users : pending'[v] \in {None, pending[v]}
  BY Zenon DEF Types

\* The proofs that have passed the lookup did so before the step.
NoneNewPassed ==
    \A g \in Handlers : Passed(g)' => /\ Passed(g) /\ task'[g].challenge = task[g].challenge
                                     /\ task'[g].user = task[g].user

\* A request that is not past the lookup after a step that leaves the others
\* alone adds nothing to those that passed.
LEMMA NonePassed ==
    ASSUME NEW h \in Handlers, task'[h] = None \/ task'[h].pc \in {"lookup", "discard"},
           \A g \in Handlers : g # h => task'[g] = task[g]
    PROVE  NoneNewPassed /\ \A g \in Handlers : At(g, "issue")' => At(g, "issue")
  <1>1. ~Passed(h)'
    BY Zenon DEF Passed, At
  <1>2. \A g \in Handlers : g # h => (Passed(g)' => Passed(g)) /\ (At(g, "issue")' => At(g, "issue"))
    BY Zenon DEF Passed, At
  <1> QED
    BY <1>1, <1>2, Zenon DEF NoneNewPassed, Passed

\* A step after which nothing else is pending, and which draws no challenge,
\* issues no token and lets no proof pass, keeps the users apart.
LEMMA UserFrame ==
    ASSUME UserInv, UNCHANGED <<drawn, tokens, latest>>, NoneNewPassed,
           task' \in [Handlers -> Proof \cup {None}],
           pending' \in [Users -> Challenges \cup {None}],
           \A v \in Users : pending'[v] \in {None, pending[v]}
    PROVE  UserInv'
  <1>1. Types'
    BY Zenon DEF UserInv, Types
  <1>2. \A u \in Users : pending'[u] # None => drawn'[pending'[u]] = u
    BY Zenon DEF UserInv
  <1>3. \A h \in Handlers : Passed(h)' => drawn'[task'[h].challenge] = task'[h].user
    BY Zenon DEF UserInv, NoneNewPassed
  <1>4. TokenFollowsChallenge'
    BY Zenon DEF UserInv, TokenFollowsChallenge
  <1> QED
    BY <1>1, <1>2, <1>3, <1>4, Zenon DEF UserInv

\* Such a step does not use a challenge either.
LEMMA OnceFrame ==
    ASSUME OnceInv, UNCHANGED <<tokens, twice, raced>>, NoneNewPassed,
           \A g \in Handlers : At(g, "issue")' => At(g, "issue"),
           \A v \in Users : pending'[v] \in {None, pending[v]}
    PROVE  OnceInv'
  <1>1. ASSUME NEW u \in Users, NEW c \in Challenges, pending'[u] = c
        PROVE  tokens'[c] = {} /\ \A h \in Handlers : At(h, "issue")' => task'[h].challenge # c
    <2>1. pending[u] = c
      BY <1>1, NoneAssumption, Zenon
    <2>2. tokens[c] = {} /\ \A h \in Handlers : At(h, "issue") => task[h].challenge # c
      BY <2>1, Zenon DEF OnceInv
    <2>3. \A h \in Handlers : At(h, "issue")' => task'[h].challenge = task[h].challenge
      BY Zenon DEF NoneNewPassed, Passed
    <2> QED
      BY <2>2, <2>3, Zenon
  <1>2. ASSUME NEW c \in Challenges, c \notin raced', NEW h \in Handlers, Passed(h)',
               task'[h].challenge = c
        PROVE  tokens'[c] = {} /\ \A g \in Handlers : Passed(g)' /\ task'[g].challenge = c => g = h
    <2>1. \A g \in Handlers : Passed(g)' /\ task'[g].challenge = c => Passed(g) /\ task[g].challenge = c
      BY Zenon DEF NoneNewPassed
    <2>2. Passed(h) /\ task[h].challenge = c
      BY <1>2, <2>1, Zenon
    <2>3. tokens[c] = {} /\ \A g \in Handlers : Passed(g) /\ task[g].challenge = c => g = h
      BY <1>2, <2>2, Zenon DEF OnceInv
    <2> QED
      BY <2>1, <2>3, Zenon
  <1>3. OneTimeUse'
    BY Zenon DEF OnceInv, OneTimeUse
  <1> QED
    BY <1>1, <1>2, <1>3, Zenon DEF OnceInv

-----------------------------------------------------------------------------

\* Nothing is pending before the first request.
LEMMA UserInvInit == Init => UserInv
  BY NoneAssumption DEF Init, UserInv, Types, Passed, At, TokenFollowsChallenge

\* A lookup passes with what is pending for the user of the request, and
\* nothing that is drawn is drawn again.
LEMMA UserInvNext == UserInv /\ [Next]_vars => UserInv'
  <1> SUFFICES ASSUME UserInv, [Next]_vars PROVE UserInv'
    BY Zenon
  <1> USE NoneAssumption
  <1>1. ASSUME NEW u \in Users, NEW c \in Challenges, ChallengeHandler(u, c) PROVE UserInv'
    BY <1>1, TaskFields DEF UserInv, Types, ChallengeHandler, Passed, At, TokenFollowsChallenge
  <1>0. Types
    BY Zenon DEF UserInv
  <1>2. ASSUME NEW c \in Challenges, Expire(c) PROVE UserInv'
    BY <1>2, Zenon DEF UserInv, Types, Expire, Passed, At, TokenFollowsChallenge
  <1>3. ASSUME NEW h \in Handlers, NEW u \in Users, NEW c \in Challenges, NEW signed \in BOOLEAN,
               ProveHandler(h, u, c, signed)
        PROVE  UserInv'
    <2> DEFINE t == [pc |-> "lookup", user |-> u, challenge |-> c, signed |-> signed]
    <2>1. t \in Proof /\ t.pc = "lookup"
      BY DEF Proof
    <2>2. task' = [task EXCEPT ![h] = t] /\ UNCHANGED <<pending, drawn, tokens, latest>>
      BY <1>3, Zenon DEF ProveHandler
    <2> HIDE DEF t
    <2>3. /\ task' \in [Handlers -> Proof \cup {None}] /\ task'[h] = t
          /\ \A g \in Handlers : g # h => task'[g] = task[g]
      BY <1>0, <2>1, <2>2, Zenon DEF Types
    <2>4. NoneNewPassed
      BY <2>1, <2>3, NonePassed, Zenon
    <2> QED
      BY <1>0, <2>2, <2>3, <2>4, UserFrame, ZenonT(60) DEF Types
  <1>4. ASSUME NEW h \in Handlers, Lookup(h) PROVE UserInv'
    <2>0. task[h] # None /\ UNCHANGED <<pending, drawn, latest, tokens>>
      BY <1>4, Zenon DEF Lookup, At
    <2>a. pending \in [Users -> Challenges \cup {None}]
      BY <1>0, Zenon DEF Types
    <2>1. CASE Return(h) \/ Goto(h, "discard")
      <3>1. /\ task' \in [Handlers -> Proof \cup {None}]
            /\ task'[h] = None \/ task'[h].pc = "discard"
            /\ \A g \in Handlers : g # h => task'[g] = task[g]
        BY <1>0, <2>0, <2>1, ReturnStep, GotoStep, ZenonT(60)
      <3>2. NoneNewPassed
        BY <3>1, NonePassed, Zenon
      <3> QED
        BY <2>0, <2>a, <3>1, <3>2, UserFrame, ZenonT(60)
    <2>2. CASE pending[task[h].user] = task[h].challenge /\ Goto(h, "invalidate")
      <3>1. /\ task' \in [Handlers -> Proof \cup {None}]
            /\ task'[h].user = task[h].user /\ task'[h].challenge = task[h].challenge
            /\ \A g \in Handlers : g # h => task'[g] = task[g]
        BY <1>0, <2>0, <2>2, GotoStep, ZenonT(60)
      <3>2. drawn[task[h].challenge] = task[h].user
        BY <1>0, <2>0, <2>2, TaskFields, Zenon DEF UserInv
      <3>3. \A g \in Handlers : Passed(g)' => drawn'[task'[g].challenge] = task'[g].user
        BY <2>0, <3>1, <3>2, ZenonT(60) DEF UserInv, Passed, At
      <3> QED
        BY <1>0, <2>0, <3>1, <3>3, ZenonT(60) DEF UserInv, Types, TokenFollowsChallenge
    <2> QED
      BY <1>4, <2>1, <2>2, ZenonT(60) DEF Lookup
  <1>5. ASSUME NEW h \in Handlers, Discard(h) PROVE UserInv'
    <2>1. /\ task[h] # None /\ task[h].user \in Users
          /\ pending' = [pending EXCEPT ![task[h].user] = None] /\ Return(h)
          /\ UNCHANGED <<drawn, latest, tokens>>
      BY <1>0, <1>5, TaskFields, Zenon DEF Discard, At
    <2>2. NoneNewPassed /\ task' \in [Handlers -> Proof \cup {None}]
      BY <1>0, <2>1, ReturnStep, NonePassed, ZenonT(60)
    <2> QED
      BY <1>0, <2>1, <2>2, Emptied, UserFrame, ZenonT(60)
  <1>6. ASSUME NEW h \in Handlers, Invalidate(h) PROVE UserInv'
    <2>1. /\ task[h] # None /\ Passed(h) /\ task[h].user \in Users
          /\ pending' = [pending EXCEPT ![task[h].user] = None] /\ Goto(h, "issue")
          /\ UNCHANGED <<drawn, latest, tokens>>
      BY <1>0, <1>6, TaskFields, Zenon DEF Invalidate, At, Passed
    <2>2. /\ task' \in [Handlers -> Proof \cup {None}]
          /\ task'[h].user = task[h].user /\ task'[h].challenge = task[h].challenge
          /\ \A g \in Handlers : g # h => task'[g] = task[g]
      BY <1>0, <2>1, GotoStep, ZenonT(60)
    <2>3. NoneNewPassed
      BY <2>1, <2>2, ZenonT(60) DEF NoneNewPassed, Passed, At
    <2> QED
      BY <1>0, <2>1, <2>2, <2>3, Emptied, UserFrame, ZenonT(60)
  <1>7. ASSUME NEW h \in Handlers, IssueToken(h) PROVE UserInv'
    <2>1. /\ task[h] # None /\ Passed(h) /\ task[h].user \in Users /\ task[h].challenge \in Challenges
          /\ tokens' = [tokens EXCEPT ![task[h].challenge] = @ \cup {task[h].user}] /\ Return(h)
          /\ UNCHANGED <<pending, drawn, latest>>
      BY <1>0, <1>7, TaskFields, Zenon DEF IssueToken, At, Passed
    <2>2. /\ task' \in [Handlers -> Proof \cup {None}] /\ task'[h] = None
          /\ \A g \in Handlers : g # h => task'[g] = task[g]
      BY <1>0, <2>1, ReturnStep, Zenon
    <2>3. drawn[task[h].challenge] = task[h].user
      BY <2>1, Zenon DEF UserInv
    <2>4. tokens' \in [Challenges -> SUBSET Users] /\ TokenFollowsChallenge'
      BY <1>0, <2>1, <2>3, ZenonT(60) DEF UserInv, Types, TokenFollowsChallenge
    <2>5. NoneNewPassed
      BY <2>2, NonePassed, Zenon
    <2>6. \A g \in Handlers : Passed(g)' => drawn'[task'[g].challenge] = task'[g].user
      BY <2>1, <2>5, Zenon DEF UserInv, NoneNewPassed
    <2> QED
      BY <1>0, <2>1, <2>2, <2>4, <2>6, ZenonT(60) DEF UserInv, Types
  <1>8. CASE Crash
    BY <1>8, Zenon DEF UserInv, Types, Crash, Passed, At, TokenFollowsChallenge
  <1>9. CASE UNCHANGED vars
    BY <1>9 DEF UserInv, Types, vars, Passed, At, TokenFollowsChallenge
  <1> QED
    BY <1>1, <1>2, <1>3, <1>4, <1>5, <1>6, <1>7, <1>8, <1>9, ZenonT(60) DEF Next, Prove

\* Tokens go to the user for whom the challenge was drawn (prove_handler), for
\* any number of users and requests.
THEOREM TokensFollow == Spec => []TokenFollowsChallenge
  <1>1. UserInv => TokenFollowsChallenge
    BY Zenon DEF UserInv
  <1> QED
    BY <1>1, UserInvInit, UserInvNext, PTL DEF Spec

-----------------------------------------------------------------------------

\* No challenge was used before the first request.
LEMMA OnceInvInit == Init => OnceInv
  BY NoneAssumption DEF Init, OnceInv, Passed, At, OneTimeUse

\* A removal ends the use of a challenge: it is not drawn again, so it does
\* not come back; proofs that passed before the removal have raced.
LEMMA OnceInvNext == UserInv /\ OnceInv /\ [Next]_vars => OnceInv'
  <1> SUFFICES ASSUME UserInv, OnceInv, [Next]_vars PROVE OnceInv'
    OBVIOUS
  <1> USE NoneAssumption
  <1>0. Types
    BY ZenonT(60) DEF UserInv
  <1>1. ASSUME NEW u \in Users, NEW c \in Challenges, ChallengeHandler(u, c) PROVE OnceInv'
    \* What was not drawn has no token and no proof.
    <2>1. tokens[c] = {} /\ \A h \in Handlers : Passed(h) => task[h].challenge # c
      <3>1. drawn[c] = None /\ None \notin Users
        BY <1>1, Zenon DEF ChallengeHandler
      <3>2. tokens[c] = {}
        BY <1>0, <3>1 DEF UserInv, Types, TokenFollowsChallenge
      <3>3. \A h \in Handlers : Passed(h) => drawn[task[h].challenge] # None
        BY <1>0, <3>1, TaskFields, Zenon DEF UserInv, Passed, At
      <3> QED
        BY <3>1, <3>2, <3>3, Zenon
    <2>2. UNCHANGED <<task, tokens, twice, raced>> /\ \A v \in Users : pending'[v] \in {c, pending[v]}
      BY <1>0, <1>1, Zenon DEF ChallengeHandler, Types
    <2>3. ASSUME NEW v \in Users, NEW d \in Challenges, pending'[v] = d
          PROVE  tokens'[d] = {} /\ \A h \in Handlers : At(h, "issue")' => task'[h].challenge # d
      <3>1. tokens[d] = {} /\ \A h \in Handlers : At(h, "issue") => task[h].challenge # d
        BY <2>1, <2>2, <2>3, Zenon DEF OnceInv, Passed
      <3> QED
        BY <2>2, <3>1, Zenon DEF At
    <2>4. \A h \in Handlers : Passed(h)' <=> Passed(h)
      BY <2>2, Zenon DEF Passed, At
    <2>5. ASSUME NEW d \in Challenges, d \notin raced', NEW h \in Handlers, Passed(h)',
                 task'[h].challenge = d
          PROVE  tokens'[d] = {} /\ \A g \in Handlers : Passed(g)' /\ task'[g].challenge = d => g = h
      BY <2>2, <2>4, <2>5, ZenonT(60) DEF OnceInv
    <2>6. OneTimeUse'
      BY <2>2, Zenon DEF OnceInv, OneTimeUse
    <2> QED
      BY <2>3, <2>5, <2>6, Zenon DEF OnceInv
  <1>2. ASSUME NEW c \in Challenges, Expire(c) PROVE OnceInv'
    <2>1. UNCHANGED <<task, tokens, twice, raced>> /\ \A v \in Users : pending'[v] \in {None, pending[v]}
      BY <1>0, <1>2, ZenonT(60) DEF Expire, Types
    <2>2. NoneNewPassed /\ \A g \in Handlers : At(g, "issue")' => At(g, "issue")
      BY <2>1, Zenon DEF NoneNewPassed, Passed, At
    <2> QED
      BY <2>1, <2>2, OnceFrame, Zenon
  <1>3. ASSUME NEW h \in Handlers, NEW u \in Users, NEW c \in Challenges, NEW signed \in BOOLEAN,
               ProveHandler(h, u, c, signed)
        PROVE  OnceInv'
    <2> DEFINE t == [pc |-> "lookup", user |-> u, challenge |-> c, signed |-> signed]
    <2>1. t.pc = "lookup" /\ task' = [task EXCEPT ![h] = t]
      BY <1>3 DEF ProveHandler
    <2> HIDE DEF t
    <2>2. task'[h] = t /\ \A g \in Handlers : g # h => task'[g] = task[g]
      BY <1>0, <2>1, Zenon DEF Types
    <2>3. UNCHANGED <<pending, tokens, twice, raced>>
      BY <1>3, Zenon DEF ProveHandler
    <2>4. NoneNewPassed /\ \A g \in Handlers : At(g, "issue")' => At(g, "issue")
      BY <2>1, <2>2, NonePassed, Zenon
    <2> QED
      BY <2>3, <2>4, OnceFrame, Zenon
  <1>4. ASSUME NEW h \in Handlers, Lookup(h) PROVE OnceInv'
    <2>0. /\ task[h] # None /\ task[h].pc = "lookup"
          /\ UNCHANGED <<pending, tokens, twice>>
      BY <1>4, ZenonT(60) DEF Lookup, At
    <2>1. CASE Return(h) /\ UNCHANGED raced
      <3>1. task'[h] = None /\ \A g \in Handlers : g # h => task'[g] = task[g]
        BY <1>0, <2>1, ReturnStep, ZenonT(60)
      <3>2. NoneNewPassed /\ \A g \in Handlers : At(g, "issue")' => At(g, "issue")
        BY <3>1, NonePassed, Zenon
      <3> QED
        BY <2>0, <2>1, <3>2, OnceFrame, Zenon
    <2>2. CASE Goto(h, "discard") /\ UNCHANGED raced
      <3>1. task'[h].pc = "discard" /\ \A g \in Handlers : g # h => task'[g] = task[g]
        BY <1>0, <2>0, <2>2, GotoStep, ZenonT(60)
      <3>2. NoneNewPassed /\ \A g \in Handlers : At(g, "issue")' => At(g, "issue")
        BY <3>1, NonePassed, Zenon
      <3> QED
        BY <2>0, <2>2, <3>2, OnceFrame, Zenon
    <2>3. CASE /\ pending[task[h].user] = task[h].challenge
               /\ Goto(h, "invalidate")
               /\ raced' = IF \E g \in Handlers : At(g, "invalidate")
                                               /\ task[g].challenge = pending[task[h].user]
                           THEN raced \cup {pending[task[h].user]} ELSE raced
      <3> DEFINE c == task[h].challenge
      <3>1. c \in Challenges /\ task[h].user \in Users
        BY <1>0, <2>0, TaskFields, Zenon
      <3>2. tokens[c] = {} /\ \A g \in Handlers : At(g, "issue") => task[g].challenge # c
        BY <2>3, <3>1, ZenonT(60) DEF OnceInv
      <3>3. c \notin raced' => \A g \in Handlers : Passed(g) => task[g].challenge # c
        BY <2>3, <3>2, Zenon DEF Passed
      <3>4. /\ task'[h] # None /\ task'[h].pc = "invalidate" /\ task'[h].challenge = c
            /\ \A g \in Handlers : g # h => task'[g] = task[g]
        BY <1>0, <2>0, <2>3, GotoStep, Zenon
      <3>5. UNCHANGED <<pending, tokens, twice>> /\ raced \subseteq raced'
        BY <1>4, <2>3, ZenonT(60) DEF Lookup
      <3> HIDE DEF c
      <3> QED
        BY <3>1, <3>2, <3>3, <3>4, <3>5 DEF OnceInv, Passed, At, OneTimeUse
    <2> QED
      BY <1>4, <2>1, <2>2, <2>3, ZenonT(60) DEF Lookup
  <1>5. ASSUME NEW h \in Handlers, Discard(h) PROVE OnceInv'
    <2>1. /\ task[h] # None /\ task[h].user \in Users
          /\ pending' = [pending EXCEPT ![task[h].user] = None] /\ Return(h)
          /\ UNCHANGED <<tokens, twice, raced>>
      BY <1>0, <1>5, TaskFields, Zenon DEF Discard, At
    <2>2. NoneNewPassed /\ \A g \in Handlers : At(g, "issue")' => At(g, "issue")
      BY <1>0, <2>1, ReturnStep, NonePassed, ZenonT(60)
    <2> QED
      BY <1>0, <2>1, <2>2, Emptied, OnceFrame, ZenonT(60)
  <1>6. ASSUME NEW h \in Handlers, Invalidate(h) PROVE OnceInv'
    <2> DEFINE c == task[h].challenge
               u == task[h].user
    <2>1. task[h] # None /\ Passed(h) /\ c \in Challenges /\ u \in Users /\ drawn[c] = u
      BY <1>0, <1>6, TaskFields, Zenon DEF Invalidate, At, UserInv, Passed
    <2>2. /\ task'[h] # None /\ task'[h].pc = "issue" /\ task'[h].challenge = c
          /\ \A g \in Handlers : g # h => task'[g] = task[g]
      BY <1>0, <1>6, <2>1, GotoStep, Zenon DEF Invalidate
    \* It is pending for no other user.
    <2>3. \A v \in Users : pending'[v] # c
      BY <1>0, <1>6, <2>1, ZenonT(60) DEF Invalidate, UserInv, Types
    <2>4. /\ \A v \in Users : pending'[v] \in {None, pending[v]}
          /\ UNCHANGED <<tokens, twice, raced>>
      BY <1>0, <1>6, <2>1, ZenonT(60) DEF Invalidate, Types
    <2> HIDE DEF c, u
    <2> QED
      BY <2>1, <2>2, <2>3, <2>4 DEF OnceInv, Passed, At, OneTimeUse, c
  <1>7. ASSUME NEW h \in Handlers, IssueToken(h) PROVE OnceInv'
    <2> DEFINE c == task[h].challenge
               u == task[h].user
    <2>1. task[h] # None /\ Passed(h) /\ At(h, "issue") /\ c \in Challenges /\ u \in Users
      BY <1>0, <1>7, TaskFields DEF IssueToken, At, Passed
    <2>2. /\ task'[h] = None /\ \A g \in Handlers : g # h => task'[g] = task[g]
      BY <1>0, <1>7, ReturnStep, Zenon DEF IssueToken
    <2>3. /\ \A d \in Challenges : d # c => tokens'[d] = tokens[d]
          /\ twice' = IF tokens[c] # {} THEN twice \cup {c} ELSE twice
          /\ UNCHANGED <<pending, raced>>
      BY <1>0, <1>7, <2>1, Zenon DEF IssueToken, Types
    <2>4. \A v \in Users : pending[v] # c
      BY <2>1, ZenonT(60) DEF OnceInv
    <2> HIDE DEF c, u
    <2>5. OneTimeUse'
      BY <2>1, <2>3 DEF OnceInv, OneTimeUse, c
    <2>6. NoneNewPassed /\ \A g \in Handlers : At(g, "issue")' => At(g, "issue")
      BY <2>2, NonePassed, Zenon
    <2>7. ASSUME NEW v \in Users, NEW d \in Challenges, pending'[v] = d
          PROVE  tokens'[d] = {} /\ \A g \in Handlers : At(g, "issue")' => task'[g].challenge # d
      <3>1. d # c /\ pending[v] = d
        BY <2>3, <2>4, <2>7, Zenon
      <3>2. tokens[d] = {} /\ \A g \in Handlers : At(g, "issue") => task[g].challenge # d
        BY <3>1, Zenon DEF OnceInv
      <3> QED
        BY <2>3, <2>6, <3>1, <3>2, ZenonT(60) DEF NoneNewPassed, Passed
    <2>8. ASSUME NEW d \in Challenges, d \notin raced', NEW g \in Handlers, Passed(g)',
                 task'[g].challenge = d
          PROVE  tokens'[d] = {} /\ \A i \in Handlers : Passed(i)' /\ task'[i].challenge = d => i = g
      <3>1. \A i \in Handlers : Passed(i)' /\ task'[i].challenge = d =>
                Passed(i) /\ task[i].challenge = d /\ i # h
        BY <2>2, <2>6, Zenon DEF NoneNewPassed, Passed, At
      <3>2. d \notin raced /\ Passed(g) /\ task[g].challenge = d /\ g # h
        BY <2>3, <2>8, <3>1, Zenon
      <3>3. tokens[d] = {} /\ \A i \in Handlers : Passed(i) /\ task[i].challenge = d => i = g
        BY <3>2, ZenonT(60) DEF OnceInv
      <3>4. d # c
        BY <2>1, <3>2, <3>3, Zenon DEF c
      <3> QED
        BY <2>3, <3>1, <3>3, <3>4, ZenonT(60)
    <2> QED
      BY <2>5, <2>7, <2>8, ZenonT(60) DEF OnceInv
  <1>8. CASE Crash
    BY <1>8, ZenonT(60) DEF OnceInv, Crash, Passed, At, OneTimeUse
  <1>9. CASE UNCHANGED vars
    BY <1>9 DEF OnceInv, vars, Passed, At, OneTimeUse
  <1> QED
    BY <1>1, <1>2, <1>3, <1>4, <1>5, <1>6, <1>7, <1>8, <1>9, ZenonT(60) DEF Next, Prove

\* A challenge yields a second token only to proofs that were between lookup and
\* removal together (prove_handler), for any number of requests and restarts.
THEOREM UsedOnce == Spec => []OneTimeUse
  <1>1. OnceInv => OneTimeUse
    BY DEF OnceInv
  <1> QED
    BY <1>1, UserInvInit, UserInvNext, OnceInvInit, OnceInvNext, PTL DEF Spec

-----------------------------------------------------------------------------

\* No user has a challenge before the first request.
LEMMA StandInvInit == Init => StandInv
  BY Zenon DEF Init, StandInv, InGap, At, LatestStands

\* An entry is removed by proofs in the gap only, and what they meet there is
\* the one they looked up or one that came in the meantime.
LEMMA StandInvNext == UserInv /\ StandInv /\ [Next]_vars => StandInv'
  <1> SUFFICES ASSUME UserInv, StandInv, [Next]_vars PROVE StandInv'
    BY ZenonT(60)
  <1> USE NoneAssumption
  <1>0. Types
    BY Zenon DEF UserInv
  <1>1. ASSUME NEW u \in Users, NEW c \in Challenges, ChallengeHandler(u, c) PROVE StandInv'
    <2>1. /\ pending'[u] = c /\ latest'[u] = c
          /\ \A v \in Users : v # u => pending'[v] = pending[v] /\ latest'[v] = latest[v]
      BY <1>0, <1>1, Zenon DEF ChallengeHandler, Types
    <2>2. \A h \in Handlers : InGap(h) /\ task[h].user = u => c \in overtaken'
      BY <1>1, Zenon DEF ChallengeHandler
    <2>3. UNCHANGED <<expired, task, proven>> /\ overtaken \subseteq overtaken'
      BY <1>1 DEF ChallengeHandler
    <2>4. \A h \in Handlers : InGap(h) => task[h].user \in Users
      BY <1>0, TaskFields, Zenon DEF InGap, At
    <2> QED
      BY <2>1, <2>2, <2>3, <2>4 DEF StandInv, InGap, At, LatestStands
  <1>2. ASSUME NEW c \in Challenges, Expire(c) PROVE StandInv'
    BY <1>2, Zenon DEF StandInv, Expire, InGap, At, LatestStands
  <1>3. ASSUME NEW h \in Handlers, NEW u \in Users, NEW c \in Challenges, NEW signed \in BOOLEAN,
               ProveHandler(h, u, c, signed)
        PROVE  StandInv'
    <2> DEFINE t == [pc |-> "lookup", user |-> u, challenge |-> c, signed |-> signed]
    <2>1. t.pc = "lookup" /\ task' = [task EXCEPT ![h] = t]
      BY <1>3, Zenon DEF ProveHandler
    <2> HIDE DEF t
    <2>2. task'[h] = t /\ \A g \in Handlers : g # h => task'[g] = task[g]
      BY <1>0, <2>1 DEF Types
    <2> QED
      BY <1>3, <2>1, <2>2, ZenonT(60) DEF StandInv, ProveHandler, InGap, At, LatestStands
  <1>4. ASSUME NEW h \in Handlers, Lookup(h) PROVE StandInv'
    <2>0. task[h] # None /\ task[h].user \in Users /\ task[h].challenge \in Challenges
      BY <1>0, <1>4, TaskFields, Zenon DEF Lookup, At
    <2>1. CASE Return(h) /\ UNCHANGED proven
      <3>1. task'[h] = None /\ \A g \in Handlers : g # h => task'[g] = task[g]
        BY <1>0, <2>1, ReturnStep
      <3>2. UNCHANGED <<pending, expired, latest, overtaken>>
        BY <1>4, Zenon DEF Lookup
      <3> QED
        BY <2>1, <3>1, <3>2, Zenon DEF StandInv, InGap, At, LatestStands
    \* The entry that is looked up is the latest, and expired or proven.
    <2>2. ASSUME NEW pc \in {"discard", "invalidate"}, Goto(h, pc), proven \subseteq proven',
                 pending[task[h].user] # None, pending[task[h].user] \in expired \cup proven'
          PROVE  StandInv'
      <3>1. latest[task[h].user] \in expired \cup proven'
        BY <2>0, <2>2, Zenon DEF StandInv
      <3>2. /\ task'[h].user = task[h].user
            /\ \A g \in Handlers : g # h => task'[g] = task[g]
        BY <1>0, <2>0, <2>2, GotoStep, Zenon
      <3>3. UNCHANGED <<pending, latest, expired, overtaken>>
        BY <1>4, Zenon DEF Lookup
      <3> QED
        BY <2>2, <3>1, <3>2, <3>3, ZenonT(60) DEF StandInv, InGap, At, LatestStands
    <2> QED
      BY <1>4, <2>0, <2>1, <2>2, Zenon DEF Lookup
  <1>5. ASSUME NEW h \in Handlers, Discard(h) \/ Invalidate(h) PROVE StandInv'
    <2> DEFINE u == task[h].user
    <2>1. task[h] # None /\ u \in Users /\ InGap(h)
      BY <1>0, <1>5, TaskFields, Zenon DEF Discard, Invalidate, InGap, At
    <2>2. latest[u] \in expired \cup proven \cup overtaken
      BY <2>1, Zenon DEF StandInv
    <2>3. /\ ~InGap(h)' /\ \A g \in Handlers : g # h => task'[g] = task[g]
      BY <1>0, <1>5, <2>1, ReturnStep, GotoStep, Zenon DEF Discard, Invalidate, InGap, At
    <2>4. /\ pending'[u] = None /\ \A v \in Users : v # u => pending'[v] = pending[v]
          /\ UNCHANGED <<latest, expired, proven, overtaken>>
      BY <1>0, <1>5, <2>1, ZenonT(60) DEF Discard, Invalidate, Types
    <2> HIDE DEF u
    <2> QED
      BY <2>2, <2>3, <2>4, ZenonT(60) DEF StandInv, InGap, At, LatestStands
  <1>6. ASSUME NEW h \in Handlers, IssueToken(h) PROVE StandInv'
    BY <1>0, <1>6, ReturnStep DEF StandInv, IssueToken, InGap, At, LatestStands
  <1>7. CASE Crash
    BY <1>7, Zenon DEF StandInv, Crash, InGap, At, LatestStands
  <1>8. CASE UNCHANGED vars
    BY <1>8, Zenon DEF StandInv, vars, InGap, At, LatestStands
  <1> QED
    BY <1>1, <1>2, <1>3, <1>4, <1>5, <1>6, <1>7, <1>8, ZenonT(60) DEF Next, Prove

\* The challenge a user was sent last stays pending until it expires or is
\* proven, unless it came into the gap of another proof (challenge_handler,
\* prove_handler), for any number of users and requests.
THEOREM LatestKept == Spec => []LatestStands
  <1>1. StandInv => LatestStands
    BY DEF StandInv
  <1> QED
    BY <1>1, UserInvInit, UserInvNext, StandInvInit, StandInvNext, PTL DEF Spec

-----------------------------------------------------------------------------
(* RateLimiter *)

\* What has been admitted to a client: finitely many calls.
Histories == {all \in SUBSET Admission : IsFiniteSet(all)}

\* What the locks of the limiter guard, and the calls under way.
LimiterType ==
    /\ clock \in 0..MaxTime
    /\ DOMAIN limits \subseteq Operations /\ \A o \in DOMAIN limits : limits[o] \in Limit
    /\ counters \in [Clients -> Counter \cup {None}]
    /\ call \in [Threads -> Call \cup {None}]
    /\ \A t \in Threads : call[t] # None => call[t].now <= clock /\ call[t].op \in DOMAIN limits
    /\ admitted \in [Clients -> Histories]
    /\ DOMAIN refusal = Clients
    /\ touched \in [Clients -> Nat] /\ \A c \in Clients : touched[c] <= clock

\* When the cooldown of a refusal is over.
Until(r, lims) == r.now + lims[r.op].cooldown

\* A cooldown that is not over is the one in the counter.
PenaltyInv ==
    \A c \in Clients : refusal[c] # None =>
        /\ refusal[c].now \in Nat /\ refusal[c].op \in DOMAIN limits
        /\ counters[c] # None
        /\ \/ clock >= Until(refusal[c], limits)
           \/ counters[c].cooldown_until = Until(refusal[c], limits)

\* No time in a counter is later than the limiter's last dealing with the
\* client, but for the end of a cooldown, which was then started at most.
Settled(k, at, lims) ==
    /\ \A w \in Windows : k.last[w] <= at
    /\ k.last_refill <= at /\ k.last_refill >= 0 - Credit
    /\ k.cooldown_until # None => \E o \in DOMAIN lims : k.cooldown_until <= at + lims[o].cooldown

SettledInv == \A c \in Tracked : Settled(counters[c], touched[c], limits)

\* The clock is a natural number.
LEMMA ClockNat ==
    ASSUME LimiterType
    PROVE  clock \in 0..MaxTime /\ clock \in Nat
  <1>1. clock \in 0..MaxTime
    BY Zenon DEF LimiterType
  <1> QED
    BY <1>1, TimeAssumption

\* The operators on counters.

\* duration_since: the time since then is a natural number, and the difference
\* when then is not in the future.
LEMMA SinceNat ==
    ASSUME NEW now \in Int, NEW then \in Int
    PROVE  Since(now, then) \in Nat /\ (now >= then => Since(now, then) = now - then)
  BY DEF Since

\* refill_burst_tokens multiplies and divides natural numbers.
LEMMA ProductNat ==
    ASSUME NEW k \in Counter, NEW limit \in Limit, NEW now \in Int
    PROVE  Product(k, limit, now) \in Nat /\ Product(k, limit, now) \div Second \in Nat
  <1> DEFINE s == Since(now, k.last_refill)
             m == s % Wrap
             b == limit.burst_size
             p == m * b
  <1>1. s \in Nat /\ b \in Nat /\ Wrap \in Nat \ {0} /\ Second \in Nat \ {0}
    BY SinceNat, TimeAssumption, Zenon DEF Counter, Limit
  <1> HIDE DEF s, b
  <1>2. m \in Nat
    BY <1>1
  <1> HIDE DEF m
  <1>3. p \in Nat
    BY <1>1, <1>2
  <1>4. Product(k, limit, now) = p
    BY DEF Product, p, m, s, b
  <1> HIDE DEF p
  <1>5. p \div Second \in Nat
    BY <1>1, <1>3
  <1> QED
    BY <1>3, <1>4, <1>5

\* update_counters moves windows that are over, and nothing else.
LEMMA UpdateFacts ==
    ASSUME NEW k \in Counter, NEW now \in Nat, NEW u, u = UpdateCounters(k, now)
    PROVE  /\ u \in Counter /\ u.cooldown_until = k.cooldown_until
           /\ u.burst_tokens = k.burst_tokens /\ u.last_refill = k.last_refill
           /\ \A w \in Windows :
                  /\ u.last[w] \in {now, k.last[w]}
                  /\ Since(now, k.last[w]) >= Length[w] => u.count[w] = 0
  <1> DEFINE over(w) == Since(now, k.last[w]) >= Length[w]
             n == [w \in Windows |-> IF over(w) THEN 0 ELSE k.count[w]]
             l == [w \in Windows |-> IF over(w) THEN now ELSE k.last[w]]
  <1>1. u = [k EXCEPT !.count = n, !.last = l]
    BY DEF UpdateCounters
  <1>2. /\ n \in [Windows -> Nat] /\ l \in [Windows -> Int]
        /\ \A w \in Windows : l[w] \in {now, k.last[w]} /\ (over(w) => n[w] = 0)
    <2> HIDE DEF over
    <2> QED
      BY DEF Counter
  <1> HIDE DEF n, l
  <1>3. u \in Counter /\ u.count = n /\ u.last = l
    BY <1>1, <1>2, Zenon DEF Counter
  <1>4. /\ u.cooldown_until = k.cooldown_until
        /\ u.burst_tokens = k.burst_tokens /\ u.last_refill = k.last_refill
    BY <1>1, Zenon DEF Counter
  <1> QED
    BY <1>2, <1>3, <1>4, Zenon

\* refill_burst_tokens gives tokens, and nothing else.
LEMMA RefillFacts ==
    ASSUME NEW k \in Counter, NEW limit \in Limit, NEW now \in Nat,
           NEW r, r = RefillBurstTokens(k, limit, now)
    PROVE  /\ r \in Counter /\ r.cooldown_until = k.cooldown_until
           /\ r.last = k.last /\ r.count = k.count /\ r.last_refill \in {now, k.last_refill}
           /\ Product(k, limit, now) >= Second /\ limit.burst_size > 0 => r.burst_tokens > 0
  <1> DEFINE added == Product(k, limit, now) \div Second
             full == k.burst_tokens + added
             filled == IF full < limit.burst_size THEN full ELSE limit.burst_size
  <1>1. added \in Nat /\ limit.burst_size \in Nat /\ k.burst_tokens \in Nat
    BY ProductNat DEF Limit, Counter
  <1>2. Product(k, limit, now) >= Second => added > 0
    <2> DEFINE p == Product(k, limit, now)
    <2>1. p \in Nat /\ Second \in Nat \ {0}
      BY ProductNat, TimeAssumption
    <2> HIDE DEF p
    <2>2. p >= Second => p \div Second > 0
      BY <2>1
    <2> QED
      BY <2>2, Zenon DEF p
  <1>3. r = IF added = 0 THEN k ELSE [k EXCEPT !.burst_tokens = filled, !.last_refill = now]
    BY DEF RefillBurstTokens
  <1> HIDE DEF added
  <1>4. filled \in Nat /\ (added > 0 /\ limit.burst_size > 0 => filled > 0)
    BY <1>1
  <1> HIDE DEF filled
  <1>5. CASE added = 0
    BY <1>2, <1>3, <1>5
  <1>6. CASE added # 0
    <2>1. /\ r \in Counter /\ r.cooldown_until = k.cooldown_until /\ r.burst_tokens = filled
          /\ r.last = k.last /\ r.count = k.count /\ r.last_refill = now
      <3>1. r = [k EXCEPT !.burst_tokens = filled, !.last_refill = now] /\ now \in Int
        BY <1>3, <1>6
      <3> QED
        BY <1>4, <3>1, Zenon DEF Counter
    <2> QED
      BY <1>1, <1>2, <1>4, <1>6, <2>1, ZenonT(60)
  <1> QED
    BY <1>5, <1>6, Zenon

\* A counter as check brings it up to date.
LEMMA RefreshedFacts ==
    ASSUME NEW e \in Counter, NEW limit \in Limit, NEW now \in Nat,
           NEW k, k = Refreshed(e, limit, now)
    PROVE  /\ k \in Counter
           /\ k.cooldown_until = IF InCooldown(e, now) THEN e.cooldown_until ELSE None
           /\ k.last_refill \in {now, e.last_refill}
           /\ \A w \in Windows : /\ k.last[w] \in {now, e.last[w]}
                                 /\ Since(now, e.last[w]) >= Length[w] => k.count[w] = 0
           /\ Product(e, limit, now) >= Second /\ limit.burst_size > 0 => k.burst_tokens > 0
  <1> DEFINE d == IF InCooldown(e, now) THEN e ELSE [e EXCEPT !.cooldown_until = None]
             u == UpdateCounters(d, now)
  <1>1. k = RefillBurstTokens(u, limit, now)
    BY DEF Refreshed
  <1>2. /\ d \in Counter /\ d.last = e.last /\ d.last_refill = e.last_refill
        /\ d.cooldown_until = IF InCooldown(e, now) THEN e.cooldown_until ELSE None
    <2> DEFINE f == [e EXCEPT !.cooldown_until = None]
    <2>1. f \in Counter /\ f.last = e.last /\ f.last_refill = e.last_refill /\ f.cooldown_until = None
      BY DEF Counter
    <2>2. d = IF InCooldown(e, now) THEN e ELSE f
      BY Zenon
    <2> HIDE DEF f, d
    <2> QED
      BY <2>1, <2>2
  <1> HIDE DEF d
  <1>3. /\ u \in Counter /\ u.cooldown_until = d.cooldown_until /\ u.last_refill = d.last_refill
        /\ \A w \in Windows : /\ u.last[w] \in {now, d.last[w]}
                              /\ Since(now, d.last[w]) >= Length[w] => u.count[w] = 0
    BY <1>2, UpdateFacts
  <1> HIDE DEF u
  <1>4. Product(u, limit, now) = Product(e, limit, now)
    BY <1>2, <1>3, Zenon DEF Product
  <1>5. /\ k \in Counter /\ k.cooldown_until = u.cooldown_until
        /\ k.last = u.last /\ k.count = u.count /\ k.last_refill \in {now, u.last_refill}
        /\ Product(u, limit, now) >= Second /\ limit.burst_size > 0 => k.burst_tokens > 0
    BY <1>1, <1>3, RefillFacts, Zenon
  <1> QED
    BY <1>2, <1>3, <1>4, <1>5, ZenonT(60)

\* or_default: the entry of a client, or a new one.

\* What entry(client).or_insert_with returns: the counter there is, or a new
\* one of this moment.
LEMMA EntryFacts ==
    ASSUME LimiterType, NEW c \in Clients, NEW now \in Nat
    PROVE  /\ Entry(c, now) \in Counter
           /\ counters[c] # None => Entry(c, now) = counters[c]
           /\ counters[c] = None => /\ Entry(c, now).cooldown_until = None
                                    /\ Entry(c, now).last_refill = now - Credit
                                    /\ \A w \in Windows : Entry(c, now).last[w] = now
  <1>1. NewCounter(now) \in Counter
    BY TimeAssumption DEF NewCounter, Counter
  <1>2. counters[c] \in Counter \cup {None}
    BY Zenon DEF LimiterType
  <1> QED
    BY <1>1, <1>2, Zenon DEF Entry, NewCounter

\* A check of a client either admits the call, which was in no cooldown, or
\* refuses it and starts the cooldown; it moves the counter's times to the call's
\* only.
LEMMA CheckFacts ==
    ASSUME LimiterType, NEW t \in Threads, CheckClient(t)
    PROVE  \E a \in Call, q \in Counter :
             LET e == Entry(a.client, a.now)
             IN /\ a = call[t] /\ a.now <= clock /\ a.op \in DOMAIN limits
                /\ counters' = [counters EXCEPT ![a.client] = q]
                /\ q.last_refill \in {a.now, e.last_refill}
                /\ \A w \in Windows : q.last[w] \in {a.now, e.last[w]}
                /\ \/ /\ ~InCooldown(e, a.now) /\ q.cooldown_until = None
                      /\ admitted' = Recorded(a.client, a.op) /\ refusal' = refusal
                   \/ /\ q.cooldown_until = a.now + limits[a.op].cooldown
                      /\ admitted' = admitted
                      /\ refusal' = [refusal EXCEPT ![a.client] = [op |-> a.op, now |-> a.now]]
  <1> DEFINE a == call[t]
             c == a.client
             now == a.now
             limit == limits[a.op]
             e == Entry(c, now)
             k == Refreshed(e, limit, now)
             ok == a.error = "none" /\ Allowed(c, limit, now)
             q == IF ok THEN Granted(k) ELSE Refused(k, limit, now)
  <1>1. /\ a \in Call /\ now <= clock /\ a.op \in DOMAIN limits
        /\ limit \in Limit /\ c \in Clients /\ now \in Nat
    BY Zenon DEF CheckClient, LimiterType, Call
  <1>2. e \in Counter
    BY <1>1, EntryFacts, Zenon
  <1>3. /\ counters' = [counters EXCEPT ![c] = q]
        /\ admitted' = IF ok THEN Recorded(c, a.op) ELSE admitted
        /\ refusal' = IF ok THEN refusal ELSE [refusal EXCEPT ![c] = [op |-> a.op, now |-> now]]
    BY Zenon DEF CheckClient
  <1>4. ok => ~InCooldown(e, now) /\ k.burst_tokens > 0
    BY ZenonT(60) DEF Allowed
  <1> HIDE DEF a, limit, e, ok
  <1>5. /\ k \in Counter
        /\ k.cooldown_until = IF InCooldown(e, now) THEN e.cooldown_until ELSE None
        /\ k.last_refill \in {now, e.last_refill}
        /\ \A w \in Windows : k.last[w] \in {now, e.last[w]}
    <2>1. k = Refreshed(e, limit, now)
      BY Zenon
    <2> HIDE DEF k
    <2> QED
      BY <1>1, <1>2, <2>1, RefreshedFacts, ZenonT(60)
  <1> HIDE DEF k
  <1>6. /\ q \in Counter /\ q.last = k.last /\ q.last_refill = k.last_refill
        /\ q.cooldown_until = IF ok THEN k.cooldown_until ELSE now + limit.cooldown
    <2>1. CASE ok
      <3> DEFINE n == [w \in Windows |-> k.count[w] + 1]
                 b == k.burst_tokens - 1
      <3>1. n \in [Windows -> Nat] /\ b \in Nat
        BY <1>4, <1>5, <2>1 DEF Counter
      <3>2. q = [k EXCEPT !.count = n, !.burst_tokens = b]
        BY <2>1, Zenon DEF Granted
      <3> HIDE DEF n, b, q
      <3> QED
        BY <1>5, <2>1, <3>1, <3>2, ZenonT(60) DEF Counter
    <2>2. CASE ~ok
      <3> DEFINE u == now + limit.cooldown
      <3>1. u \in Int
        BY <1>1 DEF Limit
      <3>2. q = [k EXCEPT !.cooldown_until = u]
        BY <2>2 DEF Refused
      <3> HIDE DEF u, q
      <3>3. q \in Counter /\ q.last = k.last /\ q.last_refill = k.last_refill /\ q.cooldown_until = u
        BY <1>5, <3>1, <3>2, Zenon DEF Counter
      <3> QED
        BY <2>2, <3>3, Zenon DEF u
    <2> QED
      BY <2>1, <2>2
  <1> HIDE DEF q
  <1>7. /\ a = call[t] /\ now <= clock /\ a.op \in DOMAIN limits
        /\ counters' = [counters EXCEPT ![c] = q]
        /\ q.last_refill \in {now, e.last_refill}
        /\ \A w \in Windows : q.last[w] \in {now, e.last[w]}
        /\ \/ /\ ~InCooldown(e, now) /\ q.cooldown_until = None
              /\ admitted' = Recorded(c, a.op) /\ refusal' = refusal
           \/ /\ q.cooldown_until = now + limits[a.op].cooldown
              /\ admitted' = admitted
              /\ refusal' = [refusal EXCEPT ![c] = [op |-> a.op, now |-> now]]
    <2>1. a = call[t] /\ limit = limits[a.op]
      BY DEF a, limit
    <2> QED
      BY <1>1, <1>3, <1>4, <1>5, <1>6, <2>1, ZenonT(60)
  <1> QED
    BY <1>1, <1>6, <1>7, Zenon DEF e

\* The n-th admission that is not in a finite set of them.
LEMMA Unused ==
    ASSUME NEW all, IsFiniteSet(all), NEW o, NEW t
    PROVE  \E i \in 0..Cardinality(all) : [op |-> o, at |-> t, n |-> i] \notin all
  <1> DEFINE top == Cardinality(all)
             f == [i \in 0..top |-> [op |-> o, at |-> t, n |-> i]]
  <1>1. top \in Nat
    BY FS_CardinalityType, Zenon
  <1>2. IsFiniteSet(0..top) /\ Cardinality(0..top) = top + 1
    <2> HIDE DEF top
    <2>1. 0 \in Int /\ top \in Int /\ ~(0 > top)
      BY <1>1
    <2>2. IsFiniteSet(0..top) /\ Cardinality(0..top) = top - 0 + 1
      BY <2>1, FS_Interval, Zenon
    <2> QED
      BY <1>1, <2>2
  <1>3. SUFFICES ASSUME \A i \in 0..top : [op |-> o, at |-> t, n |-> i] \in all PROVE FALSE
    BY Zenon
  <1>4. f \in [0..top -> all]
    BY <1>3, Zenon
  <1>5. top < Cardinality(0..top)
    BY <1>1, <1>2
  <1> HIDE DEF f
  <1>6. PICK i, j \in 0..top : i # j /\ f[i] = f[j]
    BY <1>2, <1>4, <1>5, FS_PigeonHole, Zenon
  <1>7. f[i].n = i /\ f[j].n = j
    BY Zenon DEF f
  <1> QED
    BY <1>6, <1>7, Zenon

\* An admission is recorded as one that was not there.
LEMMA NewlyFacts ==
    ASSUME LimiterType, NEW c \in Clients, NEW o \in Operations
    PROVE  /\ Newly(c, o) \in Admission /\ Newly(c, o) \notin admitted[c]
           /\ Newly(c, o).op = o /\ Newly(c, o).at = clock
  <1> DEFINE nth(i) == [op |-> o, at |-> clock, n |-> i]
             i0 == CHOOSE i \in 0..Cardinality(admitted[c]) : nth(i) \notin admitted[c]
  <1>1. IsFiniteSet(admitted[c]) /\ clock \in Nat
    BY ClockNat, Zenon DEF LimiterType, Histories
  <1>2. i0 \in 0..Cardinality(admitted[c]) /\ nth(i0) \notin admitted[c]
    BY <1>1, Unused, ZenonT(60)
  <1>3. i0 \in Nat
    <2>1. Cardinality(admitted[c]) \in Nat
      BY <1>1, FS_CardinalityType, Zenon
    <2> HIDE DEF i0
    <2> QED
      BY <1>2, <2>1
  <1>4. Newly(c, o) = nth(i0)
    BY ZenonT(60) DEF Newly
  <1> HIDE DEF i0
  <1>5. nth(i0) \in Admission /\ nth(i0).op = o /\ nth(i0).at = clock
    BY <1>1, <1>3 DEF Admission
  <1> QED
    BY <1>2, <1>4, <1>5, Zenon

\* Recording an admission adds one call.
LEMMA RecordedType ==
    ASSUME LimiterType, NEW c \in Clients, NEW o \in Operations
    PROVE  Recorded(c, o) \in [Clients -> Histories]
  <1>1. admitted \in [Clients -> Histories] /\ admitted[c] \in Histories
    BY Zenon DEF LimiterType
  <1>2. admitted[c] \cup {Newly(c, o)} \in Histories
    <2>1. IsFiniteSet(admitted[c] \cup {Newly(c, o)})
      BY <1>1, FS_AddElement, Zenon DEF Histories
    <2> QED
      BY <1>1, <2>1, NewlyFacts, Zenon DEF Histories
  <1> QED
    BY <1>1, <1>2, Zenon DEF Recorded

LimiterInv == LimiterType /\ PenaltyInv /\ SettledInv

\* A check of a followed client.
LEMMA CheckKeeps ==
    ASSUME LimiterInv, NEW t \in Threads, CheckClient(t)
    PROVE  LimiterInv'
  <1>0. LimiterType
    BY DEF LimiterInv
  <1>1. PICK a \in Call, q \in Counter :
          LET e == Entry(a.client, a.now)
          IN /\ a = call[t] /\ a.now <= clock /\ a.op \in DOMAIN limits
             /\ counters' = [counters EXCEPT ![a.client] = q]
             /\ q.last_refill \in {a.now, e.last_refill}
             /\ \A w \in Windows : q.last[w] \in {a.now, e.last[w]}
             /\ \/ /\ ~InCooldown(e, a.now) /\ q.cooldown_until = None
                   /\ admitted' = Recorded(a.client, a.op) /\ refusal' = refusal
                \/ /\ q.cooldown_until = a.now + limits[a.op].cooldown
                   /\ admitted' = admitted
                   /\ refusal' = [refusal EXCEPT ![a.client] = [op |-> a.op, now |-> a.now]]
    BY <1>0, CheckFacts, Zenon
  <1> DEFINE c == a.client
             now == a.now
             o == a.op
             e == Entry(c, now)
  <1>2. /\ c \in Clients /\ now \in Nat /\ o \in Operations /\ limits[o] \in Limit
        /\ limits[o].cooldown \in Nat
    BY <1>0, <1>1, Zenon DEF Call, LimiterType, Limit
  <1>3. /\ touched' = [touched EXCEPT ![c] = clock] /\ call' = [call EXCEPT ![t] = None]
        /\ UNCHANGED <<clock, limits>>
    BY <1>1, Zenon DEF CheckClient
  <1>4. /\ clock \in 0..MaxTime /\ clock \in Nat /\ counters \in [Clients -> Counter \cup {None}]
        /\ now <= clock
    BY <1>0, <1>1, ClockNat, Zenon DEF LimiterType
  <1>5. LimiterType'
    <2>1. counters' \in [Clients -> Counter \cup {None}]
      BY <1>1, <1>4, Zenon
    <2>2. admitted' \in [Clients -> Histories]
      <3>1. Recorded(c, o) \in [Clients -> Histories]
        BY <1>0, <1>2, RecordedType, ZenonT(60)
      <3>2. admitted \in [Clients -> Histories]
        BY <1>0, Zenon DEF LimiterType
      <3> QED
        BY <1>1, <3>1, <3>2, Zenon
    <2>3. DOMAIN refusal' = Clients
      BY <1>0, <1>1, Zenon DEF LimiterType
    <2>4. touched' \in [Clients -> Nat] /\ \A d \in Clients : touched'[d] <= clock
      <3>1. touched \in [Clients -> Nat] /\ \A d \in Clients : touched[d] <= clock
        BY <1>0, Zenon DEF LimiterType
      <3> QED
        BY <1>2, <1>3, <1>4, <3>1
    <2>5. /\ call' \in [Threads -> Call \cup {None}]
          /\ \A s \in Threads :
                 call'[s] # None => call'[s].now <= clock /\ call'[s].op \in DOMAIN limits
      BY <1>0, <1>3, ZenonT(60) DEF LimiterType
    <2> QED
      BY <1>0, <1>3, <2>1, <2>2, <2>3, <2>4, <2>5, ZenonT(60) DEF LimiterType
  <1>6. /\ e \in Counter
        /\ counters[c] # None => e = counters[c]
        /\ counters[c] = None => /\ e.cooldown_until = None /\ e.last_refill = now - Credit
                                 /\ \A w \in Windows : e.last[w] = now
    BY <1>0, <1>2, EntryFacts, ZenonT(120)
  <1>7. counters'[c] = q /\ q # None /\ \A d \in Clients \ {c} : counters'[d] = counters[d]
    BY <1>1, <1>2, <1>4, CounterAssumption, Zenon
  <1> HIDE DEF e
  <1>8. PenaltyInv'
    <2> SUFFICES ASSUME NEW d \in Clients, refusal'[d] # None
                 PROVE  /\ refusal'[d].now \in Nat /\ refusal'[d].op \in DOMAIN limits
                        /\ counters'[d] # None
                        /\ \/ clock >= Until(refusal'[d], limits)
                           \/ counters'[d].cooldown_until = Until(refusal'[d], limits)
      BY <1>3, Zenon DEF PenaltyInv
    <2>1. CASE d # c
      <3>1. refusal'[d] = refusal[d]
        BY <1>0, <1>1, <2>1, ZenonT(60) DEF LimiterType
      <3> QED
        BY <1>7, <2>1, <3>1, Zenon DEF LimiterInv, PenaltyInv
    <2>2. CASE d = c /\ refusal' = [refusal EXCEPT ![c] = [op |-> o, now |-> now]]
                     /\ q.cooldown_until = now + limits[o].cooldown
      <3>1. refusal'[d] = [op |-> o, now |-> now]
        BY <1>0, <2>2, Zenon DEF LimiterType
      <3>2. /\ refusal'[d].op = o /\ refusal'[d].now = now
            /\ Until(refusal'[d], limits) = now + limits[o].cooldown
        <4>1. refusal'[d].op = o /\ refusal'[d].now = now
          BY <3>1
        <4> QED
          BY <4>1, ZenonT(60) DEF Until
      <3>3. now \in Nat /\ o \in DOMAIN limits
        BY <1>1, <1>2, Zenon DEF Call
      <3> QED
        BY <1>7, <2>2, <3>2, <3>3, Zenon
    <2>3. CASE d = c /\ refusal' = refusal /\ ~InCooldown(e, now)
      <3>1. /\ refusal[c].now \in Nat /\ refusal[c].op \in DOMAIN limits /\ counters[c] # None
            /\ clock >= Until(refusal[c], limits) \/ e.cooldown_until = Until(refusal[c], limits)
        BY <1>6, <2>3, ZenonT(60) DEF LimiterInv, PenaltyInv
      <3>2. Until(refusal[c], limits) \in Nat
        <4>1. limits[refusal[c].op] \in Limit
          BY <1>0, <3>1, Zenon DEF LimiterType
        <4>2. limits[refusal[c].op].cooldown \in Nat
          BY <4>1, ZenonT(60) DEF Limit
        <4> QED
          BY <3>1, <4>2 DEF Until
      <3>3. e.cooldown_until = Until(refusal[c], limits) => clock >= Until(refusal[c], limits)
        <4>1. e.cooldown_until # None => now >= e.cooldown_until \/ e.cooldown_until \notin Nat
          BY <1>2, <2>3 DEF InCooldown
        <4> QED
          BY <1>2, <1>4, <3>2, <4>1, CounterAssumption
      <3> QED
        BY <1>7, <2>3, <3>1, <3>3, Zenon
    <2> QED
      BY <1>1, <2>1, <2>2, <2>3, Zenon DEF e
  <1>9. SettledInv'
    <2> SUFFICES ASSUME NEW d \in Clients, counters'[d] # None
                 PROVE  Settled(counters'[d], touched'[d], limits)
      BY <1>3, Zenon DEF SettledInv, Tracked
    <2>1. CASE d # c
      BY <1>0, <1>3, <1>7, <2>1, ZenonT(60) DEF LimiterInv, SettledInv, Tracked, LimiterType
    <2>2. CASE d = c
      <3>1. touched'[d] = clock
        BY <1>0, <1>3, <2>2, Zenon DEF LimiterType
      <3>2. Credit \in Nat
        BY TimeAssumption, Zenon
      <3>a. now \in Nat /\ clock \in Nat /\ now <= clock
        BY <1>2, <1>4, Zenon
      <3>b. now + limits[o].cooldown <= clock + limits[o].cooldown
        <4>1. limits[o].cooldown \in Nat
          BY <1>2, Zenon
        <4> QED
          BY <3>a, <4>1
      <3>3. CASE counters[c] # None
        <4>1. Settled(e, touched[c], limits) /\ touched[c] \in Nat /\ touched[c] <= clock
          BY <1>0, <1>2, <1>6, <3>3, ZenonT(60) DEF LimiterInv, SettledInv, Tracked, LimiterType
        <4>a. touched[c] \in Nat /\ touched[c] <= clock
          BY <4>1, Zenon
        <4>2. \A w \in Windows : q.last[w] <= clock
          <5> SUFFICES ASSUME NEW w \in Windows PROVE q.last[w] <= clock
            BY Zenon
          <5>1. q.last[w] \in {now, e.last[w]} /\ e.last[w] \in Int /\ e.last[w] <= touched[c]
            BY <1>1, <1>6, <4>1, ZenonT(60) DEF Settled, e, Counter
          <5> QED
            BY <3>a, <4>a, <5>1
        <4>3. q.last_refill <= clock /\ q.last_refill >= 0 - Credit
          <5>1. /\ q.last_refill \in {now, e.last_refill} /\ e.last_refill \in Int
                /\ e.last_refill <= touched[c] /\ e.last_refill >= 0 - Credit
            BY <1>1, <1>6, <4>1, ZenonT(120) DEF Settled, e, Counter
          <5> QED
            BY <3>2, <3>a, <4>a, <5>1
        <4>4. q.cooldown_until # None => q.cooldown_until <= clock + limits[o].cooldown
          BY <1>1, <3>b, Zenon
        <4> QED
          BY <1>1, <1>7, <2>2, <3>1, <4>2, <4>3, <4>4, ZenonT(60) DEF Settled
      <3>4. CASE counters[c] = None
        <4>1. \A w \in Windows : q.last[w] = now
          BY <1>1, <1>6, <3>4, ZenonT(120) DEF e
        <4>2. q.last_refill \in {now, now - Credit}
          BY <1>1, <1>6, <3>4, Zenon DEF e
        <4>3. q.cooldown_until # None => q.cooldown_until <= clock + limits[o].cooldown
          BY <1>1, <3>b, Zenon
        <4>4. q.last_refill <= clock /\ q.last_refill >= 0 - Credit
          BY <3>2, <3>a, <4>2
        <4> QED
          BY <1>1, <1>4, <1>7, <2>2, <3>1, <4>1, <4>3, <4>4, ZenonT(60) DEF Settled
      <3> QED
        BY <3>3, <3>4, ZenonT(60)
    <2> QED
      BY <2>1, <2>2, Zenon
  <1> QED
    BY <1>5, <1>8, <1>9, ZenonT(60) DEF LimiterInv

\* remaining brings a counter up to date and leaves its cooldown.
LEMMA RemainingKeeps ==
    ASSUME LimiterInv, NEW o \in Operations, NEW c \in Clients, Remaining(o, c)
    PROVE  LimiterInv'
  <1> DEFINE e == Entry(c, clock)
             u == UpdateCounters(e, clock)
             q == RefillBurstTokens(u, limits[o], clock)
  <1>0. LimiterType
    BY Zenon DEF LimiterInv
  <1>1. UNCHANGED <<clock, limits, call, admitted, refusal>> /\ o \in DOMAIN limits
    BY Zenon DEF Remaining
  <1>2. /\ limits[o] \in Limit /\ clock \in Nat /\ counters \in [Clients -> Counter \cup {None}]
        /\ touched \in [Clients -> Nat] /\ \A d \in Clients : touched[d] <= clock
    BY <1>0, <1>1, ClockNat, Zenon DEF LimiterType
  <1>3. CASE UNCHANGED <<counters, touched>>
    BY <1>1, <1>3, Zenon DEF LimiterInv, LimiterType, PenaltyInv, SettledInv, Tracked
  <1>4. CASE counters' = [counters EXCEPT ![c] = q] /\ touched' = [touched EXCEPT ![c] = clock]
    <2>1. /\ e \in Counter
          /\ counters[c] # None => e = counters[c]
          /\ counters[c] = None => /\ e.cooldown_until = None /\ e.last_refill = clock - Credit
                                   /\ \A w \in Windows : e.last[w] = clock
      BY <1>0, <1>2, EntryFacts, ZenonT(60)
    <2> HIDE DEF e
    <2>2. /\ u \in Counter /\ u.cooldown_until = e.cooldown_until /\ u.last_refill = e.last_refill
          /\ \A w \in Windows : u.last[w] \in {clock, e.last[w]}
      BY <1>2, <2>1, UpdateFacts, ZenonT(120)
    <2> HIDE DEF u
    <2>3. /\ q \in Counter /\ q.cooldown_until = e.cooldown_until
          /\ q.last_refill \in {clock, e.last_refill}
          /\ \A w \in Windows : q.last[w] \in {clock, e.last[w]}
      <3>1. /\ q \in Counter /\ q.cooldown_until = u.cooldown_until /\ q.last = u.last
            /\ q.last_refill \in {clock, u.last_refill}
        BY <1>2, <2>2, RefillFacts
      <3> QED
        BY <2>2, <3>1, Zenon
    <2> HIDE DEF q
    <2>4. /\ counters'[c] = q /\ \A d \in Clients \ {c} : counters'[d] = counters[d]
          /\ touched'[c] = clock /\ \A d \in Clients \ {c} : touched'[d] = touched[d]
      BY <1>2, <1>4, Zenon
    <2>5. LimiterType'
      <3>1. counters' \in [Clients -> Counter \cup {None}]
        BY <1>2, <1>4, <2>3, Zenon
      <3>2. touched' \in [Clients -> Nat] /\ \A d \in Clients : touched'[d] <= clock
        BY <1>2, <1>4
      <3> QED
        BY <1>0, <1>1, <3>1, <3>2, Zenon DEF LimiterType
    <2>6. PenaltyInv'
      <3>1. q # None
        BY <2>3, CounterAssumption
      <3> QED
        BY <1>1, <2>1, <2>3, <2>4, <3>1, ZenonT(60) DEF LimiterInv, PenaltyInv
    <2>7. Settled(q, clock, limits)
      <3>1. /\ Credit \in Nat /\ e.last_refill \in Int /\ \A w \in Windows : e.last[w] \in Int
        BY <2>1, TimeAssumption, Zenon DEF Counter
      <3>2. CASE counters[c] # None
        <4>1. Settled(e, touched[c], limits) /\ touched[c] \in Nat /\ touched[c] <= clock
          BY <1>2, <2>1, <3>2, ZenonT(60) DEF LimiterInv, SettledInv, Tracked
        <4>a. clock \in Nat /\ touched[c] \in Nat /\ touched[c] <= clock
          BY <1>2, <4>1, Zenon
        <4>b. ASSUME NEW x \in Int, x <= touched[c] PROVE x <= clock
          BY <4>a, <4>b
        <4>c. clock <= clock /\ clock >= 0 - Credit
          BY <3>1, <4>a
        <4>2. \A w \in Windows : q.last[w] <= clock
          BY <2>3, <3>1, <4>1, <4>b, <4>c, Zenon DEF Settled
        <4>3. q.last_refill <= clock /\ q.last_refill >= 0 - Credit
          BY <2>3, <3>1, <4>1, <4>b, <4>c, Zenon DEF Settled
        <4>4. q.cooldown_until # None =>
                \E p \in DOMAIN limits : q.cooldown_until <= clock + limits[p].cooldown
          <5> SUFFICES ASSUME q.cooldown_until # None
                       PROVE  \E p \in DOMAIN limits : q.cooldown_until <= clock + limits[p].cooldown
            BY Zenon
          <5>1. PICK p \in DOMAIN limits : e.cooldown_until <= touched[c] + limits[p].cooldown
            BY <2>3, <4>1, Zenon DEF Settled
          <5>2. limits[p].cooldown \in Nat /\ e.cooldown_until \in Int
            <6>1. limits[p] \in Limit
              BY <1>0, ZenonT(60) DEF LimiterType
            <6> QED
              BY <2>1, <2>3, <6>1, Zenon DEF Limit, Counter
          <5> QED
            <6>1. clock + limits[p].cooldown >= e.cooldown_until
              BY <4>a, <5>1, <5>2
            <6>2. e.cooldown_until <= clock + limits[p].cooldown
              BY <4>a, <5>2, <6>1
            <6> QED
              BY <2>3, <6>2, Zenon
        <4> QED
          BY <4>2, <4>3, <4>4, Zenon DEF Settled
      <3>3. CASE counters[c] = None
        <4>1. /\ e.cooldown_until = None /\ e.last_refill = clock - Credit
              /\ \A w \in Windows : q.last[w] = clock
          BY <2>1, <2>3, <3>3, ZenonT(60)
        <4>2. q.last_refill <= clock /\ q.last_refill >= 0 - Credit
          <5>1. clock \in Nat /\ Credit \in Nat /\ q.last_refill \in {clock, clock - Credit}
            BY <1>2, <2>3, <3>1, <4>1, Zenon
          <5> QED
            BY <5>1
        <4>3. clock <= clock
          BY <1>2
        <4> QED
          BY <2>3, <4>1, <4>2, <4>3, Zenon DEF Settled
      <3> QED
        BY <3>2, <3>3, Zenon
    <2>8. SettledInv'
      BY <1>1, <2>4, <2>7, Zenon DEF LimiterInv, SettledInv, Tracked
    <2> QED
      BY <2>5, <2>6, <2>8, Zenon DEF LimiterInv
  <1> QED
    BY <1>3, <1>4 DEF Remaining

\* Steps that leave counters, refusals and admissions alone.
LEMMA SameKeeps ==
    ASSUME LimiterInv, UNCHANGED <<clock, limits, counters, call, admitted, refusal, touched>>
    PROVE  LimiterInv'
  BY Zenon DEF LimiterInv, LimiterType, PenaltyInv, SettledInv, Tracked

\* The global step of check notes the moment and the operation of the call, and
\* leaves the clients' counters alone.
LEMMA CallKeeps ==
    ASSUME LimiterInv, NEW t \in Threads, NEW o \in Operations, NEW c \in Clients,
           CheckGlobalLimit(t, o, c)
    PROVE  LimiterInv'
  <1> DEFINE over == GlobalWindow(clock).count >= rps
             a == [op |-> o, client |-> c, now |-> clock,
                   error |-> IF over THEN "global" ELSE "none"]
  <1>1. /\ UNCHANGED <<clock, limits, counters, admitted, refusal, touched>>
        /\ call' = IF o \notin DOMAIN limits THEN call ELSE [call EXCEPT ![t] = a]
    BY DEF CheckGlobalLimit, history
  <1>2. LimiterType /\ clock \in Nat
    BY ClockNat, Zenon DEF LimiterInv
  <1> HIDE DEF over
  <1>3. a \in Call /\ a.now = clock /\ a.op = o
    <2> DEFINE f == IF over THEN "global" ELSE "none"
    <2>1. f \in {"none", "global"}
      BY Zenon
    <2> HIDE DEF f
    <2>2. [op |-> o, client |-> c, now |-> clock, error |-> f] \in Call
      BY <1>2, <2>1, ZenonT(60) DEF Call
    <2> QED
      BY <2>2 DEF f
  <1> HIDE DEF a
  <1>4. /\ call' \in [Threads -> Call \cup {None}]
        /\ \A s \in Threads :
               call'[s] # None => call'[s].now <= clock /\ call'[s].op \in DOMAIN limits
    BY <1>1, <1>2, <1>3 DEF LimiterType
  <1> QED
    BY <1>1, <1>4, Zenon DEF LimiterInv, LimiterType, PenaltyInv, SettledInv, Tracked

\* run_server sets the limiter up before anyone uses it.
LEMMA ConfigureKeeps ==
    ASSUME LimiterInv, ConfigureServer
    PROVE  LimiterInv'
  <1>1. /\ UNCHANGED <<clock, counters, call, admitted, refusal, touched>>
        /\ \A c \in Clients : counters[c] = None
        /\ \A t \in Threads : call[t] = None
        /\ limits' = [o \in DOMAIN NewLimits \cup DOMAIN ServerLimits |->
                          IF o \in DOMAIN ServerLimits THEN ServerLimits[o] ELSE NewLimits[o]]
    BY Zenon DEF ConfigureServer, history
  <1>2. DOMAIN limits' \subseteq Operations /\ \A o \in DOMAIN limits' : limits'[o] \in Limit
    BY <1>1, LimitsAssumption, Zenon
  <1>3. LimiterType'
    BY <1>1, <1>2, Zenon DEF LimiterInv, LimiterType
  <1>4. PenaltyInv' /\ SettledInv'
    BY <1>1, Zenon DEF LimiterInv, PenaltyInv, SettledInv, Tracked
  <1> QED
    BY <1>3, <1>4, Zenon DEF LimiterInv

\* A client that has not been admitted has no history, and a part of a history
\* is one.
LEMMA HistoryPart ==
    /\ {} \in Histories
    /\ \A all \in Histories : \A part \in SUBSET all : part \in Histories
  <1>1. {} \in Histories
    BY FS_EmptySet, Zenon DEF Histories
  <1>2. ASSUME NEW all \in Histories, NEW part \in SUBSET all PROVE part \in Histories
    BY FS_Subset, Zenon DEF Histories
  <1> QED
    BY <1>1, <1>2, Zenon

\* Clients are forgotten with what is known of them.
LEMMA ForgetKeeps ==
    ASSUME LimiterInv, NEW gone, Forget(gone)
    PROVE  LimiterInv'
  <1>1. /\ UNCHANGED <<clock, limits, call, touched>>
        /\ counters' = [c \in Clients |-> IF c \in gone THEN None ELSE counters[c]]
        /\ admitted' = [c \in Clients |-> IF c \in gone THEN {} ELSE admitted[c]]
        /\ refusal' = [c \in Clients |-> IF c \in gone THEN None ELSE refusal[c]]
    BY Zenon DEF Forget
  <1>2. LimiterType
    BY Zenon DEF LimiterInv
  <1>3. /\ counters' \in [Clients -> Counter \cup {None}] /\ DOMAIN refusal' = Clients
        /\ admitted' \in [Clients -> Histories]
    BY <1>1, <1>2, HistoryPart, Zenon DEF LimiterType
  <1>4. LimiterType'
    BY <1>1, <1>2, <1>3, Zenon DEF LimiterType
  <1>5. \A c \in Clients : /\ counters'[c] \in {None, counters[c]}
                           /\ refusal'[c] # None => /\ refusal'[c] = refusal[c]
                                                    /\ counters'[c] = counters[c]
    BY <1>1, Zenon
  <1>6. PenaltyInv'
    BY <1>1, <1>5, ZenonT(60) DEF LimiterInv, PenaltyInv
  <1>7. SettledInv'
    BY <1>1, <1>5 DEF LimiterInv, SettledInv, Tracked
  <1> QED
    BY <1>4, <1>6, <1>7, Zenon DEF LimiterInv

\* Time passes.
LEMMA TickKeeps ==
    ASSUME LimiterInv, Tick
    PROVE  LimiterInv'
  <1> DEFINE recent(at) == \E w \in Windows : clock + 1 - at < Length[w]
             kept(all) == {a \in all : recent(a.at)}
  <1>1. /\ clock < MaxTime /\ clock' = clock + 1 /\ UNCHANGED <<limits, counters, call, touched>>
        /\ admitted' = [c \in Clients |-> kept(admitted[c])]
        /\ refusal' = [c \in Clients |->
               IF refusal[c] # None /\ clock >= refusal[c].now + limits[refusal[c].op].cooldown
               THEN None ELSE refusal[c]]
    BY ZenonT(60) DEF Tick
  <1>2. LimiterType /\ clock \in Nat /\ clock' \in 0..MaxTime
    <2>1. LimiterType /\ clock \in Nat
      BY ClockNat, Zenon DEF LimiterInv
    <2> QED
      BY <1>1, <2>1, TimeAssumption
  <1>3. admitted' \in [Clients -> Histories]
    <2>1. \A c \in Clients : admitted[c] \in Histories
      BY <1>2, Zenon DEF LimiterType
    <2>2. \A c \in Clients : kept(admitted[c]) \in SUBSET admitted[c]
      BY Zenon
    <2>3. \A c \in Clients : kept(admitted[c]) \in Histories
      BY <2>1, <2>2, HistoryPart, ZenonT(60)
    <2> HIDE DEF kept
    <2> QED
      BY <1>1, <2>3, Zenon
  <1>4. LimiterType'
    <2>1. \A c \in Clients : touched[c] \in Nat /\ touched[c] <= clock'
      <3>1. \A c \in Clients : touched[c] \in Nat /\ touched[c] <= clock
        BY <1>2, ZenonT(60) DEF LimiterType
      <3> QED
        BY <1>1, <1>2, <3>1
    <2>2. \A t \in Threads : call[t] # None => call[t].now <= clock' /\ call[t].op \in DOMAIN limits
      <3> SUFFICES ASSUME NEW t \in Threads, call[t] # None
                   PROVE  call[t].now <= clock' /\ call[t].op \in DOMAIN limits
        BY Zenon
      <3>1. call[t] \in Call /\ call[t].now <= clock /\ call[t].op \in DOMAIN limits
        BY <1>2, Zenon DEF LimiterType
      <3>2. call[t].now \in Nat
        BY <3>1, Zenon DEF Call
      <3> QED
        BY <1>1, <1>2, <3>1, <3>2
    <2> QED
      BY <1>1, <1>2, <1>3, <2>1, <2>2, Zenon DEF LimiterType
  <1>5. PenaltyInv'
    <2> SUFFICES ASSUME NEW c \in Clients, refusal'[c] # None
                 PROVE  /\ refusal'[c].now \in Nat /\ refusal'[c].op \in DOMAIN limits
                        /\ counters[c] # None
                        /\ \/ clock' >= Until(refusal'[c], limits)
                           \/ counters[c].cooldown_until = Until(refusal'[c], limits)
      BY <1>1, Zenon DEF PenaltyInv
    <2>1. refusal'[c] = refusal[c] /\ ~(clock >= Until(refusal[c], limits))
      BY <1>1, Zenon DEF Until
    <2> QED
      BY <2>1, Zenon DEF LimiterInv, PenaltyInv
  <1>6. SettledInv'
    BY <1>1, Zenon DEF LimiterInv, SettledInv, Tracked
  <1> QED
    BY <1>4, <1>5, <1>6, Zenon DEF LimiterInv

\* A restarted server has no counters, hence no cooldown to serve.
LEMMA RestartKeeps ==
    ASSUME LimiterInv, Restart
    PROVE  LimiterInv'
  <1>1. /\ limits' = NewLimits /\ counters' = [c \in Clients |-> None]
        /\ call' = [t \in Threads |-> None] /\ admitted' = [c \in Clients |-> {}]
        /\ refusal' = [c \in Clients |-> None] /\ UNCHANGED <<clock, touched>>
    BY DEF Restart
  <1>2. admitted' \in [Clients -> Histories]
    BY <1>1, HistoryPart, Zenon
  <1>3. LimiterType'
    BY <1>1, <1>2, LimitsAssumption, Zenon DEF LimiterInv, LimiterType
  <1> QED
    BY <1>1, <1>3, ZenonT(60) DEF LimiterInv, PenaltyInv, SettledInv, Tracked

\* A new limiter has no counters.
LEMMA LimiterStart == LimiterInit => LimiterInv
  <1> SUFFICES ASSUME LimiterInit PROVE LimiterInv
    BY Zenon
  <1>1. admitted \in [Clients -> Histories]
    BY HistoryPart, Zenon DEF LimiterInit
  <1>2. LimiterType
    <2>1. clock = 0 /\ clock \in 0..MaxTime
      BY TimeAssumption DEF LimiterInit
    <2>2. /\ touched \in [Clients -> Nat] /\ \A c \in Clients : touched[c] <= clock
      BY <2>1 DEF LimiterInit
    <2>3. /\ counters \in [Clients -> Counter \cup {None}] /\ call \in [Threads -> Call \cup {None}]
          /\ \A t \in Threads : call[t] = None
      BY Zenon DEF LimiterInit
    <2> QED
      BY <1>1, <2>1, <2>2, <2>3, LimitsAssumption, ZenonT(60) DEF LimiterInit, LimiterType
  <1> QED
    BY <1>2, Zenon DEF LimiterInit, LimiterInv, PenaltyInv, SettledInv, Tracked

\* Each step of the limiter keeps the invariant.
LEMMA LimiterStep == LimiterInv /\ [LimiterNext]_limiterVars => LimiterInv'
  <1> SUFFICES ASSUME LimiterInv, [LimiterNext]_limiterVars PROVE LimiterInv'
    BY Zenon
  <1>1. CASE ConfigureServer
    BY <1>1, ConfigureKeeps, Zenon
  <1>2. ASSUME NEW t \in Threads,
               \/ \E o \in Operations, c \in Clients : CheckGlobalLimit(t, o, c)
               \/ CheckClient(t)
        PROVE  LimiterInv'
    BY <1>2, CallKeeps, CheckKeeps, ZenonT(60)
  <1>3. CASE (\E t \in Threads : CheckClientPanics(t)) \/ CheckGlobal \/ CheckOther
             \/ UNCHANGED limiterVars
    BY <1>3, SameKeeps DEF CheckClientPanics, CheckGlobal, CheckOther, history, limiterVars
  <1>4. ASSUME NEW o \in Operations, NEW c \in Clients, Remaining(o, c) PROVE LimiterInv'
    BY <1>4, RemainingKeeps, Zenon
  <1>5. CASE (\E c \in Clients : Reset(c)) \/ (\E age \in Ages : PruneInactive(age))
    BY <1>5, ForgetKeeps, Zenon DEF Reset, PruneInactive
  <1>6. CASE Tick \/ Restart
    BY <1>6, TickKeeps, RestartKeeps
  <1> QED
    BY <1>1, <1>2, <1>3, <1>4, <1>5, <1>6, ZenonT(60) DEF LimiterNext

\* Only check admits: what any other step does to the history of admissions
\* does not add to it.
LEMMA OnlyCheckAdmits ==
    ASSUME [LimiterNext]_limiterVars, NEW c \in Clients, admitted'[c] \ admitted[c] # {}
    PROVE  \E t \in Threads : CheckClient(t)
  <1>2. admitted' # admitted
    BY Zenon
  <1>3. ASSUME NEW gone, Forget(gone) PROVE FALSE
    <2>1. admitted'[c] \in {{}, admitted[c]}
      BY <1>3, Zenon DEF Forget
    <2> QED
      BY <2>1, Zenon
  <1>4. ~Tick
    BY Zenon DEF Tick
  <1>5. ~Restart
    BY Zenon DEF Restart
  <1>6. /\ ~ConfigureServer /\ ~CheckGlobal /\ ~CheckOther /\ ~UNCHANGED limiterVars
        /\ \A t \in Threads, p \in Operations, d \in Clients : ~CheckGlobalLimit(t, p, d)
        /\ \A t \in Threads : ~CheckClientPanics(t)
        /\ \A p \in Operations, d \in Clients : ~Remaining(p, d)
    BY <1>2, Zenon DEF ConfigureServer, CheckGlobal, CheckOther, CheckGlobalLimit, CheckClientPanics,
                Remaining, history, limiterVars
  <1>7. (\A d \in Clients : ~Reset(d)) /\ (\A age \in Ages : ~PruneInactive(age))
    BY <1>3, Zenon DEF Reset, PruneInactive
  <1> QED
    BY <1>4, <1>5, <1>6, <1>7, Zenon DEF LimiterNext

\* A refused client is admitted again only when its cooldown is over.
LEMMA AdmitsAfterCooldown ==
    ASSUME LimiterInv, [LimiterNext]_limiterVars, NEW c \in Clients,
           admitted'[c] \ admitted[c] # {}, refusal[c] # None
    PROVE  clock >= refusal[c].now + limits[refusal[c].op].cooldown
  <1>0. LimiterType /\ clock \in Nat
    BY ClockNat, Zenon DEF LimiterInv
  <1>1. PICK t \in Threads : CheckClient(t)
    BY OnlyCheckAdmits, Zenon
  <1>2. PICK a \in Call, q \in Counter :
          LET e == Entry(a.client, a.now)
          IN /\ a = call[t] /\ a.now <= clock /\ a.op \in DOMAIN limits
             /\ counters' = [counters EXCEPT ![a.client] = q]
             /\ q.last_refill \in {a.now, e.last_refill}
             /\ \A w \in Windows : q.last[w] \in {a.now, e.last[w]}
             /\ \/ /\ ~InCooldown(e, a.now) /\ q.cooldown_until = None
                   /\ admitted' = Recorded(a.client, a.op) /\ refusal' = refusal
                \/ /\ q.cooldown_until = a.now + limits[a.op].cooldown
                   /\ admitted' = admitted
                   /\ refusal' = [refusal EXCEPT ![a.client] = [op |-> a.op, now |-> a.now]]
    BY <1>0, <1>1, CheckFacts, Zenon
  <1>3. DOMAIN admitted = Clients
    BY <1>0, Zenon DEF LimiterType
  <1>4. admitted' # admitted /\ admitted'[c] # admitted[c]
    BY Zenon
  <1>5. ~InCooldown(Entry(a.client, a.now), a.now) /\ admitted' = Recorded(a.client, a.op)
    BY <1>2, <1>4, Zenon
  <1>6. a.client = c
    BY <1>3, <1>4, <1>5, Zenon DEF Recorded
  <1>7. /\ counters[c] # None /\ refusal[c].now \in Nat /\ refusal[c].op \in DOMAIN limits
        /\ \/ clock >= Until(refusal[c], limits)
           \/ counters[c].cooldown_until = Until(refusal[c], limits)
    BY ZenonT(60) DEF LimiterInv, PenaltyInv
  <1>8. Until(refusal[c], limits) \in Nat
    <2>1. limits[refusal[c].op] \in Limit
      BY <1>0, <1>7, Zenon DEF LimiterType
    <2>2. limits[refusal[c].op].cooldown \in Nat
      BY <2>1, Zenon DEF Limit
    <2> QED
      BY <1>7, <2>2 DEF Until
  <1>9. a.now \in Nat /\ Entry(c, a.now) = counters[c]
    BY <1>7, ZenonT(60) DEF Call, Entry
  <1>10. counters[c].cooldown_until = Until(refusal[c], limits) => clock >= Until(refusal[c], limits)
    <2> DEFINE u == Until(refusal[c], limits)
    <2>1. clock \in Nat /\ u \in Nat /\ a.now <= clock /\ a.now \in Nat
      BY <1>0, <1>2, <1>8, <1>9, Zenon
    <2>2. counters[c].cooldown_until = u => ~(a.now < u)
      <3>1. ~InCooldown(counters[c], a.now)
        BY <1>5, <1>6, <1>9, ZenonT(60)
      <3>2. u # None
        BY <1>8, CounterAssumption
      <3> QED
        BY <3>1, <3>2, Zenon DEF InCooldown
    <2> HIDE DEF u
    <2>3. ~(a.now < u) => clock >= u
      BY <2>1
    <2> QED
      BY <2>2, <2>3, Zenon DEF u
  <1> QED
    BY <1>7, <1>10, Zenon DEF Until

\* A cooldown that a refused call starts is served in full, whatever calls
\* overtake it, for any threads, clients, limits and times (check's steps 4
\* and 5).
THEOREM CooldownServed == LimiterSpec => PenaltyServed
  <1>1. LimiterInv /\ [LimiterNext]_limiterVars =>
          [\A c \in Clients :
               admitted'[c] \ admitted[c] # {} /\ refusal[c] # None
               => clock >= refusal[c].now + limits[refusal[c].op].cooldown]_limiterVars
    BY AdmitsAfterCooldown, Zenon
  <1> QED
    BY <1>1, LimiterStart, LimiterStep, PTL DEF LimiterSpec, PenaltyServed

\* What RateLimiter::new and run_server pass, and a clock that has not run for
\* 2^32 milliseconds, less the credit of a new counter.
Sensible ==
    /\ \A o \in DOMAIN NewLimits :
           NewLimits[o].burst_size > 0 /\ \A w \in Windows : NewLimits[o].max[w] > 0
    /\ \A o \in DOMAIN ServerLimits :
           ServerLimits[o].burst_size > 0 /\ \A w \in Windows : ServerLimits[o].max[w] > 0
    /\ \E w \in Windows : Length[w] >= Second
    /\ MaxTime + Credit < Wrap

PositiveInv ==
    \A o \in DOMAIN limits : limits[o].burst_size > 0 /\ \A w \in Windows : limits[o].max[w] > 0

\* The limits of RateLimiter::new are positive.
LEMMA PositiveInit == ASSUME Sensible PROVE LimiterInit => PositiveInv
  BY Zenon DEF Sensible, LimiterInit, PositiveInv

\* run_server replaces limits by positive ones, and nothing else changes them.
LEMMA PositiveNext == ASSUME Sensible PROVE PositiveInv /\ [LimiterNext]_limiterVars => PositiveInv'
  <1> SUFFICES ASSUME PositiveInv, [LimiterNext]_limiterVars PROVE PositiveInv'
    BY Zenon
  <1>1. CASE UNCHANGED limits
    BY <1>1, Zenon DEF PositiveInv
  <1>2. CASE ConfigureServer
    BY <1>2, ZenonT(60) DEF ConfigureServer, PositiveInv, Sensible
  <1>3. CASE Restart
    BY <1>3, Zenon DEF Restart, PositiveInv, Sensible
  <1> QED
    BY <1>1, <1>2, <1>3, ZenonT(60) DEF LimiterNext, limiterVars, CheckGlobalLimit, CheckClient,
         CheckClientPanics, CheckGlobal, CheckOther, Remaining, Reset, PruneInactive, Forget, Tick

\* A second without a refill, or longer, is worth a token.
LEMMA PatienceRefills ==
    ASSUME Sensible, NEW k \in Counter, NEW limit \in Limit, limit.burst_size > 0,
           NEW now \in 0..MaxTime, k.last_refill >= 0 - Credit, now - k.last_refill >= Second
    PROVE  Product(k, limit, now) >= Second
  <1> DEFINE s == Since(now, k.last_refill)
             b == limit.burst_size
             r == k.last_refill
  <1>1. /\ now \in Nat /\ Wrap \in Nat /\ Second \in Nat \ {0} /\ Credit \in Nat /\ MaxTime \in Nat
        /\ b \in Nat \ {0} /\ r \in Int /\ MaxTime + Credit < Wrap
    BY TimeAssumption, SMTT(60) DEF Sensible, Counter, Limit
  <1>2. s \in Nat /\ s = now - r
    <2>1. now >= r
      BY <1>1
    <2> QED
      BY <1>1, <2>1 DEF Since
  <1>3. Product(k, limit, now) = (s % Wrap) * b
    BY DEF Product
  <1> HIDE DEF s, b, r
  <1>4. r >= 0 - Credit /\ now <= MaxTime /\ s >= Second
    BY <1>2 DEF r
  <1>5. s < Wrap
    BY <1>1, <1>2, <1>4
  <1>6. s % Wrap = s
    BY <1>1, <1>2, <1>5
  <1>7. s * b >= s
    <2> DEFINE d == b - 1
    <2>1. d \in Nat /\ b = d + 1
      BY <1>1
    <2> HIDE DEF d
    <2>2. s * b = s * d + s
      BY <1>2, <2>1
    <2>3. s * d \in Nat
      BY <1>2, <2>1
    <2> QED
      BY <1>2, <2>2, <2>3
  <1>8. s * b \in Int
    BY <1>1, <1>2
  <1>9. (s % Wrap) * b >= Second
    <2>1. s * b >= Second
      BY <1>1, <1>2, <1>4, <1>7, <1>8
    <2> QED
      BY <1>6, <2>1, Zenon
  <1> QED
    BY <1>3, <1>9, Zenon

\* A client that has left the limiter alone for the longest window and the
\* longest cooldown is admitted, for any threads, clients and limits of at
\* least one, while the clock's milliseconds fit into 32 bits (check, with
\* update_counters and refill_burst_tokens).
THEOREM PatienceRewarded == ASSUME Sensible PROVE LimiterSpec => []PatientIsAdmitted
  <1>1. ASSUME LimiterInv, PositiveInv, NEW c \in Tracked, NEW o \in DOMAIN limits, Patient(c)
        PROVE  Allowed(c, limits[o], clock)
    <2> DEFINE e == counters[c]
               limit == limits[o]
               k == Refreshed(e, limit, clock)
    <2>1. /\ c \in Clients /\ e \in Counter /\ e # None /\ clock \in 0..MaxTime /\ clock \in Nat
          /\ touched[c] \in Nat /\ limit \in Limit
      BY <1>1, ClockNat, CounterAssumption, ZenonT(60) DEF LimiterInv, LimiterType, Tracked
    <2>2. Entry(c, clock) = e
      BY <2>1, Zenon DEF Entry
    <2>3. Settled(e, touched[c], limits)
      BY <1>1 DEF LimiterInv, SettledInv
    <2>4. /\ \A w \in Windows : clock - touched[c] >= Length[w]
          /\ \A p \in DOMAIN limits : clock - touched[c] >= limits[p].cooldown
      BY <1>1, Zenon DEF Patient
    <2>5. limit.burst_size > 0 /\ \A w \in Windows : limit.max[w] > 0
      BY <1>1, ZenonT(60) DEF PositiveInv
    <2> HIDE DEF e, limit
    <2>6. ~InCooldown(e, clock)
      <3> SUFFICES ASSUME e.cooldown_until # None PROVE ~(clock < e.cooldown_until)
        BY Zenon DEF InCooldown
      <3>1. PICK p \in DOMAIN limits : e.cooldown_until <= touched[c] + limits[p].cooldown
        BY <2>3, Zenon DEF Settled
      <3>2. limits[p] \in Limit /\ clock - touched[c] >= limits[p].cooldown
        BY <1>1, <2>4, Zenon DEF LimiterInv, LimiterType
      <3>3. limits[p].cooldown \in Nat /\ e.cooldown_until \in Int
        BY <2>1, <3>2, ZenonT(60) DEF Limit, Counter
      <3> QED
        BY <2>1, <3>1, <3>2, <3>3
    <2>7. \A w \in Windows : Since(clock, e.last[w]) >= Length[w]
      <3> SUFFICES ASSUME NEW w \in Windows PROVE Since(clock, e.last[w]) >= Length[w]
        BY Zenon
      <3>1. e.last[w] \in Int /\ e.last[w] <= touched[c] /\ Length[w] \in Nat
        BY <2>1, <2>3, TimeAssumption, Zenon DEF Settled, Counter
      <3>2. clock - touched[c] >= Length[w]
        BY <2>4, Zenon
      <3> QED
        BY <2>1, <3>1, <3>2 DEF Since
    <2>8. Product(e, limit, clock) >= Second
      <3>1. PICK w \in Windows : Length[w] >= Second
        BY Zenon DEF Sensible
      <3>2. /\ e.last_refill \in Int /\ e.last_refill <= touched[c] /\ e.last_refill >= 0 - Credit
            /\ Length[w] \in Nat /\ Second \in Nat
        BY <2>1, <2>3, TimeAssumption, ZenonT(60) DEF Settled, Counter
      <3>3. clock - e.last_refill >= Second
        <4>1. clock - touched[c] >= Length[w] /\ Length[w] >= Second
          BY <2>4, <3>1, Zenon
        <4> QED
          BY <2>1, <3>2, <4>1
      <3> QED
        BY <2>1, <2>5, <3>2, <3>3, PatienceRefills, Zenon
    <2>9. k.burst_tokens > 0 /\ \A w \in Windows : k.count[w] = 0
      BY <2>1, <2>5, <2>7, <2>8, RefreshedFacts, SMTT(60)
    <2> HIDE DEF k
    <2>10. \A w \in Windows : k.count[w] < limit.max[w]
      BY <2>5, <2>9, Zenon
    <2>11. c \in Tracked
      BY <1>1, Zenon
    <2> QED
      BY <2>2, <2>6, <2>9, <2>10, <2>11, Zenon DEF Allowed, k, limit
  <1>2. LimiterInv /\ PositiveInv => PatientIsAdmitted
    BY <1>1 DEF PatientIsAdmitted
  <1> QED
    BY <1>2, LimiterStart, LimiterStep, PositiveInit, PositiveNext, PTL DEF LimiterSpec

-----------------------------------------------------------------------------
(* The windows of RateLimiter *)

\* All admissions of one operation against one window of a counter: those it
\* has counted were made after it was opened, the others before, and the last
\* of the others, a span back, were all let through by one window.
Fits(all, start, count, max, span) ==
    \E now \in SUBSET all :
        /\ Cardinality(now) <= count /\ Cardinality(now) <= max
        /\ \A a \in now : a.at >= start
        /\ \A a \in all \ now : a.at <= start + MaxStall
        /\ Cardinality({a \in all \ now : a.at > start - span}) <= max

\* The admissions in the span of time that begins at from.
Within(all, from, span) == {a \in all : a.at >= from /\ a.at < from + span}

\* No span has more than two windows let through.
Slides(all, max, span) == \A from \in Int : Cardinality(Within(all, from, span)) <= 2 * max

\* Finitely many admissions, each with its time.
Timed(all) == IsFiniteSet(all) /\ \A a \in all : a.at \in Int

\* A part of a finite set is finite and not larger.
LEMMA Part ==
    ASSUME NEW all, IsFiniteSet(all), NEW part, part \subseteq all
    PROVE  IsFiniteSet(part) /\ Cardinality(part) \in Nat /\ Cardinality(part) <= Cardinality(all)
  BY FS_Subset, FS_CardinalityType, ZenonT(60)

\* A set that two others cover is not larger than they are together.
LEMMA Cover ==
    ASSUME NEW one, NEW other, IsFiniteSet(one), IsFiniteSet(other),
           NEW part, part \subseteq one \cup other
    PROVE  Cardinality(part) <= Cardinality(one) + Cardinality(other)
  <1>1. /\ IsFiniteSet(one \cup other)
        /\ Cardinality(one \cup other) = Cardinality(one) + Cardinality(other) - Cardinality(one \cap other)
    BY FS_Union, Zenon
  <1>2. /\ Cardinality(one) \in Nat /\ Cardinality(other) \in Nat
        /\ Cardinality(one \cap other) \in Nat
    <2>1. one \cap other \subseteq one
      BY Zenon
    <2> QED
      BY <2>1, Part, Zenon
  <1>3. Cardinality(part) \in Nat /\ Cardinality(part) <= Cardinality(one \cup other)
    BY <1>1, Part, Zenon
  <1>4. Cardinality(one \cup other) \in Nat
    BY <1>1, Part, Zenon
  <1> QED
    BY <1>1, <1>2, <1>3, <1>4

\* Nothing was admitted.
LEMMA NoneFit ==
    ASSUME NEW start \in Int, NEW count \in Nat, NEW max \in Nat, NEW span \in Int
    PROVE  Fits({}, start, count, max, span) /\ Slides({}, max, span)
  <1>1. Cardinality({}) = 0
    BY FS_EmptySet, Zenon
  <1>2. Fits({}, start, count, max, span)
    <2>1. /\ {} \in SUBSET {} /\ {a \in {} \ {} : a.at > start - span} = {}
      BY Zenon
    <2>2. Cardinality({}) <= count /\ Cardinality({}) <= max
      BY <1>1
    <2> QED
      BY <2>1, <2>2, Zenon DEF Fits
  <1>3. ASSUME NEW from \in Int PROVE Cardinality(Within({}, from, span)) <= 2 * max
    <2>1. Within({}, from, span) = {}
      BY Zenon DEF Within
    <2>2. Cardinality(Within({}, from, span)) = 0
      BY <1>1, <2>1, Zenon
    <2> QED
      BY <2>2
  <1> QED
    BY <1>2, <1>3, Zenon DEF Slides

\* What is dropped from the history does not matter.
LEMMA FewerFit ==
    ASSUME NEW all, Timed(all), NEW part, part \subseteq all,
           NEW start \in Int, NEW count \in Nat, NEW max \in Nat, NEW span \in Int,
           Fits(all, start, count, max, span), Slides(all, max, span)
    PROVE  Fits(part, start, count, max, span) /\ Slides(part, max, span)
  <1>0. IsFiniteSet(all)
    BY Zenon DEF Timed
  <1>1. PICK now \in SUBSET all :
            /\ Cardinality(now) <= count /\ Cardinality(now) <= max
            /\ \A a \in now : a.at >= start
            /\ \A a \in all \ now : a.at <= start + MaxStall
            /\ Cardinality({a \in all \ now : a.at > start - span}) <= max
    BY Zenon DEF Fits
  <1> DEFINE before == {a \in all \ now : a.at > start - span}
             new == now \cap part
             old == {a \in part \ new : a.at > start - span}
  <1>2. before \subseteq all /\ new \subseteq now /\ old \subseteq before /\ new \in SUBSET part
    BY Zenon
  <1>3. /\ IsFiniteSet(now) /\ IsFiniteSet(before)
        /\ Cardinality(now) \in Nat /\ Cardinality(before) \in Nat
    BY <1>0, <1>2, Part, Zenon
  <1>4. /\ Cardinality(new) \in Nat /\ Cardinality(new) <= Cardinality(now)
        /\ Cardinality(old) \in Nat /\ Cardinality(old) <= Cardinality(before)
    BY <1>2, <1>3, Part, Zenon
  <1>5. (\A a \in new : a.at >= start) /\ \A a \in part \ new : a.at <= start + MaxStall
    BY <1>1, Zenon
  <1>6. Cardinality(before) <= max
    BY <1>1, ZenonT(60)
  <1> HIDE DEF before
  <1>7. Cardinality(new) <= count /\ Cardinality(new) <= max /\ Cardinality(old) <= max
    BY <1>1, <1>3, <1>4, <1>6
  <1>8. Fits(part, start, count, max, span)
    BY <1>2, <1>5, <1>7, ZenonT(60) DEF Fits
  <1>9. ASSUME NEW from \in Int PROVE Cardinality(Within(part, from, span)) <= 2 * max
    <2>1. Within(part, from, span) \subseteq Within(all, from, span) /\ Within(all, from, span) \subseteq all
      BY Zenon DEF Within
    <2>2. IsFiniteSet(Within(all, from, span))
      BY <1>0, <2>1, Part, Zenon
    <2>3. /\ Cardinality(Within(part, from, span)) <= Cardinality(Within(all, from, span))
          /\ Cardinality(Within(part, from, span)) \in Nat
          /\ Cardinality(Within(all, from, span)) \in Nat
      BY <2>1, <2>2, Part, FS_CardinalityType, Zenon
    <2>4. Cardinality(Within(all, from, span)) <= 2 * max
      BY Zenon DEF Slides
    <2> QED
      BY <2>3, <2>4
  <1> QED
    BY <1>8, <1>9, Zenon DEF Slides

\* A higher count says less.
LEMMA HigherFits ==
    ASSUME NEW all, Timed(all), NEW start \in Int, NEW count \in Nat, NEW max \in Nat,
           NEW span \in Int, Fits(all, start, count, max, span)
    PROVE  Fits(all, start, count + 1, max, span)
  <1>1. PICK now \in SUBSET all :
            /\ Cardinality(now) <= count /\ Cardinality(now) <= max
            /\ \A a \in now : a.at >= start
            /\ \A a \in all \ now : a.at <= start + MaxStall
            /\ Cardinality({a \in all \ now : a.at > start - span}) <= max
    BY Zenon DEF Fits
  <1>2. Cardinality(now) \in Nat
    BY Part, Zenon DEF Timed
  <1>3. Cardinality(now) <= count + 1
    BY <1>1, <1>2
  <1> QED
    BY <1>1, <1>3, Zenon DEF Fits

\* A new window is opened: what is old for it is old enough.
LEMMA TurnedFits ==
    ASSUME NEW all, Timed(all), NEW start \in Int, NEW count \in Nat, NEW max \in Nat,
           NEW length \in Int, NEW now \in Int, now - start >= length,
           \A a \in all : a.at <= now + MaxStall,
           Fits(all, start, count, max, length - MaxStall)
    PROVE  Fits(all, now, 0, max, length - MaxStall)
  <1> DEFINE span == length - MaxStall
  <1>1. PICK new \in SUBSET all :
            /\ Cardinality(new) <= count /\ Cardinality(new) <= max
            /\ \A a \in new : a.at >= start
            /\ \A a \in all \ new : a.at <= start + MaxStall
            /\ Cardinality({a \in all \ new : a.at > start - span}) <= max
    BY Zenon DEF Fits
  <1> DEFINE old == {a \in all \ {} : a.at > now - span}
  <1>2. old \subseteq new
    <2> SUFFICES ASSUME NEW a \in all, a.at > now - span, a \notin new PROVE FALSE
      BY Zenon
    <2>1. a.at <= start + MaxStall /\ a.at \in Int
      BY <1>1, Zenon DEF Timed
    <2> QED
      BY <2>1, TimeAssumption
  <1>3. /\ Cardinality(old) \in Nat /\ Cardinality(new) \in Nat
        /\ Cardinality(old) <= Cardinality(new)
    <2>1. IsFiniteSet(new) /\ Cardinality(new) \in Nat
      BY Part, ZenonT(60) DEF Timed
    <2> QED
      BY <1>2, <2>1, Part, Zenon
  <1> HIDE DEF old
  <1>4. Cardinality(old) <= max
    BY <1>1, <1>3
  <1>5. Cardinality({}) <= 0 /\ Cardinality({}) <= max
    <2>1. Cardinality({}) = 0
      BY FS_EmptySet, Zenon
    <2> QED
      BY <2>1
  <1>6. {} \in SUBSET all /\ \A a \in all \ {} : a.at <= now + MaxStall
    BY Zenon
  <1> QED
    BY <1>4, <1>5, <1>6, Zenon DEF Fits, old

\* One more is admitted in the window: the spans that reach it reach back to
\* one earlier window at most.
LEMMA OneMoreFits ==
    ASSUME NEW all, Timed(all), NEW start \in Int, NEW count \in Nat, NEW max \in Nat,
           NEW span \in Int, Fits(all, start, count, max, span), Slides(all, max, span),
           NEW x, x \notin all, x.at \in Int, x.at >= start, count < max
    PROVE  /\ Fits(all \cup {x}, start, count + 1, max, span)
           /\ Slides(all \cup {x}, max, span)
  <1>0. IsFiniteSet(all)
    BY Zenon DEF Timed
  <1>1. PICK now \in SUBSET all :
            /\ Cardinality(now) <= count /\ Cardinality(now) <= max
            /\ \A a \in now : a.at >= start
            /\ \A a \in all \ now : a.at <= start + MaxStall
            /\ Cardinality({a \in all \ now : a.at > start - span}) <= max
    BY Zenon DEF Fits
  <1> DEFINE new == now \cup {x}
             old == {a \in all \ now : a.at > start - span}
  <1>2. /\ IsFiniteSet(now) /\ IsFiniteSet(old) /\ IsFiniteSet(new)
        /\ Cardinality(now) \in Nat /\ Cardinality(old) \in Nat /\ Cardinality(new) \in Nat
        /\ Cardinality(new) = Cardinality(now) + 1
    <2>1. old \subseteq all /\ x \notin now
      BY Zenon
    <2>2. IsFiniteSet(now) /\ IsFiniteSet(old) /\ Cardinality(now) \in Nat /\ Cardinality(old) \in Nat
      BY <1>0, <2>1, Part, Zenon
    <2>3. IsFiniteSet(new) /\ Cardinality(new) = Cardinality(now) + 1
      BY <2>1, <2>2, FS_AddElement, ZenonT(60)
    <2> QED
      BY <2>2, <2>3, FS_CardinalityType, Zenon
  <1>3. Cardinality(new) <= count + 1 /\ Cardinality(new) <= max
    BY <1>1, <1>2
  <1>4. Fits(all \cup {x}, start, count + 1, max, span)
    <2>1. new \in SUBSET (all \cup {x}) /\ (all \cup {x}) \ new = all \ now
      BY Zenon
    <2>2. \A a \in new : a.at >= start
      BY <1>1, Zenon
    <2>3. {a \in (all \cup {x}) \ new : a.at > start - span} = old
      BY <2>1, Zenon
    <2> QED
      BY <1>1, <1>3, <2>1, <2>2, <2>3, Zenon DEF Fits
  <1>5. ASSUME NEW from \in Int
        PROVE  Cardinality(Within(all \cup {x}, from, span)) <= 2 * max
    <2>1. CASE \E a \in new : a.at < from + span
      <3>1. PICK b \in new : b.at < from + span
        BY <2>1, Zenon
      <3>2. b.at >= start /\ b.at \in Int
        BY <1>1, <3>1, ZenonT(60) DEF Timed
      <3>3. Within(all \cup {x}, from, span) \subseteq new \cup old
        <4> SUFFICES ASSUME NEW a \in all, a \notin now, a.at >= from PROVE a.at > start - span
          BY Zenon DEF Within
        <4>1. a.at \in Int
          BY Zenon DEF Timed
        <4> QED
          BY <3>1, <3>2, <4>1
      <3>4. Cardinality(Within(all \cup {x}, from, span)) <= Cardinality(new) + Cardinality(old)
        BY <1>2, <3>3, Cover, Zenon
      <3>5. Cardinality(old) <= max /\ Cardinality(Within(all \cup {x}, from, span)) \in Nat
        <4>1. IsFiniteSet(new \cup old)
          BY <1>2, FS_Union, Zenon
        <4> QED
          BY <1>1, <3>3, <4>1, Part, ZenonT(60)
      <3> QED
        BY <1>2, <1>3, <3>4, <3>5
    <2>2. CASE \A a \in new : ~(a.at < from + span)
      <3>1. Within(all \cup {x}, from, span) = Within(all, from, span)
        BY <2>2, Zenon DEF Within
      <3> QED
        BY <3>1, Zenon DEF Slides
    <2> QED
      BY <2>1, <2>2, ZenonT(60)
  <1> QED
    BY <1>4, <1>5, Zenon DEF Slides

\* update_counters opens the window w of a counter anew.
Opens(k, now, w) == Since(now, k.last[w]) >= Length[w]

\* u is the counter k after update_counters, as far as the windows go.
Moved(u, k, now) ==
    \A w \in Windows :
        /\ u.last[w] = IF Opens(k, now, w) THEN now ELSE k.last[w]
        /\ u.count[w] = IF Opens(k, now, w) THEN 0 ELSE k.count[w]

\* The admissions of one operation.
Of(all, o) == {a \in all : a.op = o}

\* Every window of a counter, for every operation, against its admissions.
Accounts(k, all, lims) ==
    \A o \in DOMAIN lims, w \in Windows :
        /\ Fits(Of(all, o), k.last[w], k.count[w], lims[o].max[w], Length[w] - MaxStall)
        /\ Slides(Of(all, o), lims[o].max[w], Length[w] - MaxStall)

\* What the admissions of each client and its counter have to do with each
\* other, and how far behind the clock a call may be.
WindowInv ==
    /\ \A c \in Clients : counters[c] = None => admitted[c] = {}
    /\ \A c \in Clients : \A a \in admitted[c] : a.at <= clock
    /\ \A t \in Threads : call[t] # None => clock - call[t].now <= MaxStall
    /\ \A c \in Clients : counters[c] # None => Accounts(counters[c], admitted[c], limits)

\* update_counters, written out.
LEMMA UpdateMoves ==
    ASSUME NEW k \in Counter, NEW now \in Nat
    PROVE  Moved(UpdateCounters(k, now), k, now)
  <1> DEFINE over(w) == Since(now, k.last[w]) >= Length[w]
             n == [w \in Windows |-> IF over(w) THEN 0 ELSE k.count[w]]
             l == [w \in Windows |-> IF over(w) THEN now ELSE k.last[w]]
             u == UpdateCounters(k, now)
  <1>1. u = [k EXCEPT !.count = n, !.last = l]
    BY DEF UpdateCounters
  <1> HIDE DEF n, l, u
  <1>2. u.count = n /\ u.last = l
    BY <1>1, Zenon DEF Counter
  <1>3. \A w \in Windows : /\ l[w] = IF Opens(k, now, w) THEN now ELSE k.last[w]
                           /\ n[w] = IF Opens(k, now, w) THEN 0 ELSE k.count[w]
    BY Zenon DEF Opens, n, l
  <1>4. Moved(u, k, now)
    BY <1>2, <1>3, Zenon DEF Moved
  <1> QED
    BY <1>4, Zenon DEF u

\* refill_burst_tokens and the end of a cooldown leave the windows alone.
LEMMA RefreshMoves ==
    ASSUME NEW e \in Counter, NEW limit \in Limit, NEW now \in Nat
    PROVE  /\ Moved(RefillBurstTokens(UpdateCounters(e, now), limit, now), e, now)
           /\ Moved(Refreshed(e, limit, now), e, now)
  <1>0. ASSUME NEW u \in Counter, NEW r, r = RefillBurstTokens(u, limit, now)
        PROVE  r.last = u.last /\ r.count = u.count
    BY <1>0, RefillFacts
  <1>1. ASSUME NEW d \in Counter, d.last = e.last, d.count = e.count
        PROVE  Moved(RefillBurstTokens(UpdateCounters(d, now), limit, now), e, now)
    <2> DEFINE u == UpdateCounters(d, now)
               r == RefillBurstTokens(u, limit, now)
    <2>1. u \in Counter
      BY <1>1, UpdateFacts, Zenon
    <2>2. Moved(u, d, now)
      BY <1>1, UpdateMoves, Zenon
    <2>3. r = RefillBurstTokens(u, limit, now)
      BY Zenon
    <2> HIDE DEF u, r
    <2>4. r.last = u.last /\ r.count = u.count
      BY <1>0, <2>1, <2>3, Zenon
    <2>5. Moved(r, e, now)
      BY <1>1, <2>2, <2>4, Zenon DEF Moved, Opens
    <2> QED
      BY <2>5, Zenon DEF r, u
  <1> DEFINE f == [e EXCEPT !.cooldown_until = None]
             d == IF InCooldown(e, now) THEN e ELSE f
  <1>2. f \in Counter /\ f.last = e.last /\ f.count = e.count
    BY Zenon DEF Counter
  <1> HIDE DEF f
  <1>3. d \in Counter /\ d.last = e.last /\ d.count = e.count
    BY <1>2, Zenon
  <1>4. Refreshed(e, limit, now) = RefillBurstTokens(UpdateCounters(d, now), limit, now)
    BY Zenon DEF Refreshed, f
  <1> HIDE DEF d
  <1> QED
    BY <1>1, <1>3, <1>4, ZenonT(60)

\* Granting a call counts it in every window; refusing it leaves the windows
\* alone.
LEMMA AnswerCounts ==
    ASSUME NEW k \in Counter, NEW limit, NEW now
    PROVE  /\ \A w \in Windows : /\ Granted(k).last[w] = k.last[w]
                                 /\ Granted(k).count[w] = k.count[w] + 1
           /\ Refused(k, limit, now).last = k.last /\ Refused(k, limit, now).count = k.count
  <1> DEFINE n == [w \in Windows |-> k.count[w] + 1]
             b == k.burst_tokens - 1
             g == Granted(k)
             r == Refused(k, limit, now)
             u == now + limit.cooldown
  <1>1. g = [k EXCEPT !.count = n, !.burst_tokens = b] /\ r = [k EXCEPT !.cooldown_until = u]
    BY DEF Granted, Refused
  <1>2. \A w \in Windows : n[w] = k.count[w] + 1
    BY Zenon
  <1> HIDE DEF n, b, u, g, r
  <1>3. g.count = n /\ g.last = k.last /\ r.last = k.last /\ r.count = k.count
    BY <1>1, ZenonT(60) DEF Counter
  <1> QED
    BY <1>2, <1>3, Zenon DEF g, r

\* The numbers of a limit, of a window and of a counter.
LEMMA Measures ==
    ASSUME LimiterType, NEW o \in DOMAIN limits, NEW w \in Windows, NEW k \in Counter
    PROVE  /\ limits[o].max[w] \in Nat /\ Length[w] \in Int /\ MaxStall \in Nat
           /\ Length[w] - MaxStall \in Int /\ k.last[w] \in Int /\ k.count[w] \in Nat
  <1>1. limits[o] \in Limit /\ MaxStall \in Nat /\ Length \in [Windows -> Nat \ {0}]
    BY TimeAssumption, Zenon DEF LimiterType
  <1>2. limits[o].max[w] \in Nat /\ Length[w] \in Nat \ {0} /\ k.last[w] \in Int /\ k.count[w] \in Nat
    BY <1>1, Zenon DEF Limit, Counter
  <1> QED
    BY <1>1, <1>2

\* The admissions of one operation are finitely many, each with its time.
LEMMA OfTimed ==
    ASSUME NEW all \in Histories, NEW o
    PROVE  Timed(Of(all, o)) /\ Of(all, o) \subseteq all
  <1>1. Of(all, o) \subseteq all /\ IsFiniteSet(all) /\ all \subseteq Admission
    BY Zenon DEF Of, Histories
  <1>2. IsFiniteSet(Of(all, o))
    BY <1>1, Part, Zenon
  <1>3. \A a \in Admission : a.at \in Int
    BY DEF Admission
  <1> QED
    BY <1>1, <1>2, <1>3, Zenon DEF Timed

\* A client that nothing was admitted to, whatever its counter.
LEMMA NothingAccounts ==
    ASSUME LimiterType, NEW k \in Counter
    PROVE  Accounts(k, {}, limits)
  <1> SUFFICES ASSUME NEW o \in DOMAIN limits, NEW w \in Windows
               PROVE  /\ Fits({}, k.last[w], k.count[w], limits[o].max[w], Length[w] - MaxStall)
                      /\ Slides({}, limits[o].max[w], Length[w] - MaxStall)
    <2>1. \A o \in DOMAIN limits : Of({}, o) = {}
      BY Zenon DEF Of
    <2> QED
      BY <2>1, Zenon DEF Accounts
  <1> QED
    BY Measures, NoneFit, Zenon

\* Part of the history, as Tick keeps it, still agrees with the counter.
LEMMA FewerAccounts ==
    ASSUME LimiterType, NEW k \in Counter, NEW all \in Histories, NEW part \in SUBSET all,
           Accounts(k, all, limits)
    PROVE  Accounts(k, part, limits)
  <1> SUFFICES ASSUME NEW o \in DOMAIN limits, NEW w \in Windows
               PROVE  LET span == Length[w] - MaxStall
                      IN  /\ Fits(Of(part, o), k.last[w], k.count[w], limits[o].max[w], span)
                          /\ Slides(Of(part, o), limits[o].max[w], span)
    BY Zenon DEF Accounts
  <1> DEFINE span == Length[w] - MaxStall
             max == limits[o].max[w]
  <1>1. span \in Int /\ max \in Nat /\ k.last[w] \in Int /\ k.count[w] \in Nat
    BY Measures, Zenon
  <1>2. Fits(Of(all, o), k.last[w], k.count[w], max, span) /\ Slides(Of(all, o), max, span)
    BY Zenon DEF Accounts
  <1>3. Timed(Of(all, o)) /\ Of(part, o) \subseteq Of(all, o)
    BY OfTimed, Zenon DEF Of
  <1> HIDE DEF span, max
  <1>4. Fits(Of(part, o), k.last[w], k.count[w], max, span) /\ Slides(Of(part, o), max, span)
    BY <1>1, <1>2, <1>3, FewerFit, ZenonT(60)
  <1> QED
    BY <1>4, Zenon DEF span, max

\* update_counters opens windows that are over: what was admitted until then is
\* old, and what a span before the opening reaches was let through by the window
\* that is closed.
LEMMA MovedAccounts ==
    ASSUME LimiterType, NEW e \in Counter, NEW u, NEW now \in Nat, Moved(u, e, now),
           NEW all \in Histories, \A a \in all : a.at <= now + MaxStall, Accounts(e, all, limits)
    PROVE  Accounts(u, all, limits)
  <1> SUFFICES ASSUME NEW o \in DOMAIN limits, NEW w \in Windows
               PROVE  LET span == Length[w] - MaxStall
                      IN  /\ Fits(Of(all, o), u.last[w], u.count[w], limits[o].max[w], span)
                          /\ Slides(Of(all, o), limits[o].max[w], span)
    BY Zenon DEF Accounts
  <1> DEFINE span == Length[w] - MaxStall
             max == limits[o].max[w]
             all0 == Of(all, o)
  <1>1. /\ span \in Int /\ max \in Nat /\ e.last[w] \in Int /\ e.count[w] \in Nat
        /\ Length[w] \in Int
    BY Measures, Zenon
  <1>2. Fits(all0, e.last[w], e.count[w], max, span) /\ Slides(all0, max, span)
    BY Zenon DEF Accounts
  <1>3. Timed(all0) /\ \A a \in all0 : a.at <= now + MaxStall
    BY OfTimed, Zenon
  <1>4. CASE ~Opens(e, now, w)
    <2>1. u.last[w] = e.last[w] /\ u.count[w] = e.count[w]
      BY <1>4, Zenon DEF Moved
    <2> QED
      BY <1>2, <2>1, Zenon
  <1>5. CASE Opens(e, now, w)
    <2>1. u.last[w] = now /\ u.count[w] = 0
      BY <1>5, ZenonT(60) DEF Moved
    <2>2. now - e.last[w] >= Length[w]
      <3>1. Length[w] \in Nat \ {0}
        BY TimeAssumption, Zenon
      <3>2. Since(now, e.last[w]) >= Length[w]
        BY <1>5, Zenon DEF Opens
      <3> QED
        BY <1>1, <3>1, <3>2 DEF Since
    <2>3. now \in Int
      OBVIOUS
    <2> HIDE DEF max, all0
    <2>4. Fits(all0, now, 0, max, span)
      BY <1>1, <1>2, <1>3, <2>2, <2>3, TurnedFits, ZenonT(60)
    <2> QED
      BY <1>2, <2>1, <2>4, Zenon DEF max, all0
  <1> QED
    BY <1>4, <1>5, Zenon

\* A call is granted under the maximum of each window: it counts for its own
\* operation, and the count of the other operations is only higher than it
\* need be.
LEMMA GrantAccounts ==
    ASSUME LimiterType, NEW k \in Counter, NEW all \in Histories, Accounts(k, all, limits),
           NEW x \in Admission, x \notin all, \A w \in Windows : x.at >= k.last[w],
           \A w \in Windows : k.count[w] < limits[x.op].max[w],
           NEW q, \A w \in Windows : q.last[w] = k.last[w] /\ q.count[w] = k.count[w] + 1
    PROVE  Accounts(q, all \cup {x}, limits)
  <1> DEFINE more == all \cup {x}
  <1> SUFFICES ASSUME NEW o \in DOMAIN limits, NEW w \in Windows
               PROVE  LET span == Length[w] - MaxStall
                      IN  /\ Fits(Of(more, o), q.last[w], q.count[w], limits[o].max[w], span)
                          /\ Slides(Of(more, o), limits[o].max[w], span)
    BY Zenon DEF Accounts
  <1> DEFINE span == Length[w] - MaxStall
             max == limits[o].max[w]
             all0 == Of(all, o)
  <1>1. /\ span \in Int /\ max \in Nat /\ k.last[w] \in Int /\ k.count[w] \in Nat
        /\ q.last[w] = k.last[w] /\ q.count[w] = k.count[w] + 1
    BY Measures, Zenon
  <1>2. Fits(all0, k.last[w], k.count[w], max, span) /\ Slides(all0, max, span)
    BY Zenon DEF Accounts
  <1>3. Timed(all0)
    BY OfTimed, Zenon
  <1>4. CASE x.op # o
    <2>1. Of(more, o) = all0
      BY <1>4, Zenon DEF Of
    <2> HIDE DEF span, max, all0
    <2>2. Fits(all0, k.last[w], k.count[w] + 1, max, span)
      BY <1>1, <1>2, <1>3, HigherFits, Zenon
    <2> QED
      BY <1>1, <1>2, <2>1, <2>2, ZenonT(60) DEF span, max
  <1>5. CASE x.op = o
    <2>1. Of(more, o) = all0 \cup {x} /\ x \notin all0
      BY <1>5, Zenon DEF Of
    <2>2. x.at \in Int /\ x.at >= k.last[w] /\ k.count[w] < max
      <3>1. x.at \in Int
        BY DEF Admission
      <3> QED
        BY <1>5, <3>1, ZenonT(60)
    <2> HIDE DEF span, max, all0, more
    <2>3. /\ Fits(all0 \cup {x}, k.last[w], k.count[w] + 1, max, span)
          /\ Slides(all0 \cup {x}, max, span)
      BY <1>1, <1>2, <1>3, <2>1, <2>2, OneMoreFits, ZenonT(60)
    <2> QED
      BY <1>1, <2>1, <2>3, Zenon DEF span, max
  <1> QED
    BY <1>4, <1>5, Zenon

\* The counter that check takes or makes agrees with the history.
LEMMA EntryAccounts ==
    ASSUME LimiterType, WindowInv, NEW c \in Clients, NEW now \in Nat
    PROVE  Entry(c, now) \in Counter /\ Accounts(Entry(c, now), admitted[c], limits)
  <1>1. Entry(c, now) \in Counter
    BY EntryFacts, Zenon
  <1>2. CASE counters[c] = None
    <2>1. admitted[c] = {}
      BY <1>2, Zenon DEF WindowInv
    <2> QED
      BY <1>1, <2>1, NothingAccounts, Zenon
  <1>3. CASE counters[c] # None
    BY <1>1, <1>3, Zenon DEF WindowInv, Entry
  <1> QED
    BY <1>2, <1>3, Zenon DEF WindowInv

\* A step that changes one client's counter and history, and ends calls at most.
LEMMA OneClientChanged ==
    ASSUME LimiterType, WindowInv, NEW c \in Clients, NEW q, q # None, NEW all,
           UNCHANGED <<clock, limits>>, \A t \in Threads : call'[t] \in {None, call[t]},
           counters' = [counters EXCEPT ![c] = q], admitted' = [admitted EXCEPT ![c] = all],
           \A a \in all : a.at <= clock, Accounts(q, all, limits)
    PROVE  WindowInv'
  <1>1. /\ counters'[c] = q /\ \A d \in Clients \ {c} : counters'[d] = counters[d]
        /\ admitted'[c] = all /\ \A d \in Clients \ {c} : admitted'[d] = admitted[d]
    BY Zenon DEF LimiterType
  <1>2. \A d \in Clients : counters'[d] = None => admitted'[d] = {}
    BY <1>1, Zenon DEF WindowInv
  <1>3. \A d \in Clients : \A a \in admitted'[d] : a.at <= clock
    BY <1>1, Zenon DEF WindowInv
  <1>4. \A t \in Threads : call'[t] # None => clock - call'[t].now <= MaxStall
    BY Zenon DEF WindowInv
  <1>5. \A d \in Clients : counters'[d] # None => Accounts(counters'[d], admitted'[d], limits)
    BY <1>1, ZenonT(60) DEF WindowInv
  <1> QED
    BY <1>2, <1>3, <1>4, <1>5, ZenonT(60) DEF WindowInv

\* check either counts the call in windows that are not full, or refuses it.
LEMMA CheckWindows ==
    ASSUME LimiterType, NEW t \in Threads, CheckClient(t)
    PROVE  \E a \in Call, k \in Counter :
             /\ a = call[t] /\ a.now <= clock /\ a.op \in DOMAIN limits
             /\ Moved(k, Entry(a.client, a.now), a.now)
             /\ \/ /\ \A w \in Windows : k.count[w] < limits[a.op].max[w]
                   /\ counters' = [counters EXCEPT ![a.client] = Granted(k)]
                   /\ admitted' = Recorded(a.client, a.op)
                \/ /\ counters' = [counters EXCEPT ![a.client] = Refused(k, limits[a.op], a.now)]
                   /\ admitted' = admitted
  <1> DEFINE a == call[t]
             c == a.client
             now == a.now
             limit == limits[a.op]
             e == Entry(c, now)
             k == Refreshed(e, limit, now)
             ok == a.error = "none" /\ Allowed(c, limit, now)
  <1>1. /\ a \in Call /\ now <= clock /\ a.op \in DOMAIN limits
        /\ limit \in Limit /\ c \in Clients /\ now \in Nat
    BY Zenon DEF CheckClient, LimiterType, Call
  <1>2. e \in Counter
    BY <1>1, EntryFacts, Zenon
  <1>3. /\ counters' = [counters EXCEPT ![c] = IF ok THEN Granted(k) ELSE Refused(k, limit, now)]
        /\ admitted' = IF ok THEN Recorded(c, a.op) ELSE admitted
    BY Zenon DEF CheckClient
  <1>4. ok => \A w \in Windows : k.count[w] < limit.max[w]
    BY Zenon DEF Allowed
  <1>5. k \in Counter
    BY <1>1, <1>2, RefreshedFacts, Zenon
  <1>6. Moved(k, e, now)
    BY <1>1, <1>2, RefreshMoves, Zenon
  <1> HIDE DEF k, ok
  <1>7. \/ /\ \A w \in Windows : k.count[w] < limit.max[w]
           /\ counters' = [counters EXCEPT ![c] = Granted(k)]
           /\ admitted' = Recorded(c, a.op)
        \/ /\ counters' = [counters EXCEPT ![c] = Refused(k, limit, now)]
           /\ admitted' = admitted
    BY <1>3, <1>4, Zenon
  <1> QED
    BY <1>1, <1>5, <1>6, <1>7, Zenon

\* Every window of a counter was opened by now.
LEMMA OpenedBefore ==
    ASSUME LimiterInv, NEW c \in Clients, NEW now \in Nat, now <= clock, NEW k,
           Moved(k, Entry(c, now), now), NEW w \in Windows
    PROVE  clock >= k.last[w]
  <1> DEFINE e == Entry(c, now)
  <1>1. LimiterType /\ clock \in Nat
    BY ClockNat, Zenon DEF LimiterInv
  <1>2. k.last[w] = now \/ k.last[w] = e.last[w]
    BY ZenonT(60) DEF Moved
  <1>3. CASE k.last[w] = now
    BY <1>1, <1>3, Zenon
  <1>4. CASE k.last[w] = e.last[w] /\ counters[c] = None
    <2>1. e.last[w] = now
      BY <1>1, <1>4, EntryFacts, ZenonT(60)
    <2> QED
      BY <1>1, <1>4, <2>1, ZenonT(60)
  <1>5. CASE k.last[w] = e.last[w] /\ counters[c] # None
    <2>1. e = counters[c] /\ e \in Counter
      BY <1>1, <1>5, EntryFacts, ZenonT(60)
    <2>2. e.last[w] \in Int /\ e.last[w] <= touched[c] /\ touched[c] \in Nat /\ touched[c] <= clock
      BY <1>1, <1>5, <2>1, ZenonT(60) DEF Counter, LimiterInv, SettledInv, Settled, Tracked, LimiterType
    <2> HIDE DEF e
    <2> QED
      BY <1>1, <1>5, <2>2
  <1> QED
    BY <1>2, <1>3, <1>4, <1>5, ZenonT(60)

\* A client that was checked has a counter.
LEMMA CheckTracks ==
    ASSUME LimiterType, NEW t \in Threads, CheckClient(t)
    PROVE  counters'[call[t].client] # None
  <1>1. PICK a \in Call, q \in Counter :
          LET e == Entry(a.client, a.now)
          IN /\ a = call[t] /\ a.now <= clock /\ a.op \in DOMAIN limits
             /\ counters' = [counters EXCEPT ![a.client] = q]
             /\ q.last_refill \in {a.now, e.last_refill}
             /\ \A w \in Windows : q.last[w] \in {a.now, e.last[w]}
             /\ \/ /\ ~InCooldown(e, a.now) /\ q.cooldown_until = None
                   /\ admitted' = Recorded(a.client, a.op) /\ refusal' = refusal
                \/ /\ q.cooldown_until = a.now + limits[a.op].cooldown
                   /\ admitted' = admitted
                   /\ refusal' = [refusal EXCEPT ![a.client] = [op |-> a.op, now |-> a.now]]
    BY CheckFacts, Zenon
  <1>2. call[t].client \in Clients /\ counters \in [Clients -> Counter \cup {None}]
    BY <1>1, Zenon DEF Call, LimiterType
  <1> QED
    BY <1>1, <1>2, CounterAssumption, Zenon

\* A check of a followed client, however late it is.
LEMMA WindowCheck ==
    ASSUME LimiterInv, WindowInv, NEW t \in Threads, CheckClient(t)
    PROVE  WindowInv'
  <1>0. LimiterType /\ clock \in Nat
    BY ClockNat, Zenon DEF LimiterInv
  <1>1. PICK a \in Call, k \in Counter :
          /\ a = call[t] /\ a.now <= clock /\ a.op \in DOMAIN limits
          /\ Moved(k, Entry(a.client, a.now), a.now)
          /\ \/ /\ \A w \in Windows : k.count[w] < limits[a.op].max[w]
                /\ counters' = [counters EXCEPT ![a.client] = Granted(k)]
                /\ admitted' = Recorded(a.client, a.op)
             \/ /\ counters' = [counters EXCEPT ![a.client] = Refused(k, limits[a.op], a.now)]
                /\ admitted' = admitted
    BY <1>0, CheckWindows, Zenon
  <1> DEFINE c == a.client
             now == a.now
             e == Entry(c, now)
             all == admitted[c]
             g == Granted(k)
             r == Refused(k, limits[a.op], now)
             x == Newly(c, a.op)
  <1>2. /\ c \in Clients /\ now \in Nat /\ a.op \in Operations /\ all \in Histories
        /\ now <= clock /\ clock - now <= MaxStall /\ MaxStall \in Nat
    <2>1. c \in Clients /\ now \in Nat /\ a.op \in Operations
      BY Zenon DEF Call
    <2>2. all \in Histories /\ MaxStall \in Nat
      BY <1>0, <2>1, TimeAssumption, Zenon DEF LimiterType
    <2>3. clock - now <= MaxStall
      BY <1>1, Zenon DEF WindowInv, CheckClient
    <2> QED
      BY <1>1, <2>1, <2>2, <2>3, ZenonT(60)
  <1>3. e \in Counter /\ Accounts(e, all, limits)
    BY <1>0, <1>2, EntryAccounts, Zenon
  <1>4. \A y \in all : y.at <= clock
    BY <1>2, ZenonT(60) DEF WindowInv
  <1>5. \A y \in all : y.at <= now + MaxStall
    <2> SUFFICES ASSUME NEW y \in all PROVE y.at <= now + MaxStall
      BY Zenon
    <2>1. y.at \in Nat /\ y.at <= clock
      BY <1>2, <1>4, Zenon DEF Histories, Admission
    <2> QED
      BY <1>0, <1>2, <2>1
  <1>6. Accounts(k, all, limits)
    BY <1>0, <1>1, <1>2, <1>3, <1>5, MovedAccounts, ZenonT(60)
  <1>7. /\ \A w \in Windows : g.last[w] = k.last[w] /\ g.count[w] = k.count[w] + 1
        /\ r.last = k.last /\ r.count = k.count
    BY AnswerCounts
  <1>8. UNCHANGED <<clock, limits>> /\ \A s \in Threads : call'[s] \in {None, call[s]}
    BY <1>0, Zenon DEF CheckClient, LimiterType
  <1>9. counters'[c] # None
    BY <1>0, <1>1, <1>2, CheckTracks, Zenon
  <1> HIDE DEF g, r
  <1>10. CASE /\ \A w \in Windows : k.count[w] < limits[a.op].max[w]
              /\ counters' = [counters EXCEPT ![c] = g]
              /\ admitted' = Recorded(c, a.op)
    <2>1. x \in Admission /\ x \notin all /\ x.op = a.op /\ x.at = clock
      BY <1>0, <1>2, NewlyFacts, Zenon
    <2>2. \A w \in Windows : clock >= k.last[w]
      BY <1>1, <1>2, OpenedBefore, Zenon
    <2>3. admitted' = [admitted EXCEPT ![c] = all \cup {x}]
      BY <1>10, Zenon DEF Recorded
    <2>4. g # None
      BY <1>0, <1>2, <1>9, <1>10, ZenonT(60) DEF LimiterType
    <2> HIDE DEF x
    <2>5. Accounts(g, all \cup {x}, limits)
      BY <1>0, <1>2, <1>6, <1>7, <1>10, <2>1, <2>2, GrantAccounts, ZenonT(60)
    <2>6. \A y \in all \cup {x} : y.at <= clock
      <3>1. clock <= clock
        BY <1>0
      <3> QED
        BY <1>4, <2>1, <3>1, ZenonT(60)
    <2> QED
      BY <1>0, <1>2, <1>8, <1>10, <2>3, <2>4, <2>5, <2>6, OneClientChanged, ZenonT(60)
  <1>11. CASE counters' = [counters EXCEPT ![c] = r] /\ admitted' = admitted
    <2>1. r # None
      BY <1>0, <1>2, <1>9, <1>11, ZenonT(60) DEF LimiterType
    <2>2. admitted' = [admitted EXCEPT ![c] = all]
      BY <1>0, <1>2, <1>11, ZenonT(60) DEF LimiterType
    <2>3. Accounts(r, all, limits)
      BY <1>6, <1>7, Zenon DEF Accounts
    <2> QED
      BY <1>0, <1>2, <1>4, <1>8, <1>11, <2>1, <2>2, <2>3, OneClientChanged, ZenonT(60)
  <1> QED
    BY <1>1, <1>10, <1>11, Zenon DEF g, r

\* remaining opens windows that are over, and admits nothing.
LEMMA WindowRemaining ==
    ASSUME LimiterInv, WindowInv, NEW o \in Operations, NEW c \in Clients, Remaining(o, c)
    PROVE  WindowInv'
  <1> DEFINE e == Entry(c, clock)
             q == RefillBurstTokens(UpdateCounters(e, clock), limits[o], clock)
             all == admitted[c]
  <1>0. LimiterType /\ clock \in Nat
    BY ClockNat, Zenon DEF LimiterInv
  <1>1. UNCHANGED <<clock, limits, call, admitted>> /\ o \in DOMAIN limits
    BY Zenon DEF Remaining
  <1>2. limits[o] \in Limit /\ all \in Histories
    BY <1>0, <1>1, Zenon DEF LimiterType
  <1>3. CASE UNCHANGED counters
    BY <1>1, <1>3, Zenon DEF WindowInv
  <1>4. CASE counters' = [counters EXCEPT ![c] = q]
    <2>1. e \in Counter /\ Accounts(e, all, limits)
      BY <1>0, EntryAccounts, Zenon
    <2>2. Moved(q, e, clock)
      BY <1>0, <1>2, <2>1, RefreshMoves, Zenon
    <2>3. q # None
      <3>1. UpdateCounters(e, clock) \in Counter
        BY <1>0, <2>1, UpdateFacts, ZenonT(60)
      <3>2. q \in Counter
        BY <1>0, <1>2, <3>1, RefillFacts, ZenonT(60)
      <3> QED
        BY <3>2, CounterAssumption, Zenon
    <2> HIDE DEF q, e
    <2>4. \A y \in all : y.at <= clock
      BY Zenon DEF WindowInv
    <2>5. \A y \in all : y.at <= clock + MaxStall
      <3> SUFFICES ASSUME NEW y \in all PROVE y.at <= clock + MaxStall
        BY Zenon
      <3>1. y.at \in Nat /\ y.at <= clock /\ MaxStall \in Nat
        BY <1>2, <2>4, TimeAssumption, ZenonT(60) DEF Histories, Admission
      <3> QED
        BY <1>0, <3>1
    <2>6. Accounts(q, all, limits)
      BY <1>0, <1>2, <2>1, <2>2, <2>5, MovedAccounts, ZenonT(60)
    <2>7. admitted' = [admitted EXCEPT ![c] = all] /\ \A s \in Threads : call'[s] \in {None, call[s]}
      BY <1>0, <1>1, Zenon DEF LimiterType
    <2> QED
      BY <1>0, <1>1, <1>4, <2>3, <2>4, <2>6, <2>7, OneClientChanged, ZenonT(60)
  <1> QED
    BY <1>3, <1>4, Zenon DEF Remaining

\* The global step of check reads the clock: the call is not late yet.
LEMMA WindowCall ==
    ASSUME LimiterInv, WindowInv, NEW t \in Threads, NEW o \in Operations, NEW c \in Clients,
           CheckGlobalLimit(t, o, c)
    PROVE  WindowInv'
  <1>0. LimiterType /\ clock \in Nat /\ MaxStall \in Nat
    BY ClockNat, TimeAssumption, Zenon DEF LimiterInv
  <1>1. /\ UNCHANGED <<clock, limits, counters, admitted>>
        /\ \A s \in Threads : call'[s] = call[s] \/ call'[s].now = clock
    BY <1>0, Zenon DEF CheckGlobalLimit, history, LimiterType
  <1>2. clock - clock <= MaxStall
    BY <1>0
  <1>3. \A s \in Threads : call'[s] # None => clock - call'[s].now <= MaxStall
    BY <1>1, <1>2, Zenon DEF WindowInv
  <1> QED
    BY <1>1, <1>3, Zenon DEF WindowInv

\* Time passes: no call is held up for longer than MaxStall.
LEMMA WindowTick ==
    ASSUME LimiterInv, WindowInv, Tick
    PROVE  WindowInv'
  <1>0. LimiterType /\ clock \in Nat /\ MaxStall \in Nat
    BY ClockNat, TimeAssumption, Zenon DEF LimiterInv
  <1>1. /\ clock' = clock + 1 /\ UNCHANGED <<limits, counters, call>>
        /\ \A c \in Clients : admitted'[c] \in SUBSET admitted[c]
        /\ \A t \in Threads : call[t] # None => clock - call[t].now < MaxStall
    BY Zenon DEF Tick
  <1>2. \A c \in Clients : counters[c] = None => admitted'[c] = {}
    BY <1>1, ZenonT(60) DEF WindowInv
  <1>3. ASSUME NEW c \in Clients, NEW a \in admitted'[c] PROVE a.at <= clock'
    <2>1. a.at <= clock
      BY <1>1, <1>3, Zenon DEF WindowInv
    <2>2. a \in Admission
      <3>1. a \in admitted[c] /\ admitted[c] \in Histories
        BY <1>0, <1>1, <1>3, ZenonT(60) DEF LimiterType
      <3> QED
        BY <3>1, Zenon DEF Histories
    <2>3. a.at \in Nat
      BY <2>2, ZenonT(60) DEF Admission
    <2> QED
      BY <1>0, <1>1, <2>1, <2>3
  <1>4. ASSUME NEW t \in Threads, call[t] # None PROVE clock' - call[t].now <= MaxStall
    <2>1. call[t].now \in Nat /\ clock - call[t].now < MaxStall
      BY <1>0, <1>1, <1>4, ZenonT(60) DEF LimiterType, Call
    <2> QED
      BY <1>0, <1>1, <2>1
  <1>5. ASSUME NEW c \in Clients, counters[c] # None
        PROVE  Accounts(counters[c], admitted'[c], limits)
    <2>1. counters[c] \in Counter /\ admitted[c] \in Histories
      BY <1>0, <1>5, Zenon DEF LimiterType
    <2>2. Accounts(counters[c], admitted[c], limits)
      BY <1>5, Zenon DEF WindowInv
    <2> QED
      BY <1>0, <1>1, <2>1, <2>2, FewerAccounts, ZenonT(60)
  <1> QED
    BY <1>1, <1>2, <1>3, <1>4, <1>5, ZenonT(60) DEF WindowInv

\* reset and prune_inactive remove the counter with the history.
LEMMA WindowForget ==
    ASSUME WindowInv, NEW gone, Forget(gone)
    PROVE  WindowInv'
  <1>1. /\ UNCHANGED <<clock, limits, call>>
        /\ \A c \in Clients : \/ counters'[c] = counters[c] /\ admitted'[c] = admitted[c]
                              \/ counters'[c] = None /\ admitted'[c] = {}
    BY Zenon DEF Forget
  <1> QED
    BY <1>1, Zenon DEF WindowInv

\* Without counters there is no history to agree with.
LEMMA WindowNone ==
    ASSUME \A c \in Clients : counters[c] = None /\ admitted[c] = {},
           \A t \in Threads : call[t] = None
    PROVE  WindowInv
  BY Zenon DEF WindowInv

\* Each step of the limiter keeps counters and histories in agreement.
LEMMA WindowStep == LimiterInv /\ WindowInv /\ [LimiterNext]_limiterVars => WindowInv'
  <1> SUFFICES ASSUME LimiterInv, WindowInv, [LimiterNext]_limiterVars PROVE WindowInv'
    BY Zenon
  <1>1. CASE ConfigureServer
    <2>1. /\ UNCHANGED <<clock, counters, call, admitted>>
          /\ \A c \in Clients : counters[c] = None
          /\ \A t \in Threads : call[t] = None
      BY <1>1, Zenon DEF ConfigureServer, history
    <2> QED
      BY <2>1, Zenon DEF WindowInv
  <1>2. ASSUME NEW t \in Threads,
               \/ \E o \in Operations, c \in Clients : CheckGlobalLimit(t, o, c)
               \/ CheckClient(t)
        PROVE  WindowInv'
    BY <1>2, WindowCall, WindowCheck, Zenon
  <1>3. CASE (\E t \in Threads : CheckClientPanics(t)) \/ CheckGlobal \/ CheckOther
             \/ UNCHANGED limiterVars
    <2>1. UNCHANGED <<clock, limits, counters, call, admitted>>
      BY <1>3, Zenon DEF CheckClientPanics, CheckGlobal, CheckOther, history, limiterVars
    <2> QED
      BY <2>1, Zenon DEF WindowInv
  <1>4. ASSUME NEW o \in Operations, NEW c \in Clients, Remaining(o, c) PROVE WindowInv'
    BY <1>4, WindowRemaining, Zenon
  <1>5. CASE (\E c \in Clients : Reset(c)) \/ (\E age \in Ages : PruneInactive(age))
    BY <1>5, WindowForget, Zenon DEF Reset, PruneInactive
  <1>6. CASE Tick
    BY <1>6, WindowTick, Zenon
  <1>7. CASE Restart
    <2>1. /\ \A c \in Clients : counters'[c] = None /\ admitted'[c] = {}
          /\ \A t \in Threads : call'[t] = None
      BY <1>7, Zenon DEF Restart
    <2> QED
      BY <2>1, Zenon DEF WindowInv
  <1> QED
    BY <1>1, <1>2, <1>3, <1>4, <1>5, <1>6, <1>7, ZenonT(60) DEF LimiterNext

\* check lets at most twice the maximum of an operation through in any span of
\* a window's length less the time a call may be held up, for any threads,
\* clients, windows and limits (update_counters and the steps of check).
THEOREM WindowsSlide == LimiterSpec => []SlidingLimit
  <1>1. LimiterInit => WindowInv
    BY WindowNone, Zenon DEF LimiterInit
  <1>2. ASSUME LimiterInv, WindowInv, NEW c \in Clients, NEW o \in DOMAIN limits,
               NEW w \in Windows, NEW from \in 0..clock
        PROVE  Cardinality(AdmittedWithin(c, o, from, Length[w] - MaxStall)) <= 2 * limits[o].max[w]
    <2> DEFINE span == Length[w] - MaxStall
    <2>1. AdmittedWithin(c, o, from, span) = Within(Of(admitted[c], o), from, span)
      BY Zenon DEF AdmittedWithin, Within, Of
    <2>2. Slides(Of(admitted[c], o), limits[o].max[w], span)
      <3>1. LimiterType
        BY <1>2, Zenon DEF LimiterInv
      <3>2. \E k \in Counter : Accounts(k, admitted[c], limits)
        BY <1>2, <3>1, EntryAccounts, ClockNat, ZenonT(60)
      <3> QED
        BY <3>2, Zenon DEF Accounts
    <2>3. from \in Int
      BY <1>2
    <2> HIDE DEF span
    <2>4. Cardinality(AdmittedWithin(c, o, from, span)) <= 2 * limits[o].max[w]
      BY <2>1, <2>2, <2>3, ZenonT(60) DEF Slides
    <2> QED
      BY <2>4, Zenon DEF span
  <1>3. LimiterInv /\ WindowInv => SlidingLimit
    BY <1>2, Zenon DEF SlidingLimit
  <1> QED
    BY <1>1, <1>3, LimiterStart, LimiterStep, WindowStep, PTL DEF LimiterSpec
=============================================================================
