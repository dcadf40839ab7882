------------------------------ MODULE Mailbox ------------------------------
(***************************************************************************)
(* What the relay promises for the envelopes routed through it             *)
(* (route_message, deliver_queued_messages and handle_ack in               *)
(* server/src/ws.rs), without connections, tasks, channels, the dedup      *)
(* table or crashes: an accepted message is kept until its recipient, who  *)
(* is handed only accepted messages, confirms that it has got it.          *)
(***************************************************************************)

CONSTANT Messages

VARIABLES
    accepted,   \* messages the relay has taken responsibility for
    kept,       \* messages it holds
    got,        \* messages that reached their recipient
    confirmed   \* messages whose recipient acknowledged them

vars == <<accepted, kept, got, confirmed>>

Init == accepted = {} /\ kept = {} /\ got = {} /\ confirmed = {}

\* Taken, possibly once more.
Accept(m) ==
    /\ accepted' = accepted \cup {m} /\ kept' = kept \cup {m}
    /\ UNCHANGED <<got, confirmed>>

\* Handed over, possibly once more; it stays.
Hand(m) ==
    /\ m \in accepted
    /\ got' = got \cup {m}
    /\ UNCHANGED <<accepted, kept, confirmed>>

Confirm(m) ==
    /\ m \in got
    /\ kept' = kept \ {m} /\ confirmed' = confirmed \cup {m}
    /\ UNCHANGED <<accepted, got>>

Next == \E m \in Messages : Accept(m) \/ Hand(m) \/ Confirm(m)

Spec == Init /\ [][Next]_vars

=============================================================================
