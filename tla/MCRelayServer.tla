--------------------------- MODULE MCRelayServer ---------------------------
(* RelayServer on small sets of users, messages, connections and handlers. *)
EXTENDS RelayServer, TLC

\* The operations that run_server calls add_limit for.
ServerLimits ==
    {"ip_unauth", "prekey_upload", "prekey_fetch", "auth_challenge", "auth_prove",
     "message_send"}

Symmetry == Permutations(Conns) \cup Permutations(Handlers)
=============================================================================
