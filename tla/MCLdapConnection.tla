-------------------------- MODULE MCLdapConnection --------------------------
(* Small instances of LdapConnection. *)
EXTENDS LdapConnection, TLC

AllModules == <<"auth", "userdb", "password">>
CONSTANTS k1, k2
Mixed == k1 :> {"password"} @@ k2 :> {"auth", "confirm"}
Clients == Permutations(Client)

(* What the behaviour and the invariants depend on: the manager's binds,   *)
(* and times that no longer matter, are left out.                          *)
Observed ==
    <<clock, client, connected, IF Healthy THEN lastHealthCheck ELSE -1,
      circuitState, failureCount,
      IF circuitState = "open" /\ ~ResetTimeoutPassed THEN lastFailureTime ELSE -1,
      closed, task, starting>>
=============================================================================
