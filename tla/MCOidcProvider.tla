--------------------------- MODULE MCOidcProvider ---------------------------
(* The small instances of OidcProvider.  Requests are alike.               *)
EXTENDS OidcProvider, TLC

Symmetry == Permutations(Slot)

Drawn(n) == {t \in Token : t <= n}

(* Every way to be given tokens, with as many random strings as a code and *)
(* its tokens, rotated once, need; nothing expires.                        *)
Granting ==
    [kinds |-> {"authorize", "hybrid", "implicit", "code", "refresh", "revoke"},
     scopes |-> {TRUE}, checks |-> {TRUE}, narrowing |-> FALSE,
     tokens |-> Drawn(5), faulty |-> FALSE, restarting |-> FALSE, maxClock |-> 0]

(* The uses of tokens, with those of one code, while the store may fail,   *)
(* the process may restart and tokens expire.                              *)
Failing ==
    [kinds |-> {"authorize", "code", "refresh", "userinfo", "introspect", "revoke"},
     scopes |-> {TRUE}, checks |-> BOOLEAN, narrowing |-> TRUE,
     tokens |-> Drawn(4), faulty |-> TRUE, restarting |-> TRUE, maxClock |-> 1]

GrantsAndFailures == <<Granting, Failing>>

=============================================================================
