---------------------------- MODULE MCFederation -----------------------------
(* Small instances of Federation: one configuration for each protocol and  *)
(* each way that its answers are checked.                                  *)
EXTENDS Federation, TLC

Symmetry == Permutations(Users) \cup Permutations(Slots)

Plain == [fixed |-> {"authorize", "token"}, discovery |-> TRUE,
          document |-> {"authorize", "token", "userinfo"},
          nonce |-> TRUE, pkce |-> FALSE, userinfo |-> TRUE]

NoOptions == [p1 |-> Plain, p2 |-> Plain]

Base == [protocol |-> "oidc", providers |-> {"p1"}, options |-> [p1 |-> Plain],
         default |-> None, cookies |-> {}, service |-> "path",
         confused |-> TRUE, returns |-> 3, sps |-> {}, bad |-> None, issuer |-> FALSE]

Two == [Base EXCEPT !.providers = {"p1", "p2"},
                    !.confused = FALSE,
                    !.options = [p1 |-> [Plain EXCEPT !.discovery = FALSE,
                                                      !.userinfo = FALSE,
                                                      !.pkce = TRUE,
                                                      !.nonce = FALSE],
                                 p2 |-> [Plain EXCEPT !.fixed = {}]]]

Cas == [Base EXCEPT !.protocol = "cas", !.providers = {"p1", "p2"},
                    !.options = NoOptions, !.cookies = {"p1", "p2", "p3"}]

Saml == [Base EXCEPT !.protocol = "saml", !.providers = {"p1"},
                     !.returns = 1, !.sps = {"s1", "s2"}, !.issuer = TRUE]

Configurations ==
    {Base, Two, Cas, [Cas EXCEPT !.default = "p1", !.service = "bare"],
     [Saml EXCEPT !.returns = 2, !.sps = {"s1"}], Saml,
     [Saml EXCEPT !.bad = "s1"], [Saml EXCEPT !.bad = "p1"]}
==============================================================================
