---------------------------- MODULE MCOidcClients ----------------------------
(* Small instances of OidcClients.  Requests are alike.                    *)
EXTENDS OidcClients, TLC

Symmetry == Permutations(Slot)

Rsa(n) == [id |-> n, type |-> "RSA", traditional |-> TRUE, readable |-> TRUE]
Ec(n) == [id |-> n, type |-> "EC", traditional |-> FALSE, readable |-> TRUE]
Broken(n) == [Rsa(n) EXCEPT !.readable = FALSE]

Configured(c, method, jwks) ==
    [client |-> c, method |-> method, jwks |-> jwks,
     encrypted |-> jwks # None, uris |-> {"registered"}, requirePkce |-> FALSE,
     allowPlain |-> FALSE, jwtAccess |-> FALSE, backChannel |-> TRUE,
     userInfo |-> IF jwks = None THEN "none" ELSE "RS", secret |-> TRUE,
     logoutUris |-> {}, bypass |-> FALSE]

Allowed == {[origin |-> "o1", path |-> <<"a">>, star |-> TRUE],
            [origin |-> "o2", path |-> <<"a">>, star |-> FALSE]}

Places == [origin : {"o1", "o2", "o3"}, path : {<<"a">>, <<"a", "b">>},
           http : BOOLEAN, fragment : BOOLEAN]

Base ==
    [codeFlow |-> TRUE, implicit |-> TRUE, hybrid |-> TRUE, dynamic |-> FALSE,
     callback |-> FALSE, sig |-> Rsa(0), sigType |-> NoKey,
     publicSig |-> "none", publicEnc |-> "pem", maxGen |-> 1,
     renderLogout |-> FALSE, kinds |-> {"authenticate", "authorize", "userinfo"},
     rps |-> {Configured("c1", "private_key_jwt", "url")}]

Dynamic ==
    [Base EXCEPT !.dynamic = TRUE, !.kinds = {"logout"},
                 !.rps = {Configured("c1", "client_secret_basic", None)}]

(* Keys of clients; registrations, kept in memory or stored; the keys of   *)
(* the provider, some of which cannot be used or published; confidential   *)
(* and public clients, PKCE and JWT access tokens.                         *)
Configurations ==
    {Base, Dynamic,
     [Dynamic EXCEPT !.callback = TRUE, !.maxGen = 2, !.hybrid = FALSE,
                     !.publicEnc = "broken"],
     [Base EXCEPT !.maxGen = 2, !.sig = Ec(0), !.sigType = "EC",
                  !.rps = {Configured("c1", "client_secret_jwt", None),
                           Configured("c2", "client_secret_post", None)}],
     [Base EXCEPT !.maxGen = 2, !.implicit = FALSE, !.sig = Ec(0),
                  !.rps = {[Configured("c1", "none", "inline") EXCEPT
                              !.requirePkce = TRUE, !.uris = {}]}],
     [Base EXCEPT !.renderLogout = TRUE, !.kinds = {"endsession"},
                  !.rps = {[Configured("c1", "none", None) EXCEPT
                              !.logoutUris = Allowed, !.bypass = TRUE],
                           Configured("c2", "none", None)}],
     [Base EXCEPT !.publicSig = "broken",
                  !.rps = {[Configured("c1", "client_secret_basic", "inline") EXCEPT
                              !.jwtAccess = TRUE]}]}

Registrations ==
    {[json |-> TRUE, uris |-> {"registered"}, method |-> "private_key_jwt",
      jwks |-> "inline", encrypted |-> TRUE, backChannel |-> TRUE,
      userInfo |-> "HS", logoutUris |-> {}],
     [json |-> TRUE, uris |-> {"dangerous"}, method |-> "none",
      jwks |-> None, encrypted |-> FALSE, backChannel |-> FALSE,
      userInfo |-> "none", logoutUris |-> {}]}

Rotations == <<{Rsa(1), Ec(1)}, {Rsa(2), Broken(2)}>>
=============================================================================
