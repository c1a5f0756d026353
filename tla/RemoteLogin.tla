----------------------------- MODULE RemoteLogin -----------------------------
(***************************************************************************)
(* Logging in at a remote provider: the OpenID Connect client of           *)
(* packages/auth-oidc and userdb-oidc, the CAS client of auth-cas and      *)
(* userdb-cas, and the SAML service provider of auth-saml.                 *)
(*                                                                         *)
(* The browser leaves for the provider with a request and comes back with  *)
(* what the provider gave it, maybe twice, late, or from another tab; the  *)
(* module then asks the provider, and the portal hands the answer to the   *)
(* user module and opens a session.  Several logins are under way at once: *)
(* every await of the code ends an action.                                 *)
(***************************************************************************)
EXTENDS Integers, FiniteSets

CONSTANTS
    Attempts,   \* the requests that browsers leave with
    Calls,      \* the returns of browsers, an initial part of the naturals
    Users,
    Confs,      \* the configurations to start from
    Timeout,    \* oidcRPStateTimeout
    MaxClock,   \* bound on the clock
    None

(* How a provider is configured: the endpoints given and those that its    *)
(* discovery document gives, the checks that its answers undergo.          *)
Endpoint == {"authorize", "token", "userinfo"}

Provider ==
    [fixed : SUBSET Endpoint, discovery : BOOLEAN, document : SUBSET Endpoint,
     nonce : BOOLEAN, pkce : BOOLEAN, userinfo : BOOLEAN]

(* service is the service URL of the CAS client, "bare" one without a      *)
(* path; cookies the servers that the browser's cookie may name, and       *)
(* default that of casSrvDefault; confused tells that the provider may     *)
(* send the ID token, or the user info, of another request; returns bounds *)
(* the returns, and sps, bad and issuer are of SamlIssuer.                 *)
IsConf(c) ==
    /\ c.protocol \in {"oidc", "cas", "saml"}
    /\ c.options \in [DOMAIN c.options -> Provider]
    /\ c.providers \subseteq DOMAIN c.options /\ None \notin c.providers
    /\ c.service \in {"bare", "path"}
    /\ {c.confused, c.issuer} \subseteq BOOLEAN
    /\ c.returns \in Nat
    /\ c.bad \in c.providers \cup c.sps \cup {None}

ASSUME RemoteAssumption ==
    /\ \A c \in Confs : IsConf(c)
    /\ Calls \subseteq Nat /\ Timeout \in Nat /\ MaxClock \in Nat
    /\ None \notin Users

VARIABLES
    conf, clock,
    endpoints,   \* opConfigs: the endpoints known of each provider
    asked,       \* what each attempt asked, and of whom
    states,      \* the attempts whose state is stored
    answered,    \* the user whom the provider recognised for an attempt
    spent,       \* the codes and tickets that providers have redeemed
    call,        \* the returns of browsers being served
    claims,      \* currentClaims of OIDCUserDB
    session      \* the session that each return opened

remoteVars == <<conf, clock, endpoints, asked, states, answered, spent, call,
                claims, session>>

(* A return of the browser: the state and the code it brings, the provider *)
(* it is about, the subject of the ID token (or of the ticket, or of the   *)
(* assertion), the subject of the user info if there is one, and the user  *)
(* that getUser() returned.                                                *)
Idle == [step |-> "idle", state |-> None, code |-> None, provider |-> None,
         sub |-> None, info |-> None, uid |-> None]

NoSession == [uid |-> None, user |-> None, oidcSub |-> None, provider |-> None,
              open |-> FALSE]

RemoteInit ==
    /\ conf \in Confs
    /\ clock = 0
    /\ endpoints = [p \in conf.providers |-> None]
    /\ asked = [a \in Attempts |-> None]
    /\ states = {}
    /\ answered = [a \in Attempts |-> None]
    /\ spent = {}
    /\ call = [k \in Calls |-> Idle]
    /\ claims = None
    /\ session = [k \in Calls |-> NoSession]

(***************************************************************************)
(* Leaving for the provider                                                *)
(***************************************************************************)
(* The portal waits for init(), which takes the providers one by one and   *)
(* keeps one whose discovery document cannot be had.                       *)
Discovered(p, ok) ==
    LET o == conf.options[p]
    IN  o.fixed \cup (IF o.discovery /\ ok THEN o.document ELSE {})

InitOP(p) ==
    /\ conf.protocol = "oidc"
    /\ endpoints[p] = None
    /\ \E ok \in BOOLEAN :
          endpoints' = [endpoints EXCEPT ![p] = Discovered(p, ok)]
    /\ UNCHANGED <<conf, clock, asked, states, answered, spent, call, claims,
                   session>>

Ready == conf.protocol = "oidc" => \A p \in conf.providers : endpoints[p] # None

(* The state, the nonce and the verifier of a request are drawn with it:   *)
(* the attempt stands for the three.  Without an authorization endpoint    *)
(* the state is stored before the URL cannot be built.                     *)
Leave(a, p, kept, reaches) ==
    /\ asked[a] = None
    /\ \A b \in Attempts : b < a => asked[b] # None
    /\ asked' = [asked EXCEPT ![a] = [provider |-> p, expires |-> clock + Timeout,
                                      reaches |-> reaches]]
    /\ states' = IF kept THEN states \cup {a} ELSE states
    /\ UNCHANGED <<conf, clock, endpoints, answered, spent, call, claims, session>>

GetAuthorizationUrl(a) ==
    /\ conf.protocol = "oidc" /\ Ready
    /\ \E p \in conf.providers : Leave(a, p, TRUE, "authorize" \in endpoints[p])

(* The only server is the default one when none is named.                  *)
DefaultServer ==
    IF conf.default # None THEN conf.default
    ELSE IF Cardinality(conf.providers) = 1
         THEN CHOOSE p \in conf.providers : TRUE
         ELSE None

BuildLoginUrl(a) ==
    /\ conf.protocol = "cas"
    /\ \E p \in (conf.providers \cup {DefaultServer}) \cap conf.providers :
          Leave(a, p, FALSE, TRUE)

BuildAuthnRequest(a) ==
    /\ conf.protocol = "saml"
    /\ \E p \in conf.providers : Leave(a, p, TRUE, TRUE)

(* The user is recognised by the provider, which gives a code, a ticket or *)
(* an assertion for the browser to bring back.                             *)
ProviderAnswers(a, u) ==
    /\ asked[a] # None /\ asked[a].reaches
    /\ answered[a] = None
    /\ answered' = [answered EXCEPT ![a] = u]
    /\ UNCHANGED <<conf, clock, endpoints, asked, states, spent, call, claims,
                   session>>

(***************************************************************************)
(* Coming back to the OpenID Connect client                                *)
(***************************************************************************)
Free(k) ==
    /\ k <= conf.returns
    /\ call[k] = Idle
    /\ \A j \in Calls : j < k => call[j] # Idle

Refused == [Idle EXCEPT !.step = "refused"]

(* Mutant of ConsumeState: the state is read and left stored.              *)
ConsumeStateKept(s) == states

ConsumeState(s) == states \ {s}

Fresh(s) == asked[s].expires >= clock

(* A return with an error of the provider leaves the state stored.         *)
HandleErrorCallback(k) ==
    /\ conf.protocol = "oidc"
    /\ Free(k)
    /\ call' = [call EXCEPT ![k] = Refused]
    /\ UNCHANGED <<conf, clock, endpoints, asked, states, answered, spent, claims,
                   session>>

HandleCallback(k, s, c) ==
    /\ conf.protocol = "oidc"
    /\ Free(k)
    /\ asked[s] # None /\ answered[c] # None
    /\ states' = ConsumeState(s)
    /\ call' = [call EXCEPT ![k] =
          IF s \in states /\ Fresh(s)
          THEN [Idle EXCEPT !.step = "token", !.state = s, !.code = c,
                            !.provider = asked[s].provider]
          ELSE Refused]
    /\ UNCHANGED <<conf, clock, endpoints, asked, answered, spent, claims, session>>

(* The provider redeems a code of its own once, for the verifier of the    *)
(* request that the code answers, if that request had a challenge.         *)
Redeems(k) ==
    LET c == call[k].code
        p == call[k].provider
    IN  /\ c \notin spent
        /\ asked[c].provider = p
        /\ conf.options[p].pkce => call[k].state = c

(* The requests whose ID token, or user info, the provider may send: the   *)
(* client compares the subjects of neither with the other.                 *)
Sent(k) ==
    {call[k].code} \cup
    (IF conf.confused
     THEN {d \in Attempts : answered[d] # None
                            /\ asked[d].provider = call[k].provider}
     ELSE {})

(* Mutant of NonceMatches: the nonce of the ID token is not looked at.     *)
NonceUnchecked(k, d) == TRUE

NonceMatches(k, d) == conf.options[call[k].provider].nonce => d = call[k].state

(* With the tokens of a request the login goes on, to the user info if it  *)
(* is wanted.                                                              *)
WithTokens(k, d) ==
    IF NonceMatches(k, d)
    THEN [call[k] EXCEPT !.sub = answered[d],
                         !.step = IF conf.options[call[k].provider].userinfo
                                  THEN "userinfo" ELSE "authenticated"]
    ELSE Refused

(* The provider may fail, before or after the code is spent.               *)
TokenRequest(k) ==
    /\ conf.protocol = "oidc"
    /\ call[k].step = "token"
    /\ \/ /\ call' = [call EXCEPT ![k] = Refused]
          /\ UNCHANGED spent
       \/ /\ "token" \in endpoints[call[k].provider]
          /\ Redeems(k)
          /\ spent' = spent \cup {call[k].code}
          /\ \E after \in {WithTokens(k, d) : d \in Sent(k)} \cup {Refused} :
                call' = [call EXCEPT ![k] = after]
    /\ UNCHANGED <<conf, clock, endpoints, asked, states, answered, claims, session>>

(* Without user info the login goes on with the subject of the ID token.   *)
GetUserInfo(k) ==
    /\ call[k].step = "userinfo"
    /\ \E info \in {answered[d] : d \in Sent(k)} \cup {None} :
          /\ info # None => "userinfo" \in endpoints[call[k].provider]
          /\ call' = [call EXCEPT ![k].step = "authenticated", ![k].info = info]
    /\ UNCHANGED <<conf, clock, endpoints, asked, states, answered, spent, claims,
                   session>>

(***************************************************************************)
(* The user module of OpenID Connect.  Its caller is not in the            *)
(* repository: it hands over the claims of its login, then asks for the    *)
(* user, then fills the session, and both times the module reads the one   *)
(* place that it has for claims, where another login may have put its own. *)
(***************************************************************************)
SetOIDCClaims(k) ==
    /\ conf.protocol = "oidc"
    /\ call[k].step = "authenticated"
    /\ claims' = [sub |-> call[k].sub, info |-> call[k].info,
                  provider |-> call[k].provider]
    /\ call' = [call EXCEPT ![k].step = "handed"]
    /\ UNCHANGED <<conf, clock, endpoints, asked, states, answered, spent, session>>

(* The user info wins over the ID token.                                   *)
Subject == IF claims.info # None THEN claims.info ELSE claims.sub

GetUser(k) ==
    /\ call[k].step = "handed"
    /\ call' = [call EXCEPT ![k].step = "loaded", ![k].uid = Subject]
    /\ UNCHANGED <<conf, clock, endpoints, asked, states, answered, spent, claims,
                   session>>

Opened(k, s) ==
    /\ call' = [call EXCEPT ![k].step = "done"]
    /\ session' = [session EXCEPT ![k] = s]
    /\ UNCHANGED <<conf, clock, endpoints, asked, states, answered, spent, claims>>

SetSessionInfo(k) ==
    /\ call[k].step = "loaded"
    /\ Opened(k, [uid |-> call[k].uid, user |-> call[k].uid, oidcSub |-> Subject,
                  provider |-> claims.provider, open |-> TRUE])

(***************************************************************************)
(* Coming back to the CAS client                                           *)
(***************************************************************************)
(* The service of a login is the configured one; that of a validation is   *)
(* the URL of the request, which URL() writes with a path.                 *)
ExtractServiceUrl(service) == IF service = "bare" THEN "path" ELSE service

ServerKey(cookie) == IF cookie # None THEN cookie ELSE DefaultServer

(* A ticket is taken for one of the server that the cookie names.  Without *)
(* a server there are no credentials, and nothing happens.                 *)
AuthenticateTicket(k, c) ==
    /\ conf.protocol = "cas"
    /\ Free(k)
    /\ answered[c] # None
    /\ \E cookie \in conf.cookies \cup {None} :
          /\ ServerKey(cookie) # None
          /\ call' = [call EXCEPT ![k] =
                IF ServerKey(cookie) \in conf.providers
                THEN [Idle EXCEPT !.step = "validate", !.code = c,
                                  !.provider = ServerKey(cookie)]
                ELSE Refused]
    /\ UNCHANGED <<conf, clock, endpoints, asked, states, answered, spent, claims,
                   session>>

(* The server knows a ticket of its own once, for the service it was       *)
(* issued for; a ticket shown for another one is spent all the same.       *)
TicketValid(k) ==
    /\ call[k].code \notin spent
    /\ asked[call[k].code].provider = call[k].provider
    /\ ExtractServiceUrl(conf.service) = conf.service

ValidateTicket(k) ==
    /\ conf.protocol = "cas"
    /\ call[k].step = "validate"
    /\ \/ /\ spent' = IF asked[call[k].code].provider = call[k].provider
                      THEN spent \cup {call[k].code} ELSE spent
          /\ call' = [call EXCEPT ![k] =
                IF TicketValid(k)
                THEN [@ EXCEPT !.step = "authenticated",
                               !.sub = answered[call[k].code]]
                ELSE Refused]
       \/ /\ call' = [call EXCEPT ![k] = Refused]
          /\ UNCHANGED spent
    /\ UNCHANGED <<conf, clock, endpoints, asked, states, answered, claims, session>>

(* The module of CAS and that of SAML take the user from the answer.       *)
OpenSession(k) ==
    /\ conf.protocol \in {"cas", "saml"}
    /\ call[k].step = "authenticated"
    /\ Opened(k, [NoSession EXCEPT !.uid = call[k].sub, !.user = call[k].sub,
                                   !.provider = call[k].provider, !.open = TRUE])

(***************************************************************************)
(* Coming back to the SAML service provider.  The relay state is consumed  *)
(* when there is one, and neither its age nor its absence matters; lasso   *)
(* checks the assertion, which may lack a NameID.                          *)
(***************************************************************************)
AuthenticateAssertion(k, c) ==
    /\ conf.protocol = "saml"
    /\ Free(k)
    /\ answered[c] # None
    /\ \E relay \in {a \in Attempts : asked[a] # None} \cup {None} :
          states' = ConsumeState(relay)
    /\ \E accepted \in BOOLEAN :
          call' = [call EXCEPT ![k] =
             IF accepted
             THEN [Idle EXCEPT !.step = "authenticated", !.code = c,
                               !.provider = asked[c].provider,
                               !.sub = answered[c]]
             ELSE Refused]
    /\ UNCHANGED <<conf, clock, endpoints, asked, answered, spent, claims, session>>

Tick ==
    /\ conf.protocol = "oidc"
    /\ clock < MaxClock
    /\ clock' = clock + 1
    /\ UNCHANGED <<conf, endpoints, asked, states, answered, spent, call, claims,
                   session>>

RemoteNext ==
    \/ \E p \in conf.providers : InitOP(p)
    \/ \E a \in Attempts : \/ GetAuthorizationUrl(a)
                           \/ BuildLoginUrl(a)
                           \/ BuildAuthnRequest(a)
                           \/ \E u \in Users : ProviderAnswers(a, u)
    \/ \E k \in Calls : \/ HandleErrorCallback(k)
                        \/ \E s, c \in Attempts : HandleCallback(k, s, c)
                        \/ TokenRequest(k)
                        \/ GetUserInfo(k)
                        \/ SetOIDCClaims(k)
                        \/ GetUser(k)
                        \/ SetSessionInfo(k)
                        \/ \E c \in Attempts : AuthenticateTicket(k, c)
                        \/ ValidateTicket(k)
                        \/ OpenSession(k)
                        \/ \E c \in Attempts : AuthenticateAssertion(k, c)
    \/ Tick

(***************************************************************************)
(* Properties                                                              *)
(***************************************************************************)
Accepted(k) == call[k].step \in {"userinfo", "authenticated", "handed", "loaded",
                                 "done"}

(* A state of OpenID Connect, and a ticket of CAS, open at most one        *)
(* session, however often and in whatever order browsers come back with    *)
(* them (the state is gone before the provider is asked).                  *)
AcceptedOnce ==
    \A j, k \in Calls :
        j # k /\ Accepted(j) /\ Accepted(k) =>
            /\ conf.protocol = "oidc" => call[j].state # call[k].state
            /\ conf.protocol = "cas" => call[j].code # call[k].code

(* The user of a login is the one whom the provider recognised for the     *)
(* request that the state of the return names (no state is tied to a       *)
(* browser), even if the states and the codes of two returns were swapped, *)
(* or if the provider sends the ID token of another request: the nonce     *)
(* tells, or else the verifier of a provider that sends the right token.   *)
(* The user info, which wins over the ID token, is of that request too,    *)
(* but only with a provider that sends what it is asked for: nothing       *)
(* compares its subject with that of the ID token (handleCallback).        *)
OwnAnswer ==
    \A k \in Calls :
        LET o == conf.options[call[k].provider]
            own == answered[call[k].state]
        IN  Accepted(k) /\ conf.protocol = "oidc" =>
               /\ o.nonce \/ (o.pkce /\ ~conf.confused) => call[k].sub = own
               /\ (o.nonce \/ o.pkce) /\ ~conf.confused =>
                     call[k].info \in {None, own}
==============================================================================
