----------------------------- MODULE SamlIssuer ------------------------------
(***************************************************************************)
(* The SAML identity provider of packages/issuer-saml with the server      *)
(* manager of lib-saml: a service provider sends the browser, the portal   *)
(* builds an assertion for its session and remembers the service provider  *)
(* in the lasso session stored for it; a logout asks the service providers *)
(* remembered there.                                                       *)
(*                                                                         *)
(* lasso and the stores behind the callbacks are external.  The sessions   *)
(* of the portal are those that RemoteLogin opens.                         *)
(***************************************************************************)
EXTENDS RemoteLogin

CONSTANTS Slots    \* the requests of service providers served at a time

VARIABLES
    server,      \* the providers that the lasso server knows, or None
    initialized,
    sso,         \* the requests being served
    saml,        \* the lasso session stored for each session: whom to log out
    identities,  \* the lasso identities stored, of a user at a service provider
    asserted,    \* the assertions sent: for which session, to whom, of which user
    overlapped,  \* those built while another was, for the same session
    slo          \* the service provider asked to log out a session

issuerVars == <<server, initialized, sso, saml, identities, asserted, overlapped,
                slo>>

NoSso == [step |-> "idle", sp |-> None, session |-> None, user |-> None,
          dump |-> {}]

IssuerInit ==
    /\ server = None
    /\ initialized = FALSE
    /\ sso = [o \in Slots |-> NoSso]
    /\ saml = [k \in Calls |-> {}]
    /\ identities = {}
    /\ asserted = {}
    /\ overlapped = {}
    /\ slo = [k \in Calls |-> None]

(***************************************************************************)
(* The server manager                                                      *)
(***************************************************************************)
(* The identity providers come first, then the service providers, in the   *)
(* order of the configuration; the first whose metadata cannot be read     *)
(* ends the initialisation, which leaves the server with those before it.  *)
Registered(before) ==
    IF conf.bad = None THEN conf.providers \cup conf.sps
    ELSE IF conf.bad \in conf.providers THEN before \cap conf.providers
    ELSE conf.providers \cup before

InitServer ==
    /\ conf.issuer
    /\ ~initialized
    /\ \E before \in SUBSET ((conf.providers \cup conf.sps) \ {conf.bad}) :
          server' = Registered(before)
    /\ initialized' = (conf.bad = None)
    /\ UNCHANGED <<sso, saml, identities, asserted, overlapped, slo>>

Shutdown ==
    /\ conf.issuer
    /\ server # None
    /\ server' = None
    /\ initialized' = FALSE
    /\ UNCHANGED <<sso, saml, identities, asserted, overlapped, slo>>

(***************************************************************************)
(* Single sign-on                                                          *)
(***************************************************************************)
HasSession(k) == session[k].open

NameIdValue(k) == session[k].user

(* An authentication request of a service provider that the server knows,  *)
(* in a browser that has a session: its data are read now.                 *)
ProcessAuthnRequest(o, sp, k) ==
    /\ server # None /\ sp \in server
    /\ sso[o] = NoSso
    /\ HasSession(k)
    /\ sso' = [sso EXCEPT ![o] = [step |-> "asked", sp |-> sp, session |-> k,
                                  user |-> NameIdValue(k), dump |-> {}]]
    /\ UNCHANGED <<server, initialized, saml, identities, asserted, overlapped, slo>>

(* Mutant of Restored: the assertion is built in a new lasso session.      *)
RestoredNothing(k) == {}

Restored(k) == saml[k]

Building(k) ==
    {o \in Slots : sso[o].session = k /\ sso[o].step \in {"built", "identified"}}

(* The stored lasso session comes back, and the assertion is built in it.  *)
BuildAssertion(o) ==
    /\ sso[o].step = "asked"
    /\ server # None
    /\ LET k == sso[o].session
       IN  /\ sso' = [sso EXCEPT ![o].step = "built",
                                 ![o].dump = Restored(k) \cup {sso[o].sp}]
           /\ overlapped' = overlapped \cup
                 (IF Building(k) = {} THEN {}
                  ELSE {<<k, sso[i].sp>> : i \in Building(k) \cup {o}})
    /\ UNCHANGED <<server, initialized, saml, identities, asserted, slo>>

StoreIdentity(o) ==
    /\ sso[o].step = "built"
    /\ sso' = [sso EXCEPT ![o].step = "identified"]
    /\ identities' = identities \cup {<<sso[o].user, sso[o].sp>>}
    /\ UNCHANGED <<server, initialized, saml, asserted, overlapped, slo>>

(* The lasso session replaces the whole record stored, then the response   *)
(* goes to the browser.                                                    *)
StoreSAMLSession(o) ==
    /\ sso[o].step = "identified"
    /\ saml' = [saml EXCEPT ![sso[o].session] = sso[o].dump]
    /\ asserted' = asserted \cup {[session |-> sso[o].session, sp |-> sso[o].sp,
                                   user |-> sso[o].user]}
    /\ sso' = [sso EXCEPT ![o] = NoSso]
    /\ UNCHANGED <<server, initialized, identities, overlapped, slo>>

(***************************************************************************)
(* Single logout.  The next service provider to ask is chosen by lasso in  *)
(* the stored session, in which no answer is recorded: the choice is the   *)
(* same at each answer.  A request of a service provider is answered, and  *)
(* changes nothing that is stored.                                         *)
(***************************************************************************)
InitiateLogout(k) ==
    /\ server # None
    /\ slo[k] = None
    /\ \E sp \in saml[k] : slo' = [slo EXCEPT ![k] = sp]
    /\ UNCHANGED <<server, initialized, sso, saml, identities, asserted, overlapped>>

IssuerNext ==
    \/ InitServer
    \/ Shutdown
    \/ \E o \in Slots : \/ \E sp \in conf.sps, k \in Calls :
                               ProcessAuthnRequest(o, sp, k)
                        \/ BuildAssertion(o)
                        \/ StoreIdentity(o)
                        \/ StoreSAMLSession(o)
    \/ \E k \in Calls : InitiateLogout(k)

(* A service provider that was sent an assertion stays in the lasso        *)
(* session stored for the session, where a logout will find it, unless     *)
(* another assertion was built for the same session between the reading    *)
(* and the writing of its record; and nobody else is there.                *)
SpNotForgotten ==
    \A k \in Calls :
        LET sent == {a.sp : a \in {b \in asserted : b.session = k}}
        IN  /\ saml[k] \subseteq sent
            /\ \A sp \in sent : sp \in saml[k] \/ <<k, sp>> \in overlapped
            /\ slo[k] # None => slo[k] \in sent

==============================================================================
