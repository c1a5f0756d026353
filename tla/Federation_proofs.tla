-------------------------- MODULE Federation_proofs --------------------------
(***************************************************************************)
(* Proofs about Federation, for any number of providers, service           *)
(* providers, attempts, returns and users, and any configuration of the    *)
(* providers: all its invariants.                                          *)
(*                                                                         *)
(* RemoteInv is about the returns of browsers, each of which is shown to   *)
(* know only what its own login gave it; IssuerInv about the lasso session *)
(* that is stored for a session.                                           *)
(***************************************************************************)
EXTENDS Federation, TLAPS

Step == {"idle", "refused", "token", "userinfo", "authenticated", "handed",
         "loaded", "validate", "done"}

Maybe(S) == S \cup {None}

CallState ==
    [step : Step, state : Maybe(Attempts), code : Maybe(Attempts),
     provider : Maybe(conf.providers), sub : Maybe(Users), info : Maybe(Users),
     uid : Maybe(Users)]

ClaimSet ==
    [sub : Maybe(Users), info : Maybe(Users), provider : Maybe(conf.providers)]

SessionState ==
    [uid : Maybe(Users), user : Maybe(Users), oidcSub : Maybe(Users),
     provider : Maybe(conf.providers), open : BOOLEAN]

Oidc == conf.protocol = "oidc"
Live(v) == v.step \notin {"idle", "refused"}
Accept(v) == v.step \in {"userinfo", "authenticated", "handed", "loaded", "done"}

Request == [provider : conf.providers, expires : Nat, reaches : BOOLEAN]

RemoteTypes ==
    /\ conf \in Confs
    /\ clock \in Nat
    /\ DOMAIN endpoints = conf.providers
    /\ endpoints = [p \in conf.providers |-> endpoints[p]]
    /\ asked \in [Attempts -> Maybe(Request)]
    /\ answered \in [Attempts -> Maybe(Users)]
    /\ states \subseteq Attempts
    /\ call \in [Calls -> CallState]
    /\ session \in [Calls -> SessionState]

(* Nobody leaves before the providers are known, or comes back before.     *)
AskedOk ==
    \A a \in Attempts : /\ asked[a] # None => Ready
                        /\ answered[a] # None => asked[a] # None

(* A return that is being served has a code that was given to a user; if   *)
(* it came with a state, nobody else will find it.                         *)
ReturnOk(v) ==
    Live(v) =>
        /\ v.code \in Attempts /\ answered[v.code] \in Users
        /\ v.provider \in conf.providers
        /\ Oidc => v.state \in Attempts \ states /\ asked[v.state] # None

StepOk(v) ==
    /\ v.step \in {"token", "userinfo", "handed", "loaded"} => Oidc
    /\ v.step = "validate" => conf.protocol = "cas"
    /\ v.step \in {"token", "validate"} => v.info = None

(* The options tie the answers of a provider to its requests.              *)
Tied(v) ==
    \/ conf.options[v.provider].nonce
    \/ conf.options[v.provider].pkce

(* A login that was accepted has the user of its own answer, and its user  *)
(* info is that of its own code: with an honest provider, the code and the *)
(* state are of one request.                                               *)
AcceptOk(v) ==
    Accept(v) =>
        /\ v.sub \in Users /\ v.info \in Maybe(Users)
        /\ Oidc =>
             /\ \/ v.sub = answered[v.state]
                \/ /\ ~conf.options[v.provider].nonce
                   /\ conf.options[v.provider].pkce => conf.confused
             /\ Tied(v) /\ ~conf.confused => v.code = v.state
             /\ ~conf.confused => v.info \in {None, answered[v.code]}
        /\ conf.protocol = "cas" => v.code \in spent

(* OIDCUserDB has some claims, whosever they are.                          *)
ClaimsOk(v) == v.step \in {"handed", "loaded"} => claims \in ClaimSet

SessionOk(v, s) == v.step # "done" => s = NoSession

CallOk(k) ==
    /\ ReturnOk(call[k]) /\ StepOk(call[k]) /\ AcceptOk(call[k])
    /\ ClaimsOk(call[k]) /\ SessionOk(call[k], session[k])

(* Two returns came with different states, or with different tickets.      *)
Apart(v, w) ==
    /\ Oidc /\ Live(v) /\ Live(w) => v.state # w.state
    /\ conf.protocol = "cas" /\ Accept(v) /\ Accept(w) => v.code # w.code

AllApart == \A j, k \in Calls : j # k => Apart(call[j], call[k])

RemoteInv ==
    /\ RemoteTypes
    /\ AskedOk
    /\ \A k \in Calls : CallOk(k)
    /\ AllApart

-----------------------------------------------------------------------------
(* What never changes, or only grows.                                      *)

Grows ==
    /\ conf' = conf
    /\ \A p \in conf.providers : endpoints[p] # None => endpoints'[p] = endpoints[p]
    /\ \A a \in Attempts : /\ asked[a] # None => asked'[a] = asked[a]
                           /\ answered[a] # None => answered'[a] = answered[a]
    /\ spent \subseteq spent'
    /\ \A a \in states' : a \in states \/ asked[a] = None

(* A return that a step does not serve.                                    *)
LEMMA KeptCall ==
    ASSUME RemoteInv, Grows, NEW k \in Calls, session'[k] = session[k],
           call'[k] = call[k], claims' = claims \/ claims' \in ClaimSet
    PROVE  CallOk(k)'
<1>. DEFINE v == call[k]
<1>1. v \in CallState /\ CallOk(k)
  BY DEF RemoteInv, RemoteTypes
<1>2. conf' = conf /\ Oidc' = Oidc /\ ClaimSet' = ClaimSet
  BY DEF Grows, Oidc, ClaimSet
<1>3. None \notin Users
  BY RemoteAssumption
<1>4. ReturnOk(v) /\ ReturnOk(call[k])'
  BY <1>1, <1>2, <1>3 DEF CallOk, ReturnOk, Live, Grows
<1>5. AcceptOk(call[k])'
  BY <1>1, <1>2, <1>3, <1>4
     DEF CallOk, AcceptOk, Tied, Accept, ReturnOk, Live, Grows
<1>6. StepOk(call[k])' /\ ClaimsOk(call[k])' /\ SessionOk(call[k], session[k])'
  BY <1>1, <1>2 DEF CallOk, StepOk, ClaimsOk, SessionOk
<1>. QED
  BY <1>4, <1>5, <1>6 DEF CallOk

(* A step that serves no return.                                           *)
LEMMA NoCall ==
    ASSUME RemoteInv, Grows, RemoteTypes', AskedOk', UNCHANGED <<call, claims, session>>
    PROVE  RemoteInv'
<1>1. \A k \in Calls : CallOk(k)'
  BY KeptCall
<1>2. AllApart'
  BY DEF RemoteInv, AllApart, Apart, Oidc, Grows
<1>. QED
  BY <1>1, <1>2 DEF RemoteInv

(* A step that serves one return, and leaves the requests as they are.     *)
LEMMA OneCall ==
    ASSUME RemoteInv, NEW k \in Calls, NEW w \in CallState,
           call' = [call EXCEPT ![k] = w],
           UNCHANGED <<conf, clock, endpoints, asked, answered>>,
           states' \subseteq states, spent \subseteq spent',
           claims' = claims \/ claims' \in ClaimSet,
           session' \in [Calls -> SessionState],
           \A j \in Calls \ {k} : session'[j] = session[j],
           CallOk(k)',
           Live(w) /\ Oidc =>
             w.state \in states \/ (Live(call[k]) /\ w.state = call[k].state),
           Accept(w) /\ conf.protocol = "cas" =>
             w.code \notin spent \/ (Accept(call[k]) /\ w.code = call[k].code)
    PROVE  RemoteInv'
<1>1. Grows
  BY DEF Grows
<1>2. call'[k] = w /\ \A j \in Calls \ {k} : call'[j] = call[j]
  BY DEF RemoteInv, RemoteTypes
<1>3. RemoteTypes'
  BY DEF RemoteInv, RemoteTypes, CallState, SessionState, Request
<1>4. AskedOk'
  BY DEF RemoteInv, AskedOk, Ready
<1>5. ASSUME NEW j \in Calls PROVE CallOk(j)'
  <2>1. CASE j = k
    BY <2>1
  <2>2. CASE j # k
    BY <1>1, <1>2, <2>2, KeptCall
  <2>. QED
    BY <2>1, <2>2
<1>6. \A j \in Calls \ {k} : Apart(call[j], w) /\ Apart(w, call[j])
  <2>. TAKE j \in Calls \ {k}
  <2>1. /\ Apart(call[j], call[k]) /\ ReturnOk(call[j]) /\ AcceptOk(call[j])
    BY DEF RemoteInv, AllApart, CallOk
  <2>. QED
    BY <2>1 DEF Apart, ReturnOk, AcceptOk
<1>7. AllApart'
  BY <1>2, <1>6 DEF RemoteInv, AllApart, Apart, Oidc
<1>. QED
  BY <1>3, <1>4, <1>5, <1>7 DEF RemoteInv

-----------------------------------------------------------------------------
(* Leaving for the provider.                                               *)

LEMMA ConfFacts ==
    ASSUME RemoteInv
    PROVE  /\ IsConf(conf) /\ None \notin Users /\ Timeout \in Nat
           /\ None \notin conf.providers
BY RemoteAssumption DEF RemoteInv, RemoteTypes, IsConf

LEMMA InitOPInv ==
    ASSUME RemoteInv, NEW p \in conf.providers, InitOP(p)
    PROVE  RemoteInv'
<1>1. Grows /\ AskedOk'
  BY DEF InitOP, Grows, RemoteInv, RemoteTypes, AskedOk, Ready
<1>2. RemoteTypes'
  BY DEF InitOP, RemoteInv, RemoteTypes, CallState, SessionState, Request
<1>. QED
  BY <1>1, <1>2, NoCall DEF InitOP

(* RemoteTypes does not depend on what the returns know.                   *)
LEMMA TypesNext ==
    ASSUME RemoteInv, UNCHANGED <<conf, endpoints, call, session>>, clock' \in Nat,
           asked' \in [Attempts -> Maybe(Request)],
           answered' \in [Attempts -> Maybe(Users)], states' \subseteq Attempts
    PROVE  RemoteTypes'
BY DEF RemoteInv, RemoteTypes, CallState, SessionState, Request

LEMMA Typed ==
    ASSUME RemoteInv
    PROVE  /\ asked \in [Attempts -> Maybe(Request)] /\ clock \in Nat
           /\ answered \in [Attempts -> Maybe(Users)] /\ states \subseteq Attempts
BY DEF RemoteInv, RemoteTypes

LEMMA LeaveInv ==
    ASSUME RemoteInv, Ready, NEW a \in Attempts, NEW p \in conf.providers,
           NEW kept \in BOOLEAN, NEW reaches \in BOOLEAN, Leave(a, p, kept, reaches)
    PROVE  RemoteInv'
<1>1. Grows /\ AskedOk'
  BY DEF Leave, Grows, RemoteInv, RemoteTypes, AskedOk, Ready
<1>2. RemoteTypes'
  <2>1. [provider |-> p, expires |-> clock + Timeout, reaches |-> reaches] \in Request
    BY ConfFacts, Typed DEF Request
  <2>2. asked' \in [Attempts -> Maybe(Request)]
    BY <2>1, Typed DEF Leave, Maybe
  <2>3. states' \subseteq Attempts
    BY Typed DEF Leave
  <2>. QED
    BY <2>2, <2>3, Typed, TypesNext DEF Leave
<1>. QED
  BY <1>1, <1>2, NoCall DEF Leave

LEMMA LeavesInv ==
    ASSUME RemoteInv, NEW a \in Attempts,
           GetAuthorizationUrl(a) \/ BuildLoginUrl(a) \/ BuildAuthnRequest(a)
    PROVE  RemoteInv'
<1>1. ASSUME NEW p \in conf.providers
      PROVE  ("authorize" \in endpoints[p]) \in BOOLEAN
  OBVIOUS
<1>2. CASE GetAuthorizationUrl(a)
  BY <1>1, <1>2, LeaveInv DEF GetAuthorizationUrl
<1>3. CASE BuildLoginUrl(a)
  BY <1>3, LeaveInv DEF BuildLoginUrl, Ready
<1>4. CASE BuildAuthnRequest(a)
  BY <1>4, LeaveInv DEF BuildAuthnRequest, Ready
<1>. QED
  BY <1>2, <1>3, <1>4

LEMMA ProviderAnswersInv ==
    ASSUME RemoteInv, NEW a \in Attempts, NEW u \in Users, ProviderAnswers(a, u)
    PROVE  RemoteInv'
<1>1. Grows /\ AskedOk'
  BY DEF ProviderAnswers, Grows, RemoteInv, RemoteTypes, AskedOk, Ready
<1>2. RemoteTypes'
  <2>1. answered' \in [Attempts -> Maybe(Users)]
    BY Typed DEF ProviderAnswers, Maybe
  <2>. QED
    BY <2>1, Typed, TypesNext DEF ProviderAnswers
<1>. QED
  BY <1>1, <1>2, NoCall DEF ProviderAnswers

LEMMA TickInv ==
    ASSUME RemoteInv, Tick
    PROVE  RemoteInv'
<1>1. Grows /\ AskedOk'
  BY DEF Tick, Grows, RemoteInv, RemoteTypes, AskedOk, Ready
<1>2. clock' \in Nat
  BY Typed DEF Tick
<1>3. RemoteTypes'
  BY <1>2, Typed, TypesNext DEF Tick
<1>. QED
  BY <1>1, <1>3, NoCall DEF Tick

-----------------------------------------------------------------------------
(* Coming back.                                                            *)

LEMMA CallTyped ==
    ASSUME RemoteInv, NEW k \in Calls
    PROVE  /\ call[k] \in CallState /\ session[k] \in SessionState
           /\ session \in [Calls -> SessionState] /\ CallOk(k)
BY DEF RemoteInv, RemoteTypes

LEMMA FreeFacts ==
    ASSUME NEW k \in Calls, Free(k)
    PROVE  call[k] = Idle /\ call[k].step = "idle"
BY DEF Free, Idle

(* A return that is refused, or given up.                                  *)
LEMMA RefusedInv ==
    ASSUME RemoteInv, NEW k \in Calls, call[k].step # "done",
           call' = [call EXCEPT ![k] = Refused],
           UNCHANGED <<conf, clock, endpoints, asked, answered, claims, session>>,
           states' \subseteq states, spent \subseteq spent'
    PROVE  RemoteInv'
<1>1. Refused \in CallState
  BY DEF Refused, Idle, CallState, Step, Maybe
<1>2. call'[k] = Refused
  BY DEF RemoteInv, RemoteTypes
<1>3. Refused.step = "refused" /\ ~Live(Refused) /\ ~Accept(Refused)
  BY DEF Refused, Idle, Live, Accept
<1>4. CallOk(k)'
  BY <1>2, <1>3, CallTyped DEF CallOk, ReturnOk, StepOk, AcceptOk, ClaimsOk, ClaimSet, SessionOk,
                    Live, Accept
<1>. QED
  BY <1>1, <1>3, <1>4, CallTyped, OneCall

LEMMA HandleErrorCallbackInv ==
    ASSUME RemoteInv, NEW k \in Calls, HandleErrorCallback(k)
    PROVE  RemoteInv'
BY FreeFacts, RefusedInv DEF HandleErrorCallback

LEMMA HandleCallbackInv ==
    ASSUME RemoteInv, NEW k \in Calls, NEW s \in Attempts, NEW c \in Attempts,
           HandleCallback(k, s, c)
    PROVE  RemoteInv'
<1>. DEFINE w == [Idle EXCEPT !.step = "token", !.state = s, !.code = c,
                              !.provider = asked[s].provider]
<1>1. /\ call[k].step = "idle" /\ Oidc
      /\ asked[s] # None /\ answered[c] # None
      /\ states' = states \ {s}
      /\ UNCHANGED <<conf, clock, endpoints, asked, answered, spent, claims, session>>
  BY FreeFacts DEF HandleCallback, Oidc, ConsumeState
<1>2. CASE s \in states /\ Fresh(s)
  <2>1. call' = [call EXCEPT ![k] = w]
    BY <1>2 DEF HandleCallback
  <2>2. /\ asked[s].provider \in conf.providers /\ answered[c] \in Users
    BY <1>1 DEF RemoteInv, RemoteTypes, Request, Maybe
  <2>3. w \in CallState
    BY <2>2 DEF CallState, Idle, Step, Maybe
  <2>4. /\ w.step = "token" /\ w.state = s /\ w.code = c /\ w.info = None
        /\ w.provider = asked[s].provider
    BY DEF Idle
  <2>. HIDE DEF w
  <2>5. call'[k] = w
    BY <2>1 DEF RemoteInv, RemoteTypes
  <2>6. CallOk(k)'
    BY <1>1, <2>2, <2>4, <2>5, CallTyped
       DEF CallOk, ReturnOk, StepOk, AcceptOk, ClaimsOk, ClaimSet, SessionOk, Live, Accept, Oidc
  <2>7. ~Accept(w)
    BY <2>4 DEF Accept
  <2>. QED
    BY <1>1, <1>2, <2>1, <2>3, <2>4, <2>6, <2>7, CallTyped, OneCall
<1>3. CASE ~(s \in states /\ Fresh(s))
  BY <1>1, <1>3, RefusedInv DEF HandleCallback
<1>. QED
  BY <1>2, <1>3

(* The next call of a return, with what it keeps.                          *)
LEMMA GoOn ==
    ASSUME RemoteInv, NEW k \in Calls, NEW w \in CallState, Live(call[k]),
           call' = [call EXCEPT ![k] = w],
           w.state = call[k].state, w.code = call[k].code,
           w.provider = call[k].provider, w.step # "done", call[k].step # "done",
           StepOk(w), AcceptOk(w)', ClaimsOk(w)',
           Accept(w) /\ conf.protocol = "cas" => w.code \notin spent,
           UNCHANGED <<conf, clock, endpoints, asked, states, answered, session>>,
           claims' = claims \/ claims' \in ClaimSet, spent \subseteq spent'
    PROVE  RemoteInv'
<1>1. call'[k] = w
  BY DEF RemoteInv, RemoteTypes
<1>2. CallOk(k) /\ session[k] = NoSession
  BY CallTyped DEF CallOk, SessionOk
<1>3. CallOk(k)'
  BY <1>1, <1>2 DEF CallOk, ReturnOk, StepOk, AcceptOk, ClaimsOk, ClaimSet, SessionOk, Live, Accept,
                    Oidc, NoSession
<1>. QED
  BY <1>3, CallTyped, OneCall

LEMMA TokenRequestInv ==
    ASSUME RemoteInv, NEW k \in Calls, TokenRequest(k)
    PROVE  RemoteInv'
<1>. DEFINE v == call[k]
            o == conf.options[v.provider]
<1>1. /\ Oidc /\ v.step = "token" /\ v \in CallState /\ CallOk(k)
      /\ v.info = None /\ Live(v)
  BY CallTyped DEF TokenRequest, Oidc, Live, CallOk, StepOk
<1>2. /\ UNCHANGED <<conf, clock, endpoints, asked, states, answered, claims, session>>
      /\ spent \subseteq spent'
  BY DEF TokenRequest
<1>3. CASE call' = [call EXCEPT ![k] = Refused]
  BY <1>1, <1>2, <1>3, RefusedInv
<1>4. CASE Redeems(k) /\ \E d \in Sent(k) : call' = [call EXCEPT ![k] = WithTokens(k, d)]
  <2>1. PICK d \in Sent(k) : call' = [call EXCEPT ![k] = WithTokens(k, d)]
    BY <1>4
  <2>2. /\ v.code \in Attempts /\ answered[v.code] \in Users
        /\ v.state \in Attempts
    BY <1>1 DEF CallOk, ReturnOk
  <2>3. d \in Attempts /\ answered[d] \in Users /\ (d = v.code \/ conf.confused)
    BY <2>2, Typed DEF Sent, Maybe
  <2>4. CASE ~NonceMatches(k, d)
    BY <1>1, <1>2, <2>1, <2>4, RefusedInv DEF WithTokens
  <2>5. CASE NonceMatches(k, d)
    <3>1. PICK w \in CallState :
             w = [v EXCEPT !.sub = answered[d],
                           !.step = IF o.userinfo THEN "userinfo" ELSE "authenticated"]
      <4>. DEFINE n == IF o.userinfo THEN "userinfo" ELSE "authenticated"
      <4>1. n \in Step
        BY DEF Step
      <4>. HIDE DEF n
      <4>2. [v EXCEPT !.sub = answered[d], !.step = n] \in CallState
        BY <1>1, <2>3, <4>1 DEF CallState, Maybe
      <4>. QED
        BY <4>2 DEF n
    <3>2. call' = [call EXCEPT ![k] = w]
      BY <2>1, <2>5, <3>1 DEF WithTokens
    <3>3. /\ w.step \in {"userinfo", "authenticated"} /\ w.sub = answered[d]
          /\ w.info = None /\ w.state = v.state /\ w.code = v.code
          /\ w.provider = v.provider
      BY <1>1, <3>1 DEF CallState
    <3>4. /\ d = v.state \/ (~o.nonce /\ (o.pkce => conf.confused))
          /\ Tied(v) /\ ~conf.confused => v.code = v.state
      BY <1>4, <2>3, <2>5 DEF NonceMatches, Redeems, Tied
    <3>5. AcceptOk(w)'
      BY <1>1, <1>2, <2>3, <3>3, <3>4 DEF AcceptOk, Tied, Oidc, Maybe
    <3>6. StepOk(w) /\ ClaimsOk(w)' /\ ~(conf.protocol = "cas")
      BY <1>1, <3>3 DEF StepOk, ClaimsOk, Oidc
    <3>. QED
      BY <1>1, <1>2, <3>2, <3>3, <3>5, <3>6, GoOn
  <2>. QED
    BY <2>4, <2>5
<1>. QED
  BY <1>3, <1>4 DEF TokenRequest

LEMMA GetUserInfoInv ==
    ASSUME RemoteInv, NEW k \in Calls, GetUserInfo(k)
    PROVE  RemoteInv'
<1>. DEFINE v == call[k]
<1>1. v.step = "userinfo" /\ v \in CallState /\ CallOk(k) /\ Live(v) /\ Accept(v)
  BY CallTyped DEF GetUserInfo, Live, Accept
<1>2. /\ v.code \in Attempts /\ answered[v.code] \in Users /\ Oidc
  BY <1>1 DEF CallOk, ReturnOk, StepOk
<1>3. PICK i \in {answered[d] : d \in Sent(k)} \cup {None} :
        call' = [call EXCEPT ![k].step = "authenticated", ![k].info = i]
  BY DEF GetUserInfo
<1>4. i \in Maybe(Users) /\ (~conf.confused => i \in {None, answered[v.code]})
  BY <1>2, <1>3, Typed DEF Sent, Maybe
<1>5. PICK w \in CallState : w = [v EXCEPT !.step = "authenticated", !.info = i]
  BY <1>1, <1>4 DEF CallState, Step
<1>6. call' = [call EXCEPT ![k] = w]
  BY <1>3, <1>5
<1>7. /\ w.step = "authenticated" /\ w.sub = v.sub /\ w.info = i
      /\ w.state = v.state /\ w.code = v.code /\ w.provider = v.provider
  BY <1>1, <1>5 DEF CallState
<1>8. UNCHANGED <<conf, clock, endpoints, asked, states, answered, spent, claims, session>>
  BY DEF GetUserInfo
<1>9. AcceptOk(w)'
  BY <1>1, <1>2, <1>4, <1>7, <1>8 DEF CallOk, AcceptOk, Tied, Accept, Oidc
<1>10. StepOk(w) /\ ClaimsOk(w)' /\ ~(conf.protocol = "cas")
  BY <1>2, <1>7 DEF StepOk, ClaimsOk, Oidc
<1>. QED
  BY <1>1, <1>6, <1>7, <1>8, <1>9, <1>10, GoOn

LEMMA SetOIDCClaimsInv ==
    ASSUME RemoteInv, NEW k \in Calls, SetOIDCClaims(k)
    PROVE  RemoteInv'
<1>. DEFINE v == call[k]
<1>1. /\ v.step = "authenticated" /\ v \in CallState /\ CallOk(k) /\ Oidc
      /\ Live(v) /\ Accept(v)
  BY CallTyped DEF SetOIDCClaims, Live, Accept, Oidc
<1>2. /\ claims' = [sub |-> v.sub, info |-> v.info, provider |-> v.provider]
      /\ UNCHANGED <<conf, clock, endpoints, asked, states, answered, spent, session>>
  BY DEF SetOIDCClaims
<1>3. PICK w \in CallState : w = [v EXCEPT !.step = "handed"]
  BY <1>1 DEF CallState, Step
<1>4. call' = [call EXCEPT ![k] = w]
  BY <1>3 DEF SetOIDCClaims
<1>5. /\ w.step = "handed" /\ w.sub = v.sub /\ w.info = v.info
      /\ w.state = v.state /\ w.code = v.code /\ w.provider = v.provider
  BY <1>1, <1>3 DEF CallState
<1>6. claims' \in ClaimSet /\ ClaimSet' = ClaimSet
  BY <1>1, <1>2 DEF CallState, ClaimSet
<1>7. AcceptOk(w)'
  BY <1>1, <1>2, <1>5 DEF CallOk, AcceptOk, Tied, Accept, Oidc
<1>8. StepOk(w) /\ ClaimsOk(w)' /\ ~(conf.protocol = "cas")
  BY <1>1, <1>5, <1>6 DEF StepOk, ClaimsOk, Oidc
<1>. QED
  BY <1>1, <1>2, <1>4, <1>5, <1>6, <1>7, <1>8, GoOn

LEMMA GetUserInv ==
    ASSUME RemoteInv, NEW k \in Calls, GetUser(k)
    PROVE  RemoteInv'
<1>. DEFINE v == call[k]
<1>1. /\ v.step = "handed" /\ v \in CallState /\ CallOk(k) /\ Live(v) /\ Accept(v)
      /\ Oidc /\ claims \in ClaimSet
  BY CallTyped DEF GetUser, Live, Accept, CallOk, StepOk, ClaimsOk
<1>2. Subject \in Maybe(Users)
  BY <1>1 DEF ClaimSet, Subject
<1>3. PICK w \in CallState : w = [v EXCEPT !.step = "loaded", !.uid = Subject]
  BY <1>1, <1>2 DEF CallState, Step
<1>4. call' = [call EXCEPT ![k] = w]
  BY <1>3 DEF GetUser
<1>5. /\ w.step = "loaded" /\ w.sub = v.sub /\ w.info = v.info
      /\ w.state = v.state /\ w.code = v.code /\ w.provider = v.provider
  BY <1>1, <1>3 DEF CallState
<1>6. UNCHANGED <<conf, clock, endpoints, asked, states, answered, spent, claims, session>>
  BY DEF GetUser
<1>7. AcceptOk(w)' /\ StepOk(w) /\ ~(conf.protocol = "cas")
  BY <1>1, <1>5, <1>6 DEF CallOk, AcceptOk, Tied, StepOk, Accept, Oidc
<1>8. ClaimsOk(w)'
  BY <1>1, <1>6 DEF ClaimsOk, ClaimSet
<1>. QED
  BY <1>1, <1>4, <1>5, <1>6, <1>7, <1>8, GoOn

(* A session is opened.                                                    *)
LEMMA OpenedInv ==
    ASSUME RemoteInv, NEW k \in Calls, NEW s \in SessionState, Opened(k, s),
           Live(call[k]), Accept(call[k]), call[k].step # "done"
    PROVE  RemoteInv'
<1>. DEFINE v == call[k]
<1>1. v \in CallState /\ CallOk(k)
  BY CallTyped
<1>2. PICK w \in CallState : w = [v EXCEPT !.step = "done"]
  BY <1>1 DEF CallState, Step
<1>3. /\ call' = [call EXCEPT ![k] = w] /\ session' = [session EXCEPT ![k] = s]
      /\ UNCHANGED <<conf, clock, endpoints, asked, states, answered, spent, claims>>
  BY <1>2 DEF Opened
<1>4. /\ w.step = "done" /\ w.sub = v.sub /\ w.info = v.info
      /\ w.state = v.state /\ w.code = v.code /\ w.provider = v.provider
  BY <1>1, <1>2 DEF CallState
<1>5. /\ session' \in [Calls -> SessionState] /\ session'[k] = s
      /\ \A j \in Calls \ {k} : session'[j] = session[j]
  BY <1>3, CallTyped
<1>6. call'[k] = w
  BY <1>3 DEF RemoteInv, RemoteTypes
<1>7. ReturnOk(call[k])' /\ StepOk(call[k])' /\ ClaimsOk(call[k])'
  BY <1>1, <1>3, <1>4, <1>6 DEF CallOk, ReturnOk, StepOk, ClaimsOk, Live, Oidc
<1>8. AcceptOk(call[k])'
  BY <1>1, <1>3, <1>4, <1>6 DEF CallOk, AcceptOk, Tied, Accept, Oidc
<1>9. SessionOk(call[k], session[k])'
  BY <1>3, <1>4, <1>5, <1>6 DEF SessionOk, Oidc
<1>10. CallOk(k)'
  BY <1>7, <1>8, <1>9 DEF CallOk
<1>. QED
  BY <1>3, <1>4, <1>5, <1>10, OneCall

LEMMA SetSessionInfoInv ==
    ASSUME RemoteInv, NEW k \in Calls, SetSessionInfo(k)
    PROVE  RemoteInv'
<1>. DEFINE v == call[k]
<1>1. /\ v.step = "loaded" /\ v \in CallState /\ CallOk(k) /\ Live(v) /\ Accept(v)
      /\ claims \in ClaimSet
  BY CallTyped DEF SetSessionInfo, Live, Accept, CallOk, ClaimsOk
<1>2. /\ v.uid \in Maybe(Users) /\ Subject \in Maybe(Users)
      /\ claims.provider \in Maybe(conf.providers)
  BY <1>1 DEF CallState, ClaimSet, Subject
<1>3. PICK s \in SessionState :
        s = [uid |-> v.uid, user |-> v.uid, oidcSub |-> Subject,
             provider |-> claims.provider, open |-> TRUE]
  BY <1>2 DEF SessionState
<1>4. Opened(k, s)
  BY <1>3 DEF SetSessionInfo
<1>. QED
  BY <1>1, <1>4, OpenedInv

LEMMA OpenSessionInv ==
    ASSUME RemoteInv, NEW k \in Calls, OpenSession(k)
    PROVE  RemoteInv'
<1>. DEFINE v == call[k]
<1>1. /\ v.step = "authenticated" /\ v \in CallState /\ Live(v) /\ Accept(v)
      /\ ~Oidc
  BY CallTyped DEF OpenSession, Live, Accept, Oidc
<1>2. PICK s \in SessionState :
        s = [NoSession EXCEPT !.uid = v.sub, !.user = v.sub, !.provider = v.provider,
                              !.open = TRUE]
  BY <1>1 DEF CallState, SessionState, NoSession, Maybe
<1>. QED
  BY <1>1, <1>2, OpenedInv DEF OpenSession

LEMMA AuthenticateTicketInv ==
    ASSUME RemoteInv, NEW k \in Calls, NEW c \in Attempts, AuthenticateTicket(k, c)
    PROVE  RemoteInv'
<1>1. /\ call[k].step = "idle" /\ conf.protocol = "cas" /\ ~Oidc
      /\ answered[c] # None
      /\ UNCHANGED <<conf, clock, endpoints, asked, states, answered, spent, claims, session>>
  BY FreeFacts DEF AuthenticateTicket, Oidc
<1>2. CASE call' = [call EXCEPT ![k] = Refused]
  BY <1>1, <1>2, RefusedInv
<1>3. ASSUME NEW p \in conf.providers,
             call' = [call EXCEPT ![k] = [Idle EXCEPT !.step = "validate", !.code = c,
                                                      !.provider = p]]
      PROVE  RemoteInv'
  <2>1. PICK w \in CallState :
          w = [Idle EXCEPT !.step = "validate", !.code = c, !.provider = p]
    BY DEF CallState, Idle, Step, Maybe
  <2>2. /\ w.step = "validate" /\ w.code = c /\ w.provider = p /\ w.info = None
        /\ ~Accept(w)
    BY <2>1 DEF Idle, Accept
  <2>3. call'[k] = w
    BY <1>3, <2>1 DEF RemoteInv, RemoteTypes
  <2>4. answered[c] \in Users
    BY <1>1, Typed DEF Maybe
  <2>5. CallOk(k)'
    BY <1>1, <2>2, <2>3, <2>4, CallTyped
       DEF CallOk, ReturnOk, StepOk, AcceptOk, ClaimsOk, SessionOk, Live, Accept, Oidc
  <2>. QED
    BY <1>1, <1>3, <2>1, <2>2, <2>5, CallTyped, OneCall
<1>. QED
  BY <1>2, <1>3 DEF AuthenticateTicket

LEMMA ValidateTicketInv ==
    ASSUME RemoteInv, NEW k \in Calls, ValidateTicket(k)
    PROVE  RemoteInv'
<1>. DEFINE v == call[k]
            c == call[k].code
<1>1. /\ v.step = "validate" /\ v \in CallState /\ CallOk(k) /\ Live(v)
      /\ conf.protocol = "cas" /\ ~Oidc
  BY CallTyped DEF ValidateTicket, Live, Oidc
<1>2. /\ UNCHANGED <<conf, clock, endpoints, asked, states, answered, claims, session>>
      /\ spent \subseteq spent'
  BY DEF ValidateTicket
<1>3. CASE call' = [call EXCEPT ![k] = Refused]
  BY <1>1, <1>2, <1>3, RefusedInv
<1>4. CASE /\ call' = [call EXCEPT ![k] = [@ EXCEPT !.step = "authenticated",
                                                    !.sub = answered[c]]]
           /\ TicketValid(k)
           /\ spent' = spent \cup {c}
  <2>1. c \in Attempts /\ answered[c] \in Users
    BY <1>1 DEF CallOk, ReturnOk
  <2>2. PICK w \in CallState :
          w = [v EXCEPT !.step = "authenticated", !.sub = answered[c]]
    BY <1>1, <2>1 DEF CallState, Step, Maybe
  <2>3. call' = [call EXCEPT ![k] = w] /\ call'[k] = w
    BY <1>4, <2>2 DEF RemoteInv, RemoteTypes
  <2>4. /\ w.step = "authenticated" /\ w.sub = answered[c] /\ w.info = v.info
        /\ w.state = v.state /\ w.code = v.code /\ w.provider = v.provider
    BY <1>1, <2>2 DEF CallState
  <2>5. c \notin spent /\ c \in spent'
    BY <1>4 DEF TicketValid
  <2>6. AcceptOk(w)' /\ StepOk(w) /\ ClaimsOk(w)'
    BY <1>1, <1>2, <2>1, <2>4, <2>5 DEF CallOk, AcceptOk, StepOk, ClaimsOk, Oidc, Maybe
  <2>. QED
    BY <1>1, <1>2, <2>3, <2>4, <2>5, <2>6, GoOn
<1>. QED
  BY <1>3, <1>4 DEF ValidateTicket, TicketValid

LEMMA AuthenticateAssertionInv ==
    ASSUME RemoteInv, NEW k \in Calls, NEW c \in Attempts, AuthenticateAssertion(k, c)
    PROVE  RemoteInv'
<1>1. /\ call[k].step = "idle" /\ conf.protocol = "saml" /\ ~Oidc
      /\ answered[c] # None /\ states' \subseteq states
      /\ UNCHANGED <<conf, clock, endpoints, asked, answered, spent, claims, session>>
  BY FreeFacts DEF AuthenticateAssertion, Oidc, ConsumeState
<1>2. CASE call' = [call EXCEPT ![k] = Refused]
  BY <1>1, <1>2, RefusedInv
<1>3. CASE call' = [call EXCEPT ![k] =
                      [Idle EXCEPT !.step = "authenticated", !.code = c,
                                   !.provider = asked[c].provider,
                                   !.sub = answered[c]]]
  <2>1. /\ asked[c] # None /\ asked[c].provider \in conf.providers
        /\ answered[c] \in Users
    BY <1>1, Typed DEF RemoteInv, AskedOk, Maybe, Request
  <2>2. PICK w \in CallState :
          w = [Idle EXCEPT !.step = "authenticated", !.code = c,
                           !.provider = asked[c].provider, !.sub = answered[c]]
    BY <2>1 DEF CallState, Idle, Step, Maybe
  <2>3. /\ w.step = "authenticated" /\ w.code = c /\ w.sub = answered[c]
        /\ w.provider = asked[c].provider /\ w.info = None
    BY <2>2 DEF Idle
  <2>4. call'[k] = w
    BY <1>3, <2>2 DEF RemoteInv, RemoteTypes
  <2>5. CallOk(k)'
    BY <1>1, <2>1, <2>3, <2>4, CallTyped
       DEF CallOk, ReturnOk, StepOk, AcceptOk, ClaimsOk, SessionOk, Live, Accept, Oidc,
           Maybe
  <2>. QED
    BY <1>1, <1>3, <2>2, <2>3, <2>5, CallTyped, OneCall DEF Oidc
<1>. QED
  BY <1>2, <1>3 DEF AuthenticateAssertion

(* Logging out changes whether a session is open, and nothing of a login.  *)
LEMMA LogoutInv ==
    ASSUME RemoteInv, NEW k \in Calls, Logout(k)
    PROVE  RemoteInv'
<1>. DEFINE s == session[k]
<1>1. /\ s.open /\ UNCHANGED <<conf, clock, endpoints, asked, states, answered, spent,
                               call, claims>>
      /\ session' = [session EXCEPT ![k].open = FALSE]
  BY DEF Logout
<1>2. PICK w \in SessionState : w = [s EXCEPT !.open = FALSE]
  BY CallTyped DEF SessionState
<1>3. session' = [session EXCEPT ![k] = w]
  BY <1>1, <1>2
<1>4. /\ session' \in [Calls -> SessionState]
      /\ \A j \in Calls \ {k} : session'[j] = session[j]
  BY <1>3, CallTyped
<1>5. call[k].step = "done"
  BY <1>1, CallTyped DEF CallOk, SessionOk, NoSession
<1>6. CallOk(k)'
  BY <1>1, <1>5, CallTyped
     DEF CallOk, ReturnOk, StepOk, AcceptOk, Tied, ClaimsOk, SessionOk, Live, Accept,
         Oidc
<1>7. call' = [call EXCEPT ![k] = call[k]]
  BY <1>1 DEF RemoteInv, RemoteTypes
<1>. QED
  BY <1>1, <1>4, <1>6, <1>7, CallTyped, OneCall DEF CallOk, ReturnOk, AcceptOk

-----------------------------------------------------------------------------
LEMMA RemoteInitInv ==
    ASSUME RemoteInit
    PROVE  RemoteInv
<1>1. Idle \in CallState /\ Idle.step = "idle"
  BY DEF Idle, CallState, Step, Maybe
<1>2. NoSession \in SessionState
  BY DEF NoSession, SessionState, Maybe
<1>3. RemoteTypes
  BY <1>1, <1>2, RemoteAssumption DEF RemoteInit, RemoteTypes, Maybe
<1>4. \A k \in Calls : CallOk(k)
  BY <1>1 DEF RemoteInit, CallOk, ReturnOk, StepOk, AcceptOk, ClaimsOk, SessionOk, Live,
              Accept
<1>. QED
  BY <1>1, <1>3, <1>4 DEF RemoteInit, RemoteInv, AskedOk, AllApart, Apart, Live, Accept

LEMMA RemoteNextInv ==
    ASSUME RemoteInv, RemoteNext
    PROVE  RemoteInv'
<1>1. CASE \E p \in conf.providers : InitOP(p)
  BY <1>1, InitOPInv
<1>2. CASE \E a \in Attempts : \/ GetAuthorizationUrl(a)
                               \/ BuildLoginUrl(a)
                               \/ BuildAuthnRequest(a)
                               \/ \E u \in Users : ProviderAnswers(a, u)
  BY <1>2, LeavesInv, ProviderAnswersInv
<1>3. ASSUME NEW k \in Calls,
             \/ HandleErrorCallback(k)
             \/ \E s, c \in Attempts : HandleCallback(k, s, c)
             \/ TokenRequest(k)
             \/ GetUserInfo(k)
             \/ SetOIDCClaims(k)
             \/ GetUser(k)
             \/ SetSessionInfo(k)
      PROVE  RemoteInv'
  BY <1>3, HandleErrorCallbackInv, HandleCallbackInv, TokenRequestInv, GetUserInfoInv,
     SetOIDCClaimsInv, GetUserInv, SetSessionInfoInv
<1>4. ASSUME NEW k \in Calls,
             \/ \E c \in Attempts : AuthenticateTicket(k, c)
             \/ ValidateTicket(k)
             \/ OpenSession(k)
             \/ \E c \in Attempts : AuthenticateAssertion(k, c)
      PROVE  RemoteInv'
  BY <1>4, AuthenticateTicketInv, ValidateTicketInv, OpenSessionInv,
     AuthenticateAssertionInv
<1>5. CASE Tick
  BY <1>5, TickInv
<1>. QED
  BY <1>1, <1>2, <1>3, <1>4, <1>5 DEF RemoteNext


-----------------------------------------------------------------------------
(* What the portal and the issuer keep of a session.                       *)

SsoState ==
    [step : {"idle", "asked", "built", "identified"}, sp : Maybe(conf.sps),
     session : Maybe(Calls), user : Maybe(Users), dump : SUBSET conf.sps]

SamlState == SUBSET conf.sps

IssuerTypes ==
    /\ sso \in [Slots -> SsoState]
    /\ saml \in [Calls -> SamlState]
    /\ slo \in [Calls -> Maybe(conf.sps)]

SentTo(k) == {a.sp : a \in {b \in asserted : b.session = k}}

Builds(o) == sso[o].step \in {"built", "identified"}

(* Assertions are for sessions that were opened.                           *)
ServedOk ==
    /\ \A o \in Slots : sso[o].step # "idle" =>
         /\ sso[o].sp \in conf.sps
         /\ sso[o].session \in Calls /\ call[sso[o].session].step = "done"
    /\ \A k \in Calls : SentTo(k) # {} => call[k].step = "done"

(* Whom a logout would find in a lasso session, stored or being built.     *)
Covers(k, dump) == \A sp \in SentTo(k) : sp \in dump \/ <<k, sp>> \in overlapped

BuiltOk(o) ==
    Builds(o) =>
        /\ sso[o].sp \in sso[o].dump
        /\ sso[o].dump \subseteq SentTo(sso[o].session) \cup {sso[o].sp}
        /\ Covers(sso[o].session, sso[o].dump)

StoredOk(k) ==
    /\ saml[k] \subseteq SentTo(k)
    /\ Covers(k, saml[k])
    /\ slo[k] # None => slo[k] \in SentTo(k)

OverlapOk ==
    \A o, i \in Slots :
        o # i /\ Builds(o) /\ Builds(i) /\ sso[o].session = sso[i].session =>
            <<sso[o].session, sso[o].sp>> \in overlapped

IssuerInv ==
    /\ IssuerTypes
    /\ ServedOk
    /\ \A o \in Slots : BuiltOk(o)
    /\ OverlapOk
    /\ \A k \in Calls : StoredOk(k)

(* A login that is done is left alone by the others.                       *)
LeavesOpened ==
    /\ conf' = conf
    /\ \A k \in Calls : call[k].step = "done" => call'[k] = call[k]

LEMMA ServesOne ==
    ASSUME conf' = conf, call \in [Calls -> CallState],
           NEW j \in Calls, call[j].step # "done", NEW w,
           call' = [call EXCEPT ![j] = w]
    PROVE  LeavesOpened
BY DEF LeavesOpened

LEMMA RemoteKeeps ==
    ASSUME RemoteInv, RemoteNext
    PROVE  LeavesOpened
<1>0. call \in [Calls -> CallState]
  BY DEF RemoteInv, RemoteTypes
<1>1. ASSUME NEW p \in conf.providers, InitOP(p)
      PROVE  LeavesOpened
  BY <1>1 DEF InitOP, LeavesOpened
<1>2. ASSUME NEW a \in Attempts,
             \/ GetAuthorizationUrl(a)
             \/ BuildLoginUrl(a)
             \/ BuildAuthnRequest(a)
             \/ \E u \in Users : ProviderAnswers(a, u)
      PROVE  LeavesOpened
  <2>1. UNCHANGED <<conf, call>>
    BY <1>2 DEF GetAuthorizationUrl, BuildLoginUrl, BuildAuthnRequest, ProviderAnswers,
                Leave
  <2>. QED
    BY <2>1 DEF LeavesOpened
<1>3. ASSUME NEW j \in Calls, HandleErrorCallback(j)
      PROVE  LeavesOpened
  BY <1>0, <1>3, FreeFacts, ServesOne DEF HandleErrorCallback
<1>4. ASSUME NEW j \in Calls, NEW s \in Attempts, NEW c \in Attempts,
             HandleCallback(j, s, c)
      PROVE  LeavesOpened
  BY <1>0, <1>4, FreeFacts, ServesOne DEF HandleCallback
<1>5. ASSUME NEW j \in Calls, NEW c \in Attempts,
             AuthenticateTicket(j, c) \/ AuthenticateAssertion(j, c)
      PROVE  LeavesOpened
  BY <1>0, <1>5, FreeFacts, ServesOne DEF AuthenticateTicket, AuthenticateAssertion
<1>6. ASSUME NEW j \in Calls, TokenRequest(j)
      PROVE  LeavesOpened
  BY <1>0, <1>6, ServesOne DEF TokenRequest
<1>7. ASSUME NEW j \in Calls,
             GetUserInfo(j) \/ SetOIDCClaims(j) \/ GetUser(j) \/ ValidateTicket(j)
      PROVE  LeavesOpened
  <2>1. /\ conf' = conf /\ call[j].step # "done"
        /\ \A k \in Calls \ {j} : call'[k] = call[k]
    <3>1. CASE GetUserInfo(j)
      BY <1>0, <3>1 DEF GetUserInfo
    <3>2. CASE SetOIDCClaims(j)
      BY <1>0, <3>2 DEF SetOIDCClaims
    <3>3. CASE GetUser(j)
      BY <1>0, <3>3 DEF GetUser
    <3>4. CASE ValidateTicket(j)
      BY <1>0, <3>4 DEF ValidateTicket
    <3>. QED
      BY <1>7, <3>1, <3>2, <3>3, <3>4
  <2>. QED
    BY <2>1 DEF LeavesOpened
<1>8. ASSUME NEW j \in Calls, SetSessionInfo(j) \/ OpenSession(j)
      PROVE  LeavesOpened
  <2>1. /\ conf' = conf /\ call[j].step # "done"
        /\ \A k \in Calls \ {j} : call'[k] = call[k]
    BY <1>0, <1>8 DEF SetSessionInfo, OpenSession, Opened
  <2>. QED
    BY <2>1 DEF LeavesOpened
<1>9. ASSUME Tick
      PROVE  LeavesOpened
  BY <1>9 DEF Tick, LeavesOpened
<1>. QED
  BY <1>1, <1>2, <1>3, <1>4, <1>5, <1>6, <1>7, <1>8, <1>9
     DEF RemoteNext

LEMMA RemoteIssuerInv ==
    ASSUME RemoteInv, IssuerInv, Remote
    PROVE  IssuerInv'
<1>1. UNCHANGED <<sso, saml, asserted, overlapped, slo>>
  BY DEF Remote, issuerVars
<1>2. conf' = conf /\ \A k \in Calls : call[k].step = "done" => call'[k] = call[k]
  BY RemoteKeeps DEF Remote, LeavesOpened
<1>3. \A k : SentTo(k)' = SentTo(k)
  BY <1>1 DEF SentTo
<1>4. IssuerTypes' /\ OverlapOk'
  BY <1>1, <1>2 DEF IssuerInv, IssuerTypes, SsoState, SamlState, OverlapOk, Builds
<1>5. ServedOk'
  BY <1>1, <1>2, <1>3 DEF IssuerInv, ServedOk
<1>6. (\A o \in Slots : BuiltOk(o))' /\ (\A k \in Calls : StoredOk(k))'
  BY <1>1, <1>3 DEF IssuerInv, BuiltOk, Builds, StoredOk, Covers
<1>. QED
  BY <1>4, <1>5, <1>6 DEF IssuerInv

-----------------------------------------------------------------------------
(* The steps of the issuer.                                                *)

LEMMA IssuerTyped ==
    ASSUME IssuerInv
    PROVE  /\ sso \in [Slots -> SsoState] /\ saml \in [Calls -> SamlState]
           /\ slo \in [Calls -> Maybe(conf.sps)]
           /\ \A o \in Slots : BuiltOk(o)
           /\ \A k \in Calls : StoredOk(k)
BY DEF IssuerInv, IssuerTypes

LEMMA ServerInv ==
    ASSUME IssuerInv, UNCHANGED remoteVars, InitServer \/ Shutdown
    PROVE  IssuerInv'
<1>1. UNCHANGED <<sso, saml, asserted, overlapped, slo>>
  BY DEF InitServer, Shutdown
<1>2. \A k : SentTo(k)' = SentTo(k)
  BY <1>1 DEF SentTo
<1>. QED
  BY <1>1, <1>2
     DEF remoteVars, IssuerInv, IssuerTypes, ServedOk, BuiltOk, Builds, OverlapOk,
         StoredOk, Covers, SsoState, SamlState

LEMMA ProcessAuthnRequestInv ==
    ASSUME RemoteInv, IssuerInv, UNCHANGED remoteVars, NEW o \in Slots,
           NEW sp \in conf.sps, NEW k \in Calls, ProcessAuthnRequest(o, sp, k)
    PROVE  IssuerInv'
<1>1. UNCHANGED <<conf, call, session, endpoints, saml, asserted, overlapped, slo>>
  BY DEF remoteVars, ProcessAuthnRequest
<1>2. \A j : SentTo(j)' = SentTo(j)
  BY <1>1 DEF SentTo
<1>3. call[k].step = "done" /\ session[k].user \in Maybe(Users)
  BY CallTyped DEF ProcessAuthnRequest, HasSession, CallOk, SessionOk, NoSession,
                   SessionState
<1>4. PICK w \in SsoState : /\ w = [step |-> "asked", sp |-> sp, session |-> k,
                                   user |-> NameIdValue(k), dump |-> {}]
                            /\ sso' = [sso EXCEPT ![o] = w]
  BY <1>3 DEF ProcessAuthnRequest, SsoState, NameIdValue, Maybe
<1>5. w.step = "asked" /\ w.sp = sp /\ w.session = k
  BY <1>4
<1>6. /\ sso' \in [Slots -> SsoState] /\ sso'[o] = w
      /\ \A i \in Slots \ {o} : sso'[i] = sso[i]
  BY <1>4, IssuerTyped
<1>7. IssuerTypes'
  BY <1>1, <1>6 DEF IssuerInv, IssuerTypes, SsoState, SamlState
<1>8. ServedOk'
  BY <1>1, <1>2, <1>3, <1>5, <1>6 DEF IssuerInv, ServedOk
<1>9. (\A i \in Slots : BuiltOk(i))' /\ OverlapOk'
  BY <1>1, <1>2, <1>5, <1>6 DEF IssuerInv, BuiltOk, Builds, OverlapOk, Covers
<1>10. (\A j \in Calls : StoredOk(j))'
  BY <1>1, <1>2 DEF IssuerInv, StoredOk, Covers
<1>. QED
  BY <1>7, <1>8, <1>9, <1>10 DEF IssuerInv

LEMMA BuildAssertionInv ==
    ASSUME IssuerInv, UNCHANGED remoteVars, NEW o \in Slots, BuildAssertion(o)
    PROVE  IssuerInv'
<1>. DEFINE k == sso[o].session
<1>1. /\ UNCHANGED <<conf, call, session, endpoints, saml, asserted, slo>>
      /\ overlapped \subseteq overlapped' /\ sso[o].step = "asked"
  BY DEF remoteVars, BuildAssertion
<1>2. \A j : SentTo(j)' = SentTo(j)
  BY <1>1 DEF SentTo
<1>3. /\ sso[o] \in SsoState /\ k \in Calls /\ sso[o].sp \in conf.sps
      /\ saml[k] \in SamlState /\ StoredOk(k)
  BY <1>1, IssuerTyped DEF IssuerInv, ServedOk
<1>4. PICK w \in SsoState :
        /\ w = [sso[o] EXCEPT !.step = "built", !.dump = saml[k] \cup {sso[o].sp}]
        /\ sso' = [sso EXCEPT ![o] = w]
  <2>1. [sso[o] EXCEPT !.step = "built", !.dump = saml[k] \cup {sso[o].sp}]
          \in SsoState
    BY <1>3 DEF SsoState, SamlState
  <2>. QED
    BY <2>1 DEF BuildAssertion, Restored
<1>5. /\ w.step = "built" /\ w.sp = sso[o].sp /\ w.session = k
      /\ w.dump = saml[k] \cup {sso[o].sp}
  BY <1>3, <1>4 DEF SsoState
<1>6. /\ sso' \in [Slots -> SsoState] /\ sso'[o] = w
      /\ \A i \in Slots \ {o} : sso'[i] = sso[i]
  BY <1>4, IssuerTyped
<1>7. IssuerTypes'
  BY <1>1, <1>6 DEF IssuerInv, IssuerTypes, SsoState, SamlState
<1>8. ServedOk'
  BY <1>1, <1>2, <1>5, <1>6 DEF IssuerInv, ServedOk
<1>9. BuiltOk(o)'
  BY <1>1, <1>2, <1>3, <1>5, <1>6 DEF BuiltOk, Covers, StoredOk
<1>10. ASSUME NEW i \in Slots \ {o} PROVE BuiltOk(i)'
  BY <1>1, <1>2, <1>6 DEF IssuerInv, BuiltOk, Builds, Covers
<1>11. OverlapOk'
  <2>1. \A i \in Building(k) : <<k, sso[i].sp>> \in overlapped'
    BY DEF BuildAssertion
  <2>2. Building(k) # {} => <<k, sso[o].sp>> \in overlapped'
    BY DEF BuildAssertion
  <2>3. \A i \in Slots : i \in Building(k) <=> Builds(i) /\ sso[i].session = k
    BY DEF Building, Builds
  <2>. QED
    BY <1>1, <1>5, <1>6, <2>1, <2>2, <2>3 DEF IssuerInv, OverlapOk, Builds
<1>12. (\A j \in Calls : StoredOk(j))'
  BY <1>1, <1>2 DEF IssuerInv, StoredOk, Covers
<1>. QED
  BY <1>7, <1>8, <1>9, <1>10, <1>11, <1>12 DEF IssuerInv

LEMMA StoreIdentityInv ==
    ASSUME IssuerInv, UNCHANGED remoteVars, NEW o \in Slots, StoreIdentity(o)
    PROVE  IssuerInv'
<1>1. /\ UNCHANGED <<conf, call, session, endpoints, saml, asserted, overlapped, slo>>
      /\ sso[o].step = "built"
  BY DEF remoteVars, StoreIdentity
<1>2. \A j : SentTo(j)' = SentTo(j)
  BY <1>1 DEF SentTo
<1>3. sso[o] \in SsoState
  BY IssuerTyped
<1>4. PICK w \in SsoState : /\ w = [sso[o] EXCEPT !.step = "identified"]
                            /\ sso' = [sso EXCEPT ![o] = w]
  BY <1>3 DEF StoreIdentity, SsoState
<1>5. /\ w.step = "identified" /\ w.sp = sso[o].sp /\ w.session = sso[o].session
      /\ w.dump = sso[o].dump
  BY <1>3, <1>4 DEF SsoState
<1>6. /\ sso' \in [Slots -> SsoState] /\ sso'[o] = w
      /\ \A i \in Slots \ {o} : sso'[i] = sso[i]
  BY <1>4, IssuerTyped
<1>7. IssuerTypes'
  BY <1>1, <1>6 DEF IssuerInv, IssuerTypes, SsoState, SamlState
<1>8. ServedOk'
  BY <1>1, <1>2, <1>5, <1>6 DEF IssuerInv, ServedOk
<1>9. ASSUME NEW i \in Slots
      PROVE  /\ sso'[i].sp = sso[i].sp /\ sso'[i].session = sso[i].session
             /\ sso'[i].dump = sso[i].dump /\ Builds(i)' = Builds(i)
  BY <1>1, <1>5, <1>6 DEF Builds
<1>10. (\A i \in Slots : BuiltOk(i))' /\ OverlapOk'
  BY <1>1, <1>2, <1>9 DEF IssuerInv, BuiltOk, OverlapOk, Covers
<1>11. (\A j \in Calls : StoredOk(j))'
  BY <1>1, <1>2 DEF IssuerInv, StoredOk, Covers
<1>. QED
  BY <1>7, <1>8, <1>10, <1>11 DEF IssuerInv

LEMMA StoreSAMLSessionInv ==
    ASSUME IssuerInv, UNCHANGED remoteVars, NEW o \in Slots, StoreSAMLSession(o)
    PROVE  IssuerInv'
<1>0. PICK k \in Calls : k = sso[o].session
  BY DEF StoreSAMLSession, IssuerInv, ServedOk
<1>. DEFINE a == [session |-> k, sp |-> sso[o].sp, user |-> sso[o].user]
<1>1. /\ UNCHANGED <<conf, call, session, endpoints, overlapped, slo>>
      /\ sso[o].step = "identified" /\ asserted' = asserted \cup {a}
      /\ saml' = [saml EXCEPT ![k] = sso[o].dump]
      /\ sso' = [sso EXCEPT ![o] = NoSso]
  BY <1>0 DEF remoteVars, StoreSAMLSession
<1>2. /\ sso[o] \in SsoState /\ sso[o].session = k /\ sso[o].sp \in conf.sps /\ BuiltOk(o)
      /\ call[k].step = "done" /\ Builds(o)
  BY <1>0, <1>1, IssuerTyped DEF IssuerInv, ServedOk, Builds
<1>3. SentTo(k)' = SentTo(k) \cup {sso[o].sp}
  <2>1. \A x : x \in SentTo(k) <=> \E b \in asserted : b.session = k /\ x = b.sp
    BY DEF SentTo
  <2>2. \A x : x \in SentTo(k)' <=> \E b \in asserted' : b.session = k /\ x = b.sp
    BY DEF SentTo
  <2>3. a.session = k /\ a.sp = sso[o].sp
    OBVIOUS
  <2>. HIDE DEF a
  <2>4. \A x : x \in SentTo(k)' <=> x \in SentTo(k) \/ x = sso[o].sp
    BY <1>1, <2>1, <2>2, <2>3
  <2>. QED
    BY <2>4
<1>4. \A j : j # k => SentTo(j)' = SentTo(j)
  BY <1>1 DEF SentTo
<1>5. /\ sso' \in [Slots -> SsoState] /\ sso'[o] = NoSso /\ NoSso.step = "idle"
      /\ \A i \in Slots \ {o} : sso'[i] = sso[i]
  BY <1>1, IssuerTyped DEF NoSso, SsoState, Maybe
<1>6. /\ saml' \in [Calls -> SamlState] /\ saml'[k] = sso[o].dump
      /\ \A j \in Calls \ {k} : saml'[j] = saml[j]
  BY <1>1, <1>2, IssuerTyped DEF SsoState, SamlState, Maybe
<1>7. IssuerTypes'
  BY <1>1, <1>5, <1>6 DEF IssuerInv, IssuerTypes, SsoState, SamlState
<1>8. ServedOk'
  BY <1>1, <1>2, <1>4, <1>5 DEF IssuerInv, ServedOk
<1>9. ASSUME NEW i \in Slots PROVE BuiltOk(i)'
  <2>1. CASE i = o
    BY <1>5, <2>1 DEF BuiltOk, Builds
  <2>2. CASE i # o /\ sso[i].session = k /\ Builds(i)
    <3>1. <<k, sso[o].sp>> \in overlapped
      BY <1>2, <2>2 DEF IssuerInv, OverlapOk
    <3>2. BuiltOk(i) /\ sso'[i] = sso[i]
      BY <1>5, <2>2, IssuerTyped
    <3>. QED
      BY <1>1, <1>3, <2>2, <3>1, <3>2 DEF BuiltOk, Covers
  <2>3. CASE i # o /\ ~(sso[i].session = k /\ Builds(i))
    <3>1. BuiltOk(i) /\ sso'[i] = sso[i]
      BY <1>5, <2>3, IssuerTyped
    <3>. QED
      BY <1>1, <1>4, <2>3, <3>1 DEF BuiltOk, Builds, Covers
  <2>. QED
    BY <2>1, <2>2, <2>3
<1>10. OverlapOk'
  BY <1>1, <1>5 DEF IssuerInv, OverlapOk, Builds
<1>11. ASSUME NEW j \in Calls PROVE StoredOk(j)'
  <2>1. CASE j = k
    BY <1>1, <1>2, <1>3, <1>6, <2>1, IssuerTyped DEF StoredOk, BuiltOk, Covers
  <2>2. CASE j # k
    BY <1>1, <1>4, <1>6, <2>2, IssuerTyped DEF StoredOk, Covers
  <2>. QED
    BY <2>1, <2>2
<1>. QED
  BY <1>7, <1>8, <1>9, <1>10, <1>11 DEF IssuerInv

LEMMA InitiateLogoutInv ==
    ASSUME IssuerInv, UNCHANGED remoteVars, NEW k \in Calls, InitiateLogout(k)
    PROVE  IssuerInv'
<1>1. UNCHANGED <<conf, call, session, endpoints, sso, saml, asserted, overlapped>>
  BY DEF remoteVars, InitiateLogout
<1>2. \A j : SentTo(j)' = SentTo(j)
  BY <1>1 DEF SentTo
<1>3. PICK sp \in saml[k] : slo' = [slo EXCEPT ![k] = sp]
  BY DEF InitiateLogout
<1>4. sp \in SentTo(k) /\ sp \in conf.sps
  BY IssuerTyped DEF StoredOk, SamlState
<1>5. /\ slo' \in [Calls -> Maybe(conf.sps)] /\ slo'[k] = sp
      /\ \A j \in Calls \ {k} : slo'[j] = slo[j]
  BY <1>3, <1>4, IssuerTyped DEF Maybe
<1>6. IssuerTypes'
  BY <1>1, <1>5 DEF IssuerInv, IssuerTypes, SsoState, SamlState
<1>7. ServedOk' /\ (\A o \in Slots : BuiltOk(o))' /\ OverlapOk'
  BY <1>1, <1>2 DEF IssuerInv, ServedOk, BuiltOk, Builds, OverlapOk, Covers
<1>8. (\A j \in Calls : StoredOk(j))'
  BY <1>1, <1>2, <1>4, <1>5 DEF IssuerInv, StoredOk, Covers
<1>. QED
  BY <1>6, <1>7, <1>8 DEF IssuerInv

LEMMA LogoutIssuerInv ==
    ASSUME IssuerInv, NEW k \in Calls, Logout(k)
    PROVE  IssuerInv'
<1>1. UNCHANGED <<conf, call, sso, saml, asserted, overlapped, slo>>
  BY DEF Logout, issuerVars
<1>2. \A j : SentTo(j)' = SentTo(j)
  BY <1>1 DEF SentTo
<1>. QED
  BY <1>1, <1>2
     DEF IssuerInv, IssuerTypes, SsoState, SamlState, ServedOk, BuiltOk, Builds,
         OverlapOk, StoredOk, Covers

-----------------------------------------------------------------------------
Inv == RemoteInv /\ IssuerInv

LEMMA InitInv == Init => Inv
<1>. SUFFICES ASSUME Init PROVE Inv
  OBVIOUS
<1>1. RemoteInv
  BY RemoteInitInv DEF Init
<1>2. /\ sso = [o \in Slots |-> NoSso] /\ saml = [k \in Calls |-> {}]
      /\ asserted = {} /\ slo = [k \in Calls |-> None]
      /\ session = [k \in Calls |-> NoSession]
  BY DEF Init, IssuerInit, RemoteInit
<1>3. NoSso \in SsoState /\ NoSso.step = "idle"
  BY DEF NoSso, SsoState, Maybe
<1>4. {} \in SamlState
  BY DEF SamlState
<1>5. \A k : SentTo(k) = {}
  BY <1>2 DEF SentTo
<1>6. IssuerTypes
  BY <1>2, <1>3, <1>4 DEF IssuerTypes, Maybe
<1>7. ServedOk /\ (\A o \in Slots : BuiltOk(o)) /\ OverlapOk
  BY <1>2, <1>3, <1>5 DEF ServedOk, BuiltOk, OverlapOk, Builds
<1>8. \A k \in Calls : StoredOk(k)
  BY <1>2, <1>5 DEF StoredOk, Covers
<1>. QED
  BY <1>1, <1>6, <1>7, <1>8 DEF Inv, IssuerInv

LEMMA NextInv == Inv /\ [Next]_vars => Inv'
<1>. SUFFICES ASSUME Inv, [Next]_vars PROVE Inv'
  OBVIOUS
<1>1. RemoteInv /\ IssuerInv
  BY DEF Inv
<1>2. CASE Remote
  <2>1. RemoteInv'
    BY <1>1, <1>2, RemoteNextInv DEF Remote
  <2>. QED
    BY <1>1, <1>2, <2>1, RemoteIssuerInv DEF Inv
<1>3. ASSUME UNCHANGED remoteVars PROVE RemoteInv'
  <2>1. RemoteTypes' /\ AskedOk'
    BY <1>1, <1>3 DEF remoteVars, RemoteInv, RemoteTypes, CallState, SessionState, Request, AskedOk, Ready
  <2>2. (\A k \in Calls : CallOk(k))'
    BY <1>1, <1>3 DEF remoteVars, RemoteInv, CallOk, ReturnOk, StepOk, AcceptOk,
                      Tied, ClaimsOk, ClaimSet, SessionOk, Live, Accept, Oidc
  <2>3. AllApart'
    BY <1>1, <1>3 DEF remoteVars, RemoteInv, AllApart, Apart, Oidc
  <2>. QED
    BY <2>1, <2>2, <2>3 DEF RemoteInv
<1>4. CASE Issuer
  <2>1. UNCHANGED remoteVars /\ IssuerNext
    BY <1>4 DEF Issuer
  <2>2. IssuerInv'
    BY <1>1, <2>1, ServerInv, ProcessAuthnRequestInv, BuildAssertionInv,
       StoreIdentityInv, StoreSAMLSessionInv, InitiateLogoutInv DEF IssuerNext
  <2>. QED
    BY <1>3, <2>1, <2>2 DEF Inv
<1>5. ASSUME NEW k \in Calls, Logout(k) PROVE Inv'
  BY <1>1, <1>5, LogoutInv, LogoutIssuerInv DEF Inv
<1>6. CASE UNCHANGED vars
  <2>1. UNCHANGED remoteVars /\ UNCHANGED <<sso, saml, asserted, overlapped, slo>>
    BY <1>6 DEF vars, issuerVars
  <2>2. \A k : SentTo(k)' = SentTo(k)
    BY <2>1 DEF SentTo
  <2>3. IssuerInv'
    BY <1>1, <2>1, <2>2
       DEF remoteVars, IssuerInv, IssuerTypes, ServedOk, BuiltOk, Builds, OverlapOk,
           StoredOk, Covers, SsoState, SamlState
  <2>. QED
    BY <1>3, <2>1, <2>3 DEF Inv
<1>. QED
  BY <1>2, <1>4, <1>5, <1>6 DEF Next


-----------------------------------------------------------------------------
(* What Inv says of the invariants that are checked.                       *)

LEMMA InvAcceptedOnce == Inv => AcceptedOnce
BY DEF Inv, RemoteInv, AllApart, Apart, AcceptedOnce, Accepted, Accept, Live, Oidc

LEMMA InvOwnAnswer == Inv => OwnAnswer
<1>. SUFFICES ASSUME Inv, NEW k \in Calls, Accepted(k), conf.protocol = "oidc"
              PROVE  LET o == conf.options[call[k].provider]
                         own == answered[call[k].state]
                     IN  /\ o.nonce \/ (o.pkce /\ ~conf.confused) => call[k].sub = own
                         /\ (o.nonce \/ o.pkce) /\ ~conf.confused =>
                               call[k].info \in {None, own}
  BY DEF OwnAnswer
<1>. QED
  BY DEF Inv, RemoteInv, CallOk, AcceptOk, Tied, Accepted, Accept, Oidc

LEMMA InvSpNotForgotten == Inv => SpNotForgotten
<1>. SUFFICES ASSUME Inv, NEW k \in Calls
              PROVE  /\ saml[k] \subseteq SentTo(k)
                     /\ \A sp \in SentTo(k) : sp \in saml[k] \/ <<k, sp>> \in overlapped
                     /\ slo[k] # None => slo[k] \in SentTo(k)
  BY DEF SpNotForgotten, SentTo
<1>. QED
  BY DEF Inv, IssuerInv, StoredOk, Covers

(* A state of OpenID Connect, and a ticket of CAS, open at most one        *)
(* session.                                                                *)
THEOREM OpenedOnce == Spec => []AcceptedOnce
<1>1. Init => Inv
  BY InitInv
<1>2. Inv /\ [Next]_vars => Inv'
  BY NextInv
<1>3. Inv => AcceptedOnce
  BY InvAcceptedOnce
<1>. QED
  BY <1>1, <1>2, <1>3, PTL DEF Spec

(* Without the nonce the verifier has to tell, and one of the two does:    *)
(* the user of a login is the one recognised for the request that its      *)
(* state names, and with an honest provider so is its user info            *)
(* (handleCallback).                                                       *)
THEOREM LoginsAreOwn == Spec => []OwnAnswer
<1>1. Init => Inv
  BY InitInv
<1>2. Inv /\ [Next]_vars => Inv'
  BY NextInv
<1>3. Inv => OwnAnswer
  BY InvOwnAnswer
<1>. QED
  BY <1>1, <1>2, <1>3, PTL DEF Spec

(* A service provider is in the lasso session stored, unless two           *)
(* assertions were built for the session at a time, one of them for it.    *)
THEOREM SpsAreKept == Spec => []SpNotForgotten
<1>1. Init => Inv
  BY InitInv
<1>2. Inv /\ [Next]_vars => Inv'
  BY NextInv
<1>3. Inv => SpNotForgotten
  BY InvSpNotForgotten
<1>. QED
  BY <1>1, <1>2, <1>3, PTL DEF Spec

==============================================================================
