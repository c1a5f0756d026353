---------------------------- MODULE OidcProvider ----------------------------
(***************************************************************************)
(* The OpenID Connect provider of packages/issuer-oidc: authorization      *)
(* codes, access tokens and refresh tokens in a store that other requests  *)
(* use at the same time.                                                   *)
(*                                                                         *)
(* A step is the effect of one awaited call together with the code that    *)
(* its answer resumes, up to the next call.  Calls without an effect on    *)
(* the state (checkAuth, consent, client authentication, signatures) are   *)
(* not steps: what follows them may come at any later time anyway.  Of a   *)
(* scope the model keeps whether it has offline_access; "valid" tells      *)
(* whether redirect_uri, client_id, secret and code_verifier of a request  *)
(* are those of the code.                                                  *)
(***************************************************************************)
EXTENDS Integers, FiniteSets, Functions

CONSTANTS
    Slot,          \* the requests served at a time
    Client,        \* the clients of the configuration
    Rotating,      \* clients with RefreshTokenRotation
    Offline,       \* clients whose AllowOffline is not false
    Token,         \* bound: the random strings that can be drawn
    TtlCode, TtlAccess, TtlRefresh,
    Scenarios,     \* what may happen: one of them is chosen at the start
    Nothing, None

AllKinds == {"authorize", "hybrid", "implicit", "code", "refresh",
             "credentials", "userinfo", "introspect", "revoke"}

Class == {"code", "access", "refresh"}

Data == [client : Client, offline : BOOLEAN, exp : Nat]

ASSUME ClientsAssumption ==
    Rotating \cup Offline \subseteq Client

ASSUME BoundsAssumption ==
    /\ {TtlCode, TtlAccess, TtlRefresh} \subseteq Nat
    /\ \A sc \in Range(Scenarios) :
         /\ sc.kinds \subseteq AllKinds
         /\ sc.scopes \cup sc.checks \subseteq BOOLEAN
         /\ {sc.narrowing, sc.faulty, sc.restarting} \subseteq BOOLEAN
         /\ sc.tokens \subseteq Token
         /\ sc.maxClock \in Nat
    /\ Nothing \notin Data
    /\ None \notin Token \cup Client

(***************************************************************************)
(* A request being served.  pc is the call it awaits; tok is the code or   *)
(* token of the request, new the one being stored as data, and out those   *)
(* that the response will have; now is the time generateTokens() read and  *)
(* root the code that the tokens it makes come from.                       *)
(***************************************************************************)
Idle ==
    [kind |-> "none", pc |-> "idle", client |-> None, offline |-> FALSE,
     tok |-> None, valid |-> FALSE, now |-> 0,
     new |-> None, data |-> Nothing, out |-> {}, root |-> None]

TaskState ==
    [kind : AllKinds \cup {"none"},
     pc : {"idle", "setCode", "setAccess", "session", "setRefresh", "consume",
           "getRefresh", "rotate", "getAccess", "claims", "getAgain",
           "revokeAccess", "revokeRefresh"},
     client : Client \cup {None}, offline : BOOLEAN,
     tok : Token \cup {None}, valid : BOOLEAN, now : Nat,
     new : Token \cup {None}, data : Data \cup {Nothing},
     out : SUBSET Token, root : Token \cup {None}]

VARIABLES
    scenario,
    clock,
    codes, access, refresh,   \* the token store
    task,
    class,      \* what each random string was drawn for
    held,       \* the codes and tokens that a response gave to a client
    gone,       \* history: those that a call took out of the store
    spent,      \* history: rotated or revoked by a request that was answered
    grants,     \* history: how often a code or refresh token was granted tokens
    root,       \* history: the code a refresh token comes from
    kept        \* history: codes for which a refresh token was given

stores == <<codes, access, refresh>>
history == <<gone, spent, grants, root, kept>>
vars == <<scenario, clock, stores, task, class, held, history>>

Kinds == Scenarios[scenario].kinds            \* the kinds of requests that come
Scopes == Scenarios[scenario].scopes          \* offline_access asked for, or not?
Checks == Scenarios[scenario].checks          \* do a code's parameters match?
Narrowing == Scenarios[scenario].narrowing    \* may a refresh ask for less?
Faulty == Scenarios[scenario].faulty          \* may the store fail?
Restarting == Scenarios[scenario].restarting  \* may the process be restarted?
Tokens == Scenarios[scenario].tokens          \* bound on the strings that are drawn
MaxClock == Scenarios[scenario].maxClock      \* bound on the clock

Empty == [t \in Token |-> Nothing]

Init ==
    /\ scenario \in DOMAIN Scenarios
    /\ clock = 0
    /\ codes = Empty
    /\ access = Empty
    /\ refresh = Empty
    /\ task = [k \in Slot |-> Idle]
    /\ class = [t \in Token |-> "none"]
    /\ held = {}
    /\ gone = {}
    /\ spent = {}
    /\ grants = [t \in Token |-> 0]
    /\ root = [t \in Token |-> None]
    /\ kept = {}

Valid(d) == d # Nothing /\ ~(d.exp < clock)

(* Random strings are alike: they are drawn in a fixed order.              *)
Draw(t, c) ==
    /\ t \in Tokens
    /\ class[t] = "none"
    /\ t = CHOOSE x \in Tokens : class[x] = "none"
    /\ class' = [class EXCEPT ![t] = c]

(* grants tells one grant from several: it counts no further than two.     *)
More(n) == IF n = 2 THEN 2 ELSE n + 1

(* What a client presents: a string presented as what it is not is not     *)
(* found, and changes nothing.                                             *)
Presented(t, c) == t \in held /\ class[t] = c

End(k) == task' = [task EXCEPT ![k] = Idle]

Respond(k, tokens) ==
    /\ End(k)
    /\ held' = held \cup tokens

-----------------------------------------------------------------------------
(* handleAuthorization: the code is stored first, then the tokens of the   *)
(* implicit and hybrid flows.                                              *)

Authorize(k, kind, c, off, t) ==
    /\ kind \in {"authorize", "hybrid"} \cap Kinds
    /\ task[k] = Idle
    /\ Draw(t, "code")
    /\ task' = [task EXCEPT ![k] = [Idle EXCEPT
                  !.kind = kind, !.pc = "setCode", !.client = c,
                  !.offline = off, !.new = t,
                  !.data = [client |-> c, offline |-> off,
                            exp |-> clock + TtlCode]]]
    /\ UNCHANGED <<scenario, clock, stores, held, history>>

(* The response type "token" alone, and the client_credentials grant.      *)
AskAccess(k, kind, c, t) ==
    /\ kind \in {"implicit", "credentials"} \cap Kinds
    /\ task[k] = Idle
    /\ Draw(t, "access")
    /\ task' = [task EXCEPT ![k] = [Idle EXCEPT
                  !.kind = kind, !.pc = "setAccess", !.client = c,
                  !.new = t,
                  !.data = [client |-> c, offline |-> FALSE,
                            exp |-> clock + TtlAccess]]]
    /\ UNCHANGED <<scenario, clock, stores, held, history>>

CodeStored(k) ==
    LET v == task[k]
    IN  /\ v.pc = "setCode"
        /\ codes' = [codes EXCEPT ![v.new] = v.data]
        /\ UNCHANGED <<scenario, clock, access, refresh, history>>
        /\ \/ /\ v.kind = "authorize"
              /\ Respond(k, {v.new})
              /\ UNCHANGED class
           \/ /\ v.kind = "hybrid"
              /\ UNCHANGED held
              /\ \E t \in Token :
                   /\ Draw(t, "access")
                   /\ task' = [task EXCEPT ![k] = [v EXCEPT
                        !.pc = "setAccess", !.new = t, !.out = {v.new},
                        !.data.exp = clock + TtlAccess]]

-----------------------------------------------------------------------------
(* generateTokens *)

Generate(k, c, off, r) ==
    \E t \in Token :
      /\ Draw(t, "access")
      /\ task' = [task EXCEPT ![k] = [@ EXCEPT
           !.pc = "setAccess", !.client = c, !.offline = off, !.now = clock,
           !.new = t, !.root = r,
           !.data = [client |-> c, offline |-> off, exp |-> clock + TtlAccess]]]

(* Mutant of AccessStored: the store is not awaited, and the answer of the *)
(* implicit flow overtakes it.                                             *)
AccessUnawaited(k) ==
    LET v == task[k]
    IN  /\ v.pc = "setAccess"
        /\ IF v.kind \notin {"code", "refresh"}
           THEN Respond(k, v.out \cup {v.new})
           ELSE /\ task' = [task EXCEPT ![k].pc = "session",
                                        ![k].out = @ \cup {v.new}]
                /\ UNCHANGED held
        /\ UNCHANGED <<scenario, clock, stores, class, history>>

AccessStored(k) ==
    LET v == task[k]
    IN  /\ v.pc = "setAccess"
        /\ access' = [access EXCEPT ![v.new] = v.data]
        /\ IF v.kind \notin {"code", "refresh"}
           THEN Respond(k, v.out \cup {v.new})
           ELSE /\ task' = [task EXCEPT ![k].pc = "session",
                                        ![k].out = @ \cup {v.new}]
                /\ UNCHANGED held
        /\ UNCHANGED <<scenario, clock, codes, refresh, class, history>>

(* The answer of a grant spends the refresh token that was rotated.        *)
AnswerGrant(k, tokens) ==
    LET v == task[k]
    IN  /\ Respond(k, tokens)
        /\ spent' = IF v.kind = "refresh" /\ v.client \in Rotating
                    THEN spent \cup {v.tok} ELSE spent

SessionRead(k) ==
    LET v == task[k]
    IN  /\ v.pc = "session"
        /\ ~(v.offline /\ v.client \in Offline)
        /\ AnswerGrant(k, v.out)
        /\ UNCHANGED <<scenario, clock, stores, class, gone, grants, root,
                       kept>>

OfflineAsked(k, t) ==
    LET v == task[k]
    IN  /\ v.pc = "session"
        /\ v.offline /\ v.client \in Offline
        /\ Draw(t, "refresh")
        /\ task' = [task EXCEPT ![k] = [v EXCEPT
                      !.pc = "setRefresh", !.new = t,
                      !.data.exp = v.now + TtlRefresh]]
        /\ root' = [root EXCEPT ![t] = v.root]
        /\ UNCHANGED <<scenario, clock, stores, held, gone, spent, grants,
                       kept>>

(* Mutant of RefreshStored: it goes to the store of access tokens.         *)
RefreshMisplaced(k) ==
    LET v == task[k]
    IN  /\ v.pc = "setRefresh"
        /\ access' = [access EXCEPT ![v.new] = v.data]
        /\ AnswerGrant(k, v.out \cup {v.new})
        /\ kept' = kept \cup {v.root}
        /\ UNCHANGED <<scenario, clock, codes, refresh, class, gone, grants,
                       root>>

RefreshStored(k) ==
    LET v == task[k]
    IN  /\ v.pc = "setRefresh"
        /\ refresh' = [refresh EXCEPT ![v.new] = v.data]
        /\ AnswerGrant(k, v.out \cup {v.new})
        /\ kept' = kept \cup {v.root}
        /\ UNCHANGED <<scenario, clock, codes, access, class, gone, grants,
                       root>>

-----------------------------------------------------------------------------
(* handleAuthorizationCodeGrant: the code is consumed before it is checked *)

Redeem(k, t, ok) ==
    /\ "code" \in Kinds
    /\ task[k] = Idle
    /\ Presented(t, "code")
    /\ task' = [task EXCEPT ![k] = [Idle EXCEPT
                  !.kind = "code", !.pc = "consume", !.tok = t, !.valid = ok]]
    /\ UNCHANGED <<scenario, clock, stores, class, held, history>>

CodeNotFound(k) ==
    /\ task[k].pc = "consume"
    /\ codes[task[k].tok] = Nothing
    /\ End(k)
    /\ UNCHANGED <<scenario, clock, stores, class, held, history>>

Grantable(v) ==
    LET d == codes[v.tok]
    IN  Valid(d) /\ v.valid

(* Mutant of Consumed: a code is read, and nobody deletes it.              *)
CodeRead(k) ==
    LET v == task[k]
        d == codes[v.tok]
    IN  /\ v.pc = "consume"
        /\ d # Nothing
        /\ IF Grantable(v)
           THEN /\ Generate(k, d.client, d.offline, v.tok)
                /\ grants' = [grants EXCEPT ![v.tok] = More(@)]
           ELSE End(k) /\ UNCHANGED <<class, grants>>
        /\ UNCHANGED <<scenario, clock, stores, held, gone, spent, root,
                       kept>>

Consumed(k) ==
    LET v == task[k]
        d == codes[v.tok]
    IN  /\ v.pc = "consume"
        /\ d # Nothing
        /\ codes' = [codes EXCEPT ![v.tok] = Nothing]
        /\ gone' = gone \cup {v.tok}
        /\ IF Grantable(v)
           THEN /\ Generate(k, d.client, d.offline, v.tok)
                /\ grants' = [grants EXCEPT ![v.tok] = More(@)]
           ELSE End(k) /\ UNCHANGED <<class, grants>>
        /\ UNCHANGED <<scenario, clock, access, refresh, held, spent, root,
                       kept>>

-----------------------------------------------------------------------------
(* handleRefreshTokenGrant: a rotated token is revoked before the new      *)
(* tokens are made.                                                        *)

UseRefresh(k, t, narrow) ==
    /\ "refresh" \in Kinds
    /\ task[k] = Idle
    /\ Presented(t, "refresh")
    /\ narrow => Narrowing
    /\ task' = [task EXCEPT ![k] = [Idle EXCEPT
                  !.kind = "refresh", !.pc = "getRefresh", !.tok = t,
                  !.offline = ~narrow]]
    /\ UNCHANGED <<scenario, clock, stores, class, held, history>>

RefreshRefused(k) ==
    LET d == refresh[task[k].tok]
    IN  /\ task[k].pc = "getRefresh"
        /\ ~Valid(d)
        /\ End(k)
        /\ UNCHANGED <<scenario, clock, stores, class, held, history>>

(* Mutant of NewScope: scope, without the original one as a default.       *)
RequestedScope(v, d) == FALSE

(* scope || tokenData.scope *)
NewScope(v, d) == v.offline /\ d.offline

RefreshRead(k) ==
    LET v == task[k]
        d == refresh[v.tok]
    IN  /\ v.pc = "getRefresh"
        /\ Valid(d)
        /\ IF d.client \in Rotating
           THEN /\ task' = [task EXCEPT ![k] = [v EXCEPT
                     !.pc = "rotate", !.client = d.client, !.root = root[v.tok],
                     !.offline = NewScope(v, d)]]
                /\ UNCHANGED class
           ELSE Generate(k, d.client, NewScope(v, d), root[v.tok])
        /\ grants' = [grants EXCEPT ![v.tok] = More(@)]
        /\ UNCHANGED <<scenario, clock, stores, held, gone, spent, root,
                       kept>>

(* Mutant of Rotated: the revocation has no effect.                        *)
RotatedInVain(k) ==
    LET v == task[k]
    IN  /\ v.pc = "rotate"
        /\ Generate(k, v.client, v.offline, v.root)
        /\ UNCHANGED <<scenario, clock, stores, held, history>>

Rotated(k) ==
    LET v == task[k]
    IN  /\ v.pc = "rotate"
        /\ refresh' = [refresh EXCEPT ![v.tok] = Nothing]
        /\ gone' = gone \cup {v.tok}
        /\ Generate(k, v.client, v.offline, v.root)
        /\ UNCHANGED <<scenario, clock, codes, access, held, spent, grants,
                       root, kept>>

-----------------------------------------------------------------------------
(* handleUserInfoRequestSigned, which reads the token a second time, and   *)
(* handleIntrospectionRequest                                              *)

Present(k, kind, t) ==
    /\ kind \in {"userinfo", "introspect"} \cap Kinds
    /\ task[k] = Idle
    /\ \/ Presented(t, "access")
       \/ kind = "introspect" /\ Presented(t, "refresh")
    /\ task' = [task EXCEPT ![k] = [Idle EXCEPT
                  !.kind = kind, !.pc = "getAccess", !.tok = t]]
    /\ UNCHANGED <<scenario, clock, stores, class, held, history>>

UserInfoRefused(k) ==
    LET v == task[k]
    IN  /\ v.kind = "userinfo"
        /\ \/ v.pc = "getAccess" /\ ~Valid(access[v.tok])
           \/ v.pc = "getAgain" /\ access[v.tok] = Nothing
        /\ End(k)
        /\ UNCHANGED <<scenario, clock, stores, class, held, history>>

UserInfoProceeds(k) ==
    LET v == task[k]
    IN  /\ v.kind = "userinfo"
        /\ \/ /\ v.pc = "getAccess"
              /\ Valid(access[v.tok])
              /\ task' = [task EXCEPT ![k].pc = "claims"]
           \/ v.pc = "claims" /\ task' = [task EXCEPT ![k].pc = "getAgain"]
           \/ v.pc = "getAgain" /\ access[v.tok] # Nothing /\ End(k)
        /\ UNCHANGED <<scenario, clock, stores, class, held, history>>

Introspect(k) ==
    LET v == task[k]
    IN  /\ v.kind = "introspect"
        /\ IF v.pc = "getAccess" /\ access[v.tok] = Nothing
           THEN task' = [task EXCEPT ![k].pc = "getRefresh"]
           ELSE End(k)
        /\ UNCHANGED <<scenario, clock, stores, class, held, history>>

-----------------------------------------------------------------------------
(* handleRevocationRequest: tried in both stores                           *)

Revoke(k, t) ==
    /\ "revoke" \in Kinds
    /\ task[k] = Idle
    /\ Presented(t, "access") \/ Presented(t, "refresh")
    /\ task' = [task EXCEPT ![k] = [Idle EXCEPT
                  !.kind = "revoke", !.pc = "revokeAccess", !.tok = t]]
    /\ UNCHANGED <<scenario, clock, stores, class, held, history>>

AccessRevoked(k) ==
    LET t == task[k].tok
    IN  /\ task[k].pc = "revokeAccess"
        /\ access' = [access EXCEPT ![t] = Nothing]
        /\ gone' = IF access[t] # Nothing THEN gone \cup {t} ELSE gone
        /\ task' = [task EXCEPT ![k].pc = "revokeRefresh"]
        /\ UNCHANGED <<scenario, clock, codes, refresh, class, held, spent,
                       grants, root, kept>>

RefreshRevoked(k) ==
    LET t == task[k].tok
    IN  /\ task[k].pc = "revokeRefresh"
        /\ refresh' = [refresh EXCEPT ![t] = Nothing]
        /\ gone' = IF refresh[t] # Nothing THEN gone \cup {t} ELSE gone
        /\ spent' = spent \cup {t}
        /\ kept' = kept \ {root[t]}
        /\ End(k)
        /\ UNCHANGED <<scenario, clock, codes, access, class, held, grants,
                       root>>

-----------------------------------------------------------------------------
(* A rejected call rejects the handler; a write that failed may be done.   *)

StoreFails(k) ==
    LET v == task[k]
    IN  /\ Faulty
        /\ v.pc # "idle"
        /\ End(k)
        /\ \/ UNCHANGED <<stores, gone>>
           \/ /\ v.pc = "setCode"
              /\ codes' = [codes EXCEPT ![v.new] = v.data]
              /\ UNCHANGED <<access, refresh, gone>>
           \/ /\ v.pc = "setAccess"
              /\ access' = [access EXCEPT ![v.new] = v.data]
              /\ UNCHANGED <<codes, refresh, gone>>
           \/ /\ v.pc = "setRefresh"
              /\ refresh' = [refresh EXCEPT ![v.new] = v.data]
              /\ UNCHANGED <<codes, access, gone>>
           \/ /\ v.pc = "consume"
              /\ codes' = [codes EXCEPT ![v.tok] = Nothing]
              /\ gone' = gone \cup {v.tok}
              /\ UNCHANGED <<access, refresh>>
           \/ /\ v.pc \in {"rotate", "revokeRefresh"}
              /\ refresh' = [refresh EXCEPT ![v.tok] = Nothing]
              /\ gone' = gone \cup {v.tok}
              /\ UNCHANGED <<codes, access>>
           \/ /\ v.pc = "revokeAccess"
              /\ access' = [access EXCEPT ![v.tok] = Nothing]
              /\ gone' = gone \cup {v.tok}
              /\ UNCHANGED <<codes, refresh>>
        /\ UNCHANGED <<scenario, clock, class, held, spent, grants, root,
                       kept>>

(* The store survives the process.  A rejection that nobody handles may    *)
(* end it too.                                                             *)
Restart ==
    /\ Restarting
    /\ task' = [k \in Slot |-> Idle]
    /\ UNCHANGED <<scenario, clock, stores, class, held, history>>

Tick ==
    /\ clock < MaxClock
    /\ clock' = clock + 1
    /\ UNCHANGED <<scenario, stores, task, class, held, history>>

Begin(k) ==
    \/ \E kind \in Kinds, c \in Client, t \in Token :
         \/ \E off \in Scopes : Authorize(k, kind, c, off, t)
         \/ AskAccess(k, kind, c, t)
    \/ \E t \in Token, ok \in Checks : Redeem(k, t, ok)
    \/ \E t \in Token, narrow \in BOOLEAN : UseRefresh(k, t, narrow)
    \/ \E kind \in Kinds, t \in Token : Present(k, kind, t)
    \/ \E t \in Token : Revoke(k, t)

Continue(k) ==
    \/ CodeStored(k) \/ AccessStored(k) \/ SessionRead(k)
    \/ (\E t \in Token : OfflineAsked(k, t)) \/ RefreshStored(k)
    \/ CodeNotFound(k) \/ Consumed(k)
    \/ task[k].kind = "refresh" /\ (RefreshRefused(k) \/ RefreshRead(k))
    \/ Rotated(k) \/ UserInfoRefused(k) \/ UserInfoProceeds(k) \/ Introspect(k)
    \/ AccessRevoked(k) \/ RefreshRevoked(k)

Next ==
    \/ \E k \in Slot : Begin(k) \/ Continue(k) \/ StoreFails(k)
    \/ Restart
    \/ Tick

Spec == Init /\ [][Next]_vars

-----------------------------------------------------------------------------

TypeOK ==
    /\ scenario \in DOMAIN Scenarios
    /\ clock \in 0 .. MaxClock
    /\ class \in [Token -> Class \cup {"none"}]
    /\ \A f \in {codes, access, refresh} : f \in [Token -> Data \cup {Nothing}]
    /\ \A t \in Token :
         /\ codes[t] # Nothing => class[t] = "code"
         /\ access[t] # Nothing => class[t] = "access"
         /\ refresh[t] # Nothing => class[t] = "refresh"
    /\ task \in [Slot -> TaskState]
    /\ {held, gone, spent, kept} \subseteq SUBSET Token
    /\ grants \in [Token -> 0 .. 2]
    /\ root \in [Token -> Token \cup {None}]

(***************************************************************************)
(* What a response gives to a client is in the store, until a request of   *)
(* the client takes it out: every store call is awaited before the answer. *)
(***************************************************************************)
HeldIsStored ==
    \A t \in held \ gone :
      \/ codes[t] # Nothing
      \/ access[t] # Nothing
      \/ refresh[t] # Nothing

(***************************************************************************)
(* A code gives tokens to one request, whatever requests present it at the *)
(* same time, and whatever fails: it is consumed before it is checked.     *)
(***************************************************************************)
CodeOnce == \A t \in Token : root[t] = None => grants[t] <= 1

(***************************************************************************)
(* A token whose revocation, or whose rotation, was answered is in no      *)
(* store, and no request that was running then puts it back.               *)
(***************************************************************************)
SpentStaysSpent ==
    \A t \in spent : access[t] = Nothing /\ refresh[t] = Nothing

(***************************************************************************)
(* Rotation does not lose the client's offline access: until a token of    *)
(* its expires, and unless it revokes it, narrows it or the server fails,  *)
(* a refresh token of the code is in the store or a request is about to    *)
(* store one.                                                              *)
(***************************************************************************)
GrantKept ==
    \A g \in kept :
      \/ Faulty \/ Restarting \/ Narrowing \/ clock > TtlRefresh
      \/ \E t \in Token : refresh[t] # Nothing /\ root[t] = g
      \/ \E k \in Slot : task[k].root = g

=============================================================================
