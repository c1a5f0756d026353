--------------------------- MODULE LdapConnection ---------------------------
(***************************************************************************)
(* The LDAP connection of packages/lib-ldap that the authentication, user  *)
(* and password modules of a portal share: one client at a time, health    *)
(* checks, reconnection over several servers, retries, a circuit breaker.  *)
(*                                                                         *)
(* A request is a sequence of calls on the connection (its todo).  A step  *)
(* ends where the code awaits a client, a timer, or an async method of the *)
(* connection; any number of requests are between two steps of theirs, and *)
(* all use the fields of the same object.  The client library answers a    *)
(* call with success or an error, for whatever reason.  The order in which *)
(* servers are tried is left out: any of them may ask for StartTLS.        *)
(***************************************************************************)
EXTENDS Integers, Sequences

CONSTANTS
    Slot,              \* the requests served at a time
    Client,            \* client objects, at least one for each slot
    Servers,           \* the number of servers in ldapServer
    StartTls,          \* do URLs of theirs ask for StartTLS: the values
    ChangePasswordAsUser, RequireOldPassword, PasswordMode,
    ForceReset,        \* may a password change force another one?
    Startup,           \* the modules that connect when the portal starts
    Kinds,             \* the kinds of requests that come
    FailureThreshold, ResetTimeout, HealthCheckInterval, MaxRetries,
    MaxClock,          \* bound on the clock
    None

ASSUME LdapAssumption ==
    /\ {Servers, FailureThreshold, MaxRetries} \subseteq Nat \ {0}
    /\ {ResetTimeout, HealthCheckInterval, MaxClock} \subseteq Nat
    /\ StartTls \subseteq BOOLEAN
    /\ {ChangePasswordAsUser, RequireOldPassword, ForceReset} \subseteq BOOLEAN
    /\ PasswordMode \in {"standard", "extended", "AD"}
    /\ Startup \in Seq({"auth", "userdb", "password"})
    /\ Kinds \in [Slot -> SUBSET {"auth", "user", "password", "confirm"}]
    /\ None \notin Client

-----------------------------------------------------------------------------
(* The calls that a request makes, one after the other; the first that     *)
(* fails ends the request.                                                 *)

AuthSteps == {<<"validate", "bind", "search", "userBind">>}

(* The groups of the user are a second search, repeated for their groups.  *)
UserSteps == {<<"validate", "bind", "search">> \o g : g \in {<<>>, <<"search">>}}

AsManager == <<"validate", "bind", "modify">>

(* As the user, with a client of the request alone, or as the manager.     *)
Change == {AsManager} \cup IF ChangePasswordAsUser THEN {<<"own">>} ELSE {}

(* A reset by an administrator asks for no old password.                   *)
ModifyStandard ==
    Change \cup IF RequireOldPassword THEN {<<"userBind">> \o c : c \in Change}
                ELSE {}

ModifyExtended == Change

ModifyAD == Change

PasswordSteps ==
    {<<"validate", "breaker">> \o change \o reset :
        change \in CASE PasswordMode = "standard" -> ModifyStandard
                     [] PasswordMode = "extended" -> ModifyExtended
                     [] PasswordMode = "AD"       -> ModifyAD,
        reset \in {<<>>} \cup IF ForceReset THEN {AsManager} ELSE {}}
    \cup IF RequireOldPassword THEN {<<"validate">>} ELSE {}

ConfirmSteps == {<<"userBind">>}

StepsOf(kind) ==
    CASE kind = "auth"     -> AuthSteps
      [] kind = "user"     -> UserSteps
      [] kind = "password" -> PasswordSteps
      [] kind = "confirm"  -> ConfirmSteps

Step == {"validate", "bind", "search", "userBind", "breaker", "modify", "own"}

(***************************************************************************)
(* A request: pc is what it awaits, conn the client it awaits it from,     *)
(* attempt, tries and url the counters of withRetry(), reconnect() and     *)
(* connect(), since when the call of that name began.                      *)
(***************************************************************************)
Idle == [todo |-> <<>>, pc |-> "idle", conn |-> None, attempt |-> 0,
         tries |-> 0, url |-> 0, since |-> 0]

TaskState ==
    [todo : Seq(Step),
     pc : {"idle", "call", "validated", "health", "unbind", "connect", "dse",
           "tls", "cleanup", "sleep", "operation", "backoff", "user", "own"},
     conn : Client \cup {None}, attempt : 0 .. MaxRetries,
     tries : 0 .. MaxRetries - 1, url : 0 .. Servers, since : Nat]

VARIABLES
    clock,
    client, connected, lastHealthCheck,             \* fields of the object
    circuitState, failureCount, lastFailureTime,    \* its circuit breaker
    bound,      \* the clients that are bound as manager
    closed,     \* the clients that unbind() was called on
    task,
    starting    \* the modules that did not connect yet

breaker == <<circuitState, failureCount, lastFailureTime>>
fields == <<client, connected, lastHealthCheck>>
vars == <<clock, fields, breaker, bound, closed, task, starting>>

Init ==
    /\ clock = HealthCheckInterval
    /\ client = None
    /\ connected = FALSE
    /\ lastHealthCheck = 0
    /\ circuitState = "closed"
    /\ failureCount = 0
    /\ lastFailureTime = 0
    /\ bound = {}
    /\ closed = {}
    /\ task = [k \in Slot |-> Idle]
    /\ starting = Startup

Become(k, v) == task' = [task EXCEPT ![k] = v]

(* The call at the head of todo succeeded, or failed.                      *)
Succeed(k) ==
    LET rest == Tail(task[k].todo)
    IN  Become(k, IF rest = <<>> THEN Idle
                                 ELSE [Idle EXCEPT !.todo = rest, !.pc = "call"])

Fail(k) == Become(k, Idle)

Calls(k, step) == task[k].pc = "call" /\ Head(task[k].todo) \in step

-----------------------------------------------------------------------------
(* The circuit breaker *)

ResetTimeoutPassed == clock - lastFailureTime >= ResetTimeout

CanAttemptConnection == circuitState = "open" => ResetTimeoutPassed

(* What canAttemptConnection() does when it returns true.                  *)
AttemptConnection ==
    /\ CanAttemptConnection
    /\ circuitState' = IF circuitState = "open" THEN "half_open" ELSE circuitState
    /\ UNCHANGED <<failureCount, lastFailureTime>>

(* Mutant of OnConnectionSuccess: the failures stay.                       *)
OnConnectionSuccessCounting ==
    /\ circuitState' = "closed"
    /\ UNCHANGED <<failureCount, lastFailureTime>>

OnConnectionSuccess ==
    /\ failureCount' = 0
    /\ circuitState' = "closed"
    /\ UNCHANGED lastFailureTime

(* The count matters up to the threshold.                                  *)
OnConnectionFailure ==
    /\ failureCount' = IF failureCount < FailureThreshold THEN failureCount + 1
                                                          ELSE failureCount
    /\ lastFailureTime' = clock
    /\ circuitState' = IF failureCount' >= FailureThreshold THEN "open"
                                                            ELSE circuitState

-----------------------------------------------------------------------------
(* connect() and reconnect() *)

(* connectToServer(): a new client, which no other request awaits, replaces*)
(* the one of the object.                                                  *)
OpenClient(k, v) ==
    \E c \in Client \ {task[l].conn : l \in Slot \ {k}} :
      /\ client' = c
      /\ bound' = bound \ {c}
      /\ closed' = closed \ {c}
      /\ Become(k, [v EXCEPT !.pc = "dse", !.conn = c])

ConnectAllowed(k) ==
    /\ task[k].pc = "connect"
    /\ AttemptConnection
    /\ OpenClient(k, [task[k] EXCEPT !.url = 0, !.since = clock])
    /\ UNCHANGED <<clock, connected, lastHealthCheck, starting>>

(* Mutant of NextTry: one attempt too many.                                *)
NextTryOnceMore(k) ==
    LET v == task[k]
    IN  IF v.todo # <<>> /\ v.tries < MaxRetries
        THEN Become(k, [v EXCEPT !.pc = "sleep", !.conn = None, !.since = 0,
                                 !.url = 0, !.tries = @ + 1])
        ELSE Fail(k)

(* A failed attempt of reconnect(), or of a module at startup.             *)
NextTry(k) ==
    LET v == task[k]
    IN  IF v.todo # <<>> /\ v.tries + 1 < MaxRetries
        THEN Become(k, [v EXCEPT !.pc = "sleep", !.conn = None, !.since = 0,
                                 !.url = 0, !.tries = @ + 1])
        ELSE Fail(k)

ConnectRefused(k) ==
    /\ task[k].pc = "connect"
    /\ ~CanAttemptConnection
    /\ NextTry(k)
    /\ UNCHANGED <<clock, fields, breaker, bound, closed, starting>>

Wake(k) ==
    /\ task[k].pc = "sleep"
    /\ Become(k, [task[k] EXCEPT !.pc = "connect"])
    /\ UNCHANGED <<clock, fields, breaker, bound, closed, starting>>

(* The validation of the connection returns true.                          *)
Validated(k) ==
    LET v == task[k]
    IN  IF Head(v.todo) = "validate" THEN Succeed(k)
        ELSE Become(k, [Idle EXCEPT !.todo = v.todo, !.pc = "validated",
                                    !.attempt = v.attempt])

(* connectToServer() and connect() succeed.                                *)
ServerAnswers(k) ==
    /\ OnConnectionSuccess
    /\ IF task[k].todo = <<>> THEN Become(k, Idle) ELSE Validated(k)
    /\ UNCHANGED <<clock, client, lastHealthCheck, bound, closed, starting>>

Connected(k) ==
    /\ task[k].pc = "dse"
    /\ FALSE \in StartTls
    /\ connected' = TRUE
    /\ ServerAnswers(k)

(* startTLS() is called on the client that the object has now.             *)
TlsBegins(k) ==
    /\ task[k].pc = "dse"
    /\ TRUE \in StartTls
    /\ client # None
    /\ connected' = TRUE
    /\ Become(k, [task[k] EXCEPT !.pc = "tls", !.conn = client])
    /\ UNCHANGED <<clock, client, lastHealthCheck, breaker, bound,
                   closed, starting>>

TlsStarted(k) ==
    /\ task[k].pc = "tls"
    /\ ServerAnswers(k)
    /\ UNCHANGED connected

(* So is unbind() after an error.                                          *)
ServerFails(k) ==
    /\ task[k].pc \in {"dse", "tls"}
    /\ client # None
    /\ closed' = closed \cup {client}
    /\ bound' = bound \ {client}
    /\ Become(k, [task[k] EXCEPT !.pc = "cleanup", !.conn = client])
    /\ UNCHANGED <<clock, fields, breaker, starting>>

(* The next server, or none.                                               *)
NextServer(k) ==
    LET v == [task[k] EXCEPT !.url = @ + 1]
    IN  /\ connected' = FALSE
        /\ \/ /\ v.url < Servers
              /\ OpenClient(k, v)
              /\ UNCHANGED breaker
           \/ /\ v.url = Servers
              /\ client' = None
              /\ OnConnectionFailure
              /\ NextTry(k)
              /\ UNCHANGED <<bound, closed>>
        /\ UNCHANGED <<clock, lastHealthCheck, starting>>

(* An error when another request has already cleared the client.           *)
ServerFailsAlone(k) ==
    /\ task[k].pc \in {"dse", "tls"}
    /\ client = None
    /\ NextServer(k)

Cleaned(k) ==
    /\ task[k].pc = "cleanup"
    /\ NextServer(k)

Reconnect(k) ==
    LET v == task[k]
    IN  /\ connected' = FALSE
        /\ \/ /\ client # None
              /\ closed' = closed \cup {client}
              /\ bound' = bound \ {client}
              /\ Become(k, [v EXCEPT !.pc = "unbind", !.conn = client,
                                     !.since = 0])
           \/ /\ client = None
              /\ Become(k, [v EXCEPT !.pc = "connect", !.conn = None,
                                     !.since = 0])
              /\ UNCHANGED <<bound, closed>>
        /\ UNCHANGED <<clock, client, lastHealthCheck, breaker,
                       starting>>

(* Mutant of Unbound: the old client stays until the new one is there.     *)
UnboundKept(k) ==
    /\ task[k].pc = "unbind"
    /\ Become(k, [task[k] EXCEPT !.pc = "connect", !.conn = None])
    /\ UNCHANGED <<clock, fields, breaker, bound, closed, starting>>

Unbound(k) ==
    /\ task[k].pc = "unbind"
    /\ client' = None
    /\ Become(k, [task[k] EXCEPT !.pc = "connect", !.conn = None])
    /\ UNCHANGED <<clock, connected, lastHealthCheck, breaker, bound,
                   closed, starting>>

-----------------------------------------------------------------------------
(* validateConnection(), called alone or by withRetry() *)

Healthy == clock - lastHealthCheck < HealthCheckInterval

RecentlyValidated(k) ==
    /\ Calls(k, {"validate", "bind", "search"})
    /\ connected /\ client # None /\ Healthy
    /\ Validated(k)
    /\ UNCHANGED <<clock, fields, breaker, bound, closed, starting>>

NotConnected(k) ==
    /\ Calls(k, {"validate", "bind", "search"})
    /\ client = None \/ ~connected
    /\ Reconnect(k)

HealthCheck(k) ==
    /\ Calls(k, {"validate", "bind", "search"})
    /\ connected /\ client # None /\ ~Healthy
    /\ Become(k, [task[k] EXCEPT !.pc = "health", !.conn = client,
                                 !.since = clock])
    /\ UNCHANGED <<clock, fields, breaker, bound, closed, starting>>

(* The time is that of the call, not of the answer.                        *)
HealthCheckPassed(k) ==
    /\ task[k].pc = "health"
    /\ lastHealthCheck' = task[k].since
    /\ Validated(k)
    /\ UNCHANGED <<clock, client, connected, breaker, bound, closed,
                   starting>>

HealthCheckFailed(k) ==
    /\ task[k].pc = "health"
    /\ Reconnect(k)

-----------------------------------------------------------------------------
(* bind(), search(), and the calls made on the client without a retry *)

Operation(k) ==
    /\ task[k].pc = "validated" \/ Calls(k, {"modify"})
    /\ client # None
    /\ Become(k, [task[k] EXCEPT !.pc = "operation", !.conn = client])
    /\ UNCHANGED <<clock, fields, breaker, bound, closed, starting>>

(* "LDAP client not connected" is not an error that withRetry() retries.   *)
NoClient(k) ==
    /\ task[k].pc = "validated" \/ Calls(k, {"modify"})
    /\ client = None
    /\ Fail(k)
    /\ UNCHANGED <<clock, fields, breaker, bound, closed, starting>>

OperationDone(k) ==
    /\ task[k].pc = "operation"
    /\ bound' = IF Head(task[k].todo) = "bind" /\ task[k].conn \notin closed
                THEN bound \cup {task[k].conn} ELSE bound
    /\ Succeed(k)
    /\ UNCHANGED <<clock, fields, breaker, closed, starting>>

(* bind() turns its errors into false, so it is not retried.  A user that  *)
(* is not found ends the request like an error.                            *)
OperationFails(k) ==
    /\ task[k].pc = "operation"
    /\ Fail(k)
    /\ UNCHANGED <<clock, fields, breaker, bound, closed, starting>>

ConnectionLost(k) ==
    /\ task[k].pc = "operation"
    /\ Head(task[k].todo) = "search"
    /\ task[k].attempt < MaxRetries
    /\ connected' = FALSE
    /\ Become(k, [task[k] EXCEPT !.pc = "backoff", !.conn = None])
    /\ UNCHANGED <<clock, client, lastHealthCheck, breaker, bound,
                   closed, starting>>

Retry(k) ==
    /\ task[k].pc = "backoff"
    /\ Become(k, [task[k] EXCEPT !.pc = "call", !.attempt = @ + 1])
    /\ UNCHANGED <<clock, fields, breaker, bound, closed, starting>>

(* modifyPassword() asks the breaker.                                      *)
MayModify(k) ==
    /\ Calls(k, {"breaker"})
    /\ AttemptConnection
    /\ Succeed(k)
    /\ UNCHANGED <<clock, fields, bound, closed, starting>>

Refused(k) ==
    /\ Calls(k, {"breaker", "userBind"})
    /\ ~CanAttemptConnection
    /\ Fail(k)
    /\ UNCHANGED <<clock, fields, breaker, bound, closed, starting>>

(* A password is changed as the user.                                      *)
OwnClient(k) ==
    /\ Calls(k, {"own"})
    /\ Become(k, [task[k] EXCEPT !.pc = "own"])
    /\ UNCHANGED <<clock, fields, breaker, bound, closed, starting>>

OwnClientDone(k) ==
    /\ task[k].pc = "own"
    /\ Succeed(k) \/ Fail(k)
    /\ UNCHANGED <<clock, fields, breaker, bound, closed, starting>>

-----------------------------------------------------------------------------
(* userBind() *)

(* Mutant of UserBind: it does not ask the breaker.                        *)
UserBindUnchecked(k) ==
    /\ Calls(k, {"userBind"})
    /\ Become(k, [task[k] EXCEPT !.pc = "user", !.since = clock])
    /\ UNCHANGED <<clock, fields, breaker, bound, closed, starting>>

UserBind(k) ==
    /\ Calls(k, {"userBind"})
    /\ AttemptConnection
    /\ Become(k, [task[k] EXCEPT !.pc = "user", !.since = clock])
    /\ UNCHANGED <<clock, fields, bound, closed, starting>>

UserBound(k) ==
    /\ task[k].pc = "user"
    /\ OnConnectionSuccess
    /\ Succeed(k)
    /\ UNCHANGED <<clock, fields, bound, closed, starting>>

(* A wrong password, a password policy error, an unknown error.            *)
UserRefused(k) ==
    /\ task[k].pc = "user"
    /\ Fail(k)
    /\ UNCHANGED <<clock, fields, breaker, bound, closed, starting>>

UserBindLost(k) ==
    /\ task[k].pc = "user"
    /\ OnConnectionFailure
    /\ Fail(k)
    /\ UNCHANGED <<clock, fields, bound, closed, starting>>

-----------------------------------------------------------------------------

(* The modules are initialised one after the other, before requests come;  *)
(* the user module does not connect when the object says it is connected.  *)
StartModule(k) ==
    /\ starting # <<>>
    /\ \A l \in Slot : task[l] = Idle
    /\ starting' = Tail(starting)
    /\ IF Head(starting) = "userdb" /\ connected /\ client # None
       THEN UNCHANGED task
       ELSE Become(k, [Idle EXCEPT !.pc = "connect"])
    /\ UNCHANGED <<clock, fields, breaker, bound, closed>>

Started ==
    /\ starting = <<>>
    /\ \A k \in Slot : task[k].pc # "idle" => task[k].todo # <<>>

Begin(k) ==
    /\ Started
    /\ task[k] = Idle
    /\ \E kind \in Kinds[k] : \E steps \in StepsOf(kind) :
         Become(k, [Idle EXCEPT !.todo = steps, !.pc = "call"])
    /\ UNCHANGED <<clock, fields, breaker, bound, closed, starting>>

Tick ==
    /\ clock < MaxClock
    /\ clock' = clock + 1
    /\ UNCHANGED <<fields, breaker, bound, closed, task, starting>>

Continue(k) ==
    \/ ConnectAllowed(k) \/ ConnectRefused(k) \/ Wake(k)
    \/ Connected(k) \/ TlsBegins(k) \/ TlsStarted(k) \/ ServerFails(k) \/ ServerFailsAlone(k)
    \/ Cleaned(k) \/ Unbound(k)
    \/ RecentlyValidated(k) \/ NotConnected(k)
    \/ HealthCheck(k) \/ HealthCheckPassed(k) \/ HealthCheckFailed(k)
    \/ Operation(k) \/ NoClient(k)
    \/ OperationDone(k) \/ OperationFails(k) \/ ConnectionLost(k) \/ Retry(k)
    \/ MayModify(k) \/ Refused(k) \/ OwnClient(k) \/ OwnClientDone(k)
    \/ UserBind(k) \/ UserBound(k) \/ UserRefused(k) \/ UserBindLost(k)

Next ==
    \/ \E k \in Slot : StartModule(k) \/ Begin(k) \/ Continue(k)
    \/ Tick

Spec == Init /\ [][Next]_vars

-----------------------------------------------------------------------------

TypeOK ==
    /\ clock \in Nat
    /\ client \in Client \cup {None}
    /\ connected \in BOOLEAN
    /\ lastHealthCheck \in Nat
    /\ circuitState \in {"closed", "open", "half_open"}
    /\ failureCount \in 0 .. FailureThreshold
    /\ lastFailureTime \in Nat
    /\ bound \in SUBSET Client
    /\ closed \in SUBSET Client
    /\ task \in [Slot -> TaskState]
    /\ starting \in Seq({"auth", "userdb", "password"})

(***************************************************************************)
(* The breaker is closed exactly while fewer failures than the threshold   *)
(* have been counted since the last success, whoever counts them: connect()*)
(* and userBind() of requests that overlap, and answer in any order.       *)
(***************************************************************************)
BreakerCounts == circuitState = "closed" <=> failureCount < FailureThreshold

(***************************************************************************)
(* An open breaker shields the servers: until the reset timeout has passed,*)
(* the only attempts under way are those that began before the failure     *)
(* that opened it, those of connect()'s next servers included.             *)
(***************************************************************************)
OpenShields ==
    circuitState = "open" /\ ~ResetTimeoutPassed =>
      \A k \in Slot :
        task[k].pc \in {"dse", "tls", "cleanup", "user"} =>
          task[k].since <= lastFailureTime

(***************************************************************************)
(* The object does not keep a client that was closed: unbind() is called   *)
(* on whatever client the object has at the time, another request's too,   *)
(* and the request that calls it is the one that clears the field.         *)
(***************************************************************************)
ClosedIsLeft ==
    client \in closed =>
      \E k \in Slot : task[k].pc \in {"unbind", "cleanup"} /\ task[k].conn = client

(***************************************************************************)
(* A user is searched for as the manager: the client that search() uses is *)
(* one that was bound.                                                     *)
(***************************************************************************)
SearchAsManager ==
    [][\A k \in Slot :
         task[k].pc = "validated" /\ Head(task[k].todo) = "search"
         /\ task'[k].pc = "operation" => client \in bound]_vars

=============================================================================
