----------------------- MODULE LdapConnection_proofs -----------------------
(***************************************************************************)
(* Proofs about LdapConnection, for any number of requests, servers,       *)
(* retries and failures, and any timeouts: type correctness and the three  *)
(* safety invariants.                                                      *)
(***************************************************************************)
EXTENDS LdapConnection, TLAPS

(* What a request waits for tells what it has.                             *)
ShapeOf(v) ==
    /\ v.pc \in {"call", "validated", "health", "unbind", "sleep", "operation",
                 "backoff", "user", "own"} => v.todo # <<>>
    /\ v.pc \in {"dse", "tls", "cleanup"} => v.url < Servers
    /\ v.pc = "backoff" => v.attempt < MaxRetries
    /\ v.pc = "operation" => v.conn \in Client
    /\ v.since <= clock

Tasks ==
    /\ task \in [Slot -> TaskState]
    /\ \A k \in Slot : ShapeOf(task[k])

Fields ==
    /\ clock \in Nat
    /\ client \in Client \cup {None}
    /\ connected \in BOOLEAN
    /\ lastHealthCheck \in Nat
    /\ bound \in SUBSET Client
    /\ closed \in SUBSET Client
    /\ starting \in Seq({"auth", "userdb", "password"})

(* The breaker, with the times in the order in which they passed.          *)
Breaker ==
    /\ circuitState \in {"closed", "open", "half_open"}
    /\ failureCount \in 0 .. FailureThreshold
    /\ lastFailureTime \in Nat
    /\ lastFailureTime <= clock
    /\ BreakerCounts
    /\ OpenShields

IInv == Tasks /\ Fields /\ Breaker /\ ClosedIsLeft

-----------------------------------------------------------------------------
(* The constants, and the sequences of calls *)

LEMMA Sizes ==
    /\ Servers \in Nat /\ Servers > 0
    /\ MaxRetries \in Nat /\ MaxRetries > 0
    /\ FailureThreshold \in Nat /\ FailureThreshold > 0
    /\ ResetTimeout \in Nat /\ HealthCheckInterval \in Nat
    /\ PasswordMode \in {"standard", "extended", "AD"}
    /\ None \notin Client
    /\ Startup \in Seq({"auth", "userdb", "password"})
BY LdapAssumption

LEMMA StepsType ==
    ASSUME NEW kind \in {"auth", "user", "password", "confirm"},
           NEW s \in StepsOf(kind)
    PROVE  s \in Seq(Step) /\ s # <<>>
<1>. DEFINE Good == {q \in Seq(Step) : q # <<>>}
<1>1. /\ <<"validate", "bind", "search", "userBind">> \in Good
      /\ <<"validate", "bind", "search">> \in Good
      /\ <<"validate", "breaker">> \in Good /\ <<"validate">> \in Good
      /\ <<"userBind">> \in Good /\ <<"own">> \in Good
      /\ <<"search">> \in Seq(Step) /\ <<>> \in Seq(Step)
      /\ AsManager \in Good
  BY DEF Step, AsManager
<1>2. \A p \in Good, q \in Seq(Step) : p \o q \in Good
  OBVIOUS
<1>3. Change \subseteq Good
  BY <1>1 DEF Change
<1>4. ModifyStandard \subseteq Good /\ ModifyExtended \subseteq Good
      /\ ModifyAD \subseteq Good
  BY <1>1, <1>2, <1>3 DEF ModifyStandard, ModifyExtended, ModifyAD
<1>5. PasswordSteps \subseteq Good
  <2>. DEFINE changes == CASE PasswordMode = "standard" -> ModifyStandard
                           [] PasswordMode = "extended" -> ModifyExtended
                           [] PasswordMode = "AD"       -> ModifyAD
              resets == {<<>>} \cup IF ForceReset THEN {AsManager} ELSE {}
  <2>1. changes \subseteq Good
    BY <1>4, Sizes
  <2>2. resets \subseteq Seq(Step)
    BY <1>1
  <2>3. \A c \in changes, r \in resets : (<<"validate", "breaker">> \o c) \o r \in Good
    BY <1>1, <1>2, <2>1, <2>2
  <2>4. PasswordSteps =
          {(<<"validate", "breaker">> \o c) \o r : c \in changes, r \in resets}
            \cup IF RequireOldPassword THEN {<<"validate">>} ELSE {}
    BY SMT DEF PasswordSteps
  <2>. HIDE DEF Good, changes, resets
  <2>5. ASSUME NEW q \in PasswordSteps, q # <<"validate">> PROVE q \in Good
    <3>1. \E c \in changes : \E r \in resets : q = (<<"validate", "breaker">> \o c) \o r
      BY SMT, <2>4, <2>5
    <3>2. PICK c \in changes : \E r \in resets : q = (<<"validate", "breaker">> \o c) \o r
      BY <3>1
    <3>3. PICK r \in resets : q = (<<"validate", "breaker">> \o c) \o r
      BY <3>2
    <3>. QED
      BY <2>3, <3>3
  <2>. QED
    BY <1>1, <2>5
<1>6. UserSteps \subseteq Good
  BY <1>1, <1>2 DEF UserSteps
<1>. QED
  BY <1>1, <1>5, <1>6 DEF StepsOf, AuthSteps, ConfirmSteps

-----------------------------------------------------------------------------
(* The requests *)

LEMMA IdleGood == Fields => Idle \in TaskState /\ ShapeOf(Idle)
<1>. <<>> \in Seq(Step)
  OBVIOUS
<1>. QED
  BY LdapAssumption DEF Fields, Idle, TaskState, ShapeOf

LEMMA BecomeTasks ==
    ASSUME Tasks, NEW k \in Slot, NEW v \in TaskState, ShapeOf(v),
           Become(k, v), UNCHANGED clock
    PROVE  Tasks'
<1>1. task' \in [Slot -> TaskState]
  BY DEF Tasks, Become
<1>2. ASSUME NEW l \in Slot PROVE ShapeOf(task[l])'
  BY DEF Tasks, Become, ShapeOf
<1>. QED
  BY <1>1, <1>2 DEF Tasks

LEMMA SucceedTasks ==
    ASSUME Tasks, Fields, NEW k \in Slot, task[k].todo # <<>>, Succeed(k),
           UNCHANGED clock
    PROVE  Tasks'
<1>. DEFINE rest == Tail(task[k].todo)
            v == [Idle EXCEPT !.todo = rest, !.pc = "call"]
<1>1. rest \in Seq(Step)
  BY DEF Tasks, TaskState
<1>2. CASE rest = <<>>
  BY <1>2, IdleGood, BecomeTasks DEF Succeed
<1>3. CASE rest # <<>>
  <2>1. v \in TaskState
    BY <1>1, IdleGood DEF TaskState, Idle
  <2>2. ShapeOf(v)
    BY <1>3, IdleGood DEF ShapeOf, Idle
  <2>. QED
    BY <1>3, <2>1, <2>2, BecomeTasks DEF Succeed
<1>. QED
  BY <1>2, <1>3

LEMMA FailTasks ==
    ASSUME Tasks, Fields, NEW k \in Slot, Fail(k), UNCHANGED clock
    PROVE  Tasks'
BY IdleGood, BecomeTasks DEF Fail

LEMMA ValidatedTasks ==
    ASSUME Tasks, Fields, NEW k \in Slot, task[k].todo # <<>>, Validated(k),
           UNCHANGED clock
    PROVE  Tasks'
<1>. DEFINE v == [Idle EXCEPT !.todo = task[k].todo, !.pc = "validated",
                              !.attempt = task[k].attempt]
<1>1. CASE Succeed(k)
  BY <1>1, SucceedTasks
<1>2. CASE Become(k, v)
  <2>1. v \in TaskState
    BY IdleGood DEF Tasks, TaskState, Idle
  <2>2. ShapeOf(v)
    BY IdleGood DEF ShapeOf, Idle
  <2>. QED
    BY <1>2, <2>1, <2>2, BecomeTasks
<1>. QED
  BY <1>1, <1>2 DEF Validated

LEMMA NextTryTasks ==
    ASSUME Tasks, Fields, NEW k \in Slot, NextTry(k), UNCHANGED clock
    PROVE  Tasks'
<1>. DEFINE v == [task[k] EXCEPT !.pc = "sleep", !.conn = None, !.since = 0,
                                 !.url = 0, !.tries = @ + 1]
<1>1. CASE Fail(k)
  BY <1>1, FailTasks
<1>2. CASE /\ task[k].todo # <<>> /\ task[k].tries + 1 < MaxRetries
           /\ Become(k, v)
  <2>1. v \in TaskState
    <3>1. task[k].tries + 1 \in 0 .. MaxRetries - 1 /\ 0 \in 0 .. Servers
      BY <1>2, Sizes DEF Tasks, TaskState
    <3>. QED
      BY <3>1 DEF Tasks, TaskState
  <2>2. ShapeOf(v)
    BY <1>2 DEF ShapeOf, Tasks, TaskState, Fields
  <2>. QED
    BY <1>2, <2>1, <2>2, BecomeTasks
<1>. QED
  BY <1>1, <1>2 DEF NextTry

LEMMA OpenTasks ==
    ASSUME Tasks, Fields, NEW k \in Slot, NEW v \in TaskState,
           v.url < Servers, v.since <= clock,
           OpenClient(k, v), UNCHANGED clock
    PROVE  Tasks'
<1>1. PICK c \in Client : Become(k, [v EXCEPT !.pc = "dse", !.conn = c])
  BY DEF OpenClient
<1>2. [v EXCEPT !.pc = "dse", !.conn = c] \in TaskState
  BY DEF TaskState
<1>3. ShapeOf([v EXCEPT !.pc = "dse", !.conn = c])
  BY DEF ShapeOf, TaskState
<1>. QED
  BY <1>1, <1>2, <1>3, BecomeTasks

LEMMA ReconnectTasks ==
    ASSUME Tasks, Fields, NEW k \in Slot, task[k].todo # <<>>, Reconnect(k)
    PROVE  Tasks'
<1>. DEFINE v == [task[k] EXCEPT !.pc = "unbind", !.conn = client, !.since = 0]
            w == [task[k] EXCEPT !.pc = "connect", !.conn = None, !.since = 0]
<1>1. v \in TaskState /\ w \in TaskState
  BY DEF Tasks, TaskState, Fields
<1>2. ShapeOf(v) /\ ShapeOf(w)
  BY DEF ShapeOf, Tasks, TaskState, Fields
<1>. QED
  BY <1>1, <1>2, BecomeTasks DEF Reconnect

LEMMA NextServerTasks ==
    ASSUME Tasks, Fields, NEW k \in Slot, NextServer(k),
           task[k].pc \in {"dse", "tls", "cleanup"}
    PROVE  Tasks'
<1>. DEFINE v == [task[k] EXCEPT !.url = @ + 1]
<1>1. v \in TaskState /\ v.url = task[k].url + 1 /\ v.since <= clock
  <2>1. /\ task[k] \in TaskState /\ task[k].url + 1 \in 0 .. Servers
        /\ task[k].since <= clock
    BY Sizes DEF Tasks, TaskState, ShapeOf
  <2>. QED
    BY <2>1 DEF TaskState
<1>2. CASE v.url < Servers /\ OpenClient(k, v)
  BY <1>1, <1>2, OpenTasks DEF NextServer
<1>3. CASE NextTry(k)
  BY <1>3, NextTryTasks DEF NextServer
<1>. QED
  BY <1>2, <1>3 DEF NextServer

LEMMA ContinueTasks ==
    ASSUME Tasks, Fields, NEW k \in Slot, Continue(k)
    PROVE  Tasks'
<1>0. task[k] \in TaskState /\ ShapeOf(task[k])
  BY DEF Tasks
<1>1. CASE ConnectAllowed(k)
  <2>. DEFINE v == [task[k] EXCEPT !.url = 0, !.since = clock]
  <2>1. v \in TaskState /\ v.url < Servers /\ v.since <= clock
    <3>1. 0 \in 0 .. Servers /\ clock \in Nat
      BY Sizes DEF Fields
    <3>2. v \in TaskState
      BY <1>0, <3>1 DEF TaskState
    <3>3. v.url = 0 /\ v.since = clock
      BY <1>0 DEF TaskState
    <3>. QED
      BY <3>1, <3>2, <3>3, Sizes
  <2>. QED
    BY <1>1, <2>1, OpenTasks DEF ConnectAllowed
<1>2. CASE ConnectRefused(k)
  BY <1>2, NextTryTasks DEF ConnectRefused
<1>3. CASE Connected(k) \/ TlsStarted(k)
  <2>1. CASE task[k].todo = <<>> /\ Become(k, Idle)
    BY <1>3, <2>1, IdleGood, BecomeTasks DEF Connected, TlsStarted, ServerAnswers
  <2>2. CASE task[k].todo # <<>> /\ Validated(k)
    BY <1>3, <2>2, ValidatedTasks DEF Connected, TlsStarted, ServerAnswers
  <2>. QED
    BY <1>3, <2>1, <2>2 DEF Connected, TlsStarted, ServerAnswers
<1>4. CASE ServerFailsAlone(k) \/ Cleaned(k)
  BY <1>4, NextServerTasks DEF ServerFailsAlone, Cleaned
<1>5. CASE RecentlyValidated(k) \/ HealthCheckPassed(k)
  BY <1>0, <1>5, ValidatedTasks
  DEF RecentlyValidated, HealthCheckPassed, Calls, ShapeOf
<1>6. CASE NotConnected(k) \/ HealthCheckFailed(k)
  BY <1>0, <1>6, ReconnectTasks
  DEF NotConnected, HealthCheckFailed, Calls, ShapeOf
<1>7. CASE OperationDone(k) \/ MayModify(k) \/ UserBound(k)
           \/ (OwnClientDone(k) /\ Succeed(k))
  BY <1>0, <1>7, SucceedTasks
  DEF OperationDone, MayModify, UserBound, OwnClientDone, Calls, ShapeOf
<1>8. CASE \/ NoClient(k) \/ OperationFails(k) \/ Refused(k) \/ UserRefused(k)
           \/ UserBindLost(k) \/ (OwnClientDone(k) /\ Fail(k))
  BY <1>8, FailTasks
  DEF NoClient, OperationFails, Refused, UserRefused, UserBindLost, OwnClientDone
<1>9. ASSUME NEW v \in TaskState, ShapeOf(v), Become(k, v), UNCHANGED clock
      PROVE  Tasks'
  BY <1>9, BecomeTasks
<1>10. CASE Wake(k) \/ Unbound(k)
  <2>. DEFINE v == [task[k] EXCEPT !.pc = "connect"]
              w == [task[k] EXCEPT !.pc = "connect", !.conn = None]
  <2>1. v \in TaskState /\ w \in TaskState /\ ShapeOf(v) /\ ShapeOf(w)
    BY <1>0 DEF TaskState, ShapeOf
  <2>. QED
    BY <1>9, <1>10, <2>1 DEF Wake, Unbound
<1>11. CASE TlsBegins(k) \/ ServerFails(k)
  <2>. DEFINE v == [task[k] EXCEPT !.pc = "tls", !.conn = client]
              w == [task[k] EXCEPT !.pc = "cleanup", !.conn = client]
  <2>1. task[k].pc \in {"dse", "tls"}
    BY <1>11 DEF TlsBegins, ServerFails
  <2>2. v \in TaskState /\ w \in TaskState
    BY <1>0 DEF TaskState, Fields
  <2>3. ShapeOf(v) /\ ShapeOf(w)
    BY <1>0, <2>1 DEF TaskState, ShapeOf
  <2>. QED
    BY <1>9, <1>11, <2>2, <2>3 DEF TlsBegins, ServerFails
<1>12. CASE HealthCheck(k) \/ UserBind(k) \/ OwnClient(k) \/ Operation(k)
  <2>. DEFINE v == [task[k] EXCEPT !.pc = "health", !.conn = client,
                                   !.since = clock]
              w == [task[k] EXCEPT !.pc = "user", !.since = clock]
              x == [task[k] EXCEPT !.pc = "own"]
              y == [task[k] EXCEPT !.pc = "operation", !.conn = client]
  <2>1. task[k].todo # <<>>
    BY <1>0, <1>12 DEF HealthCheck, UserBind, OwnClient, Operation, Calls, ShapeOf
  <2>2. v \in TaskState /\ w \in TaskState /\ x \in TaskState /\ y \in TaskState
    BY <1>0 DEF TaskState, Fields
  <2>3. ShapeOf(v) /\ ShapeOf(w) /\ ShapeOf(x)
    BY <1>0, <2>1 DEF TaskState, ShapeOf, Fields
  <2>4. client # None => ShapeOf(y)
    BY <1>0, <2>1 DEF TaskState, ShapeOf, Fields
  <2>. QED
    BY <1>9, <1>12, <2>2, <2>3, <2>4 DEF HealthCheck, UserBind, OwnClient, Operation
<1>13. CASE ConnectionLost(k)
  <2>. DEFINE v == [task[k] EXCEPT !.pc = "backoff", !.conn = None]
  <2>1. v \in TaskState /\ ShapeOf(v)
    BY <1>0, <1>13 DEF ConnectionLost, TaskState, ShapeOf
  <2>. QED
    BY <1>9, <1>13, <2>1 DEF ConnectionLost
<1>14. CASE Retry(k)
  <2>. DEFINE v == [task[k] EXCEPT !.pc = "call", !.attempt = @ + 1]
  <2>1. v \in TaskState /\ ShapeOf(v)
    <3>1. task[k].attempt + 1 \in 0 .. MaxRetries /\ task[k].todo # <<>>
      BY <1>0, <1>14, Sizes DEF Retry, TaskState, ShapeOf
    <3>. QED
      BY <1>0, <3>1 DEF TaskState, ShapeOf
  <2>. QED
    BY <1>9, <1>14, <2>1 DEF Retry
<1>. QED
  BY <1>1, <1>2, <1>3, <1>4, <1>5, <1>6, <1>7, <1>8, <1>10, <1>11, <1>12, <1>13,
     <1>14 DEF Continue, OwnClientDone

-----------------------------------------------------------------------------
(* The fields *)

LEMMA ContinueFields ==
    ASSUME Tasks, Fields, NEW k \in Slot, Continue(k)
    PROVE  Fields'
<1>0. task[k] \in TaskState
  BY DEF Tasks
<1>1. ASSUME NEW v, OpenClient(k, v)
      PROVE  /\ client' \in Client \cup {None}
             /\ bound' \in SUBSET Client
             /\ closed' \in SUBSET Client
  BY <1>1 DEF OpenClient, Fields
<1>2. CASE ConnectAllowed(k)
  BY <1>1, <1>2 DEF ConnectAllowed, Fields
<1>3. CASE ServerFailsAlone(k) \/ Cleaned(k)
  BY <1>1, <1>3 DEF ServerFailsAlone, Cleaned, NextServer, Fields
<1>4. CASE NotConnected(k) \/ HealthCheckFailed(k)
  BY <1>4 DEF NotConnected, HealthCheckFailed, Reconnect, Fields
<1>5. CASE Connected(k) \/ TlsStarted(k) \/ TlsBegins(k) \/ ServerFails(k)
           \/ Unbound(k)
  BY <1>5
  DEF Connected, TlsStarted, ServerAnswers, TlsBegins, ServerFails, Unbound,
      Fields, fields
<1>6. CASE HealthCheckPassed(k)
  BY <1>0, <1>6 DEF HealthCheckPassed, Fields, TaskState
<1>7. CASE OperationDone(k)
  BY <1>7 DEF OperationDone, Fields, fields, Tasks, ShapeOf
<1>8. CASE ConnectionLost(k)
  BY <1>8 DEF ConnectionLost, Fields
<1>9. CASE \/ ConnectRefused(k) \/ Wake(k) \/ RecentlyValidated(k)
           \/ HealthCheck(k) \/ Operation(k) \/ NoClient(k)
           \/ OperationFails(k) \/ Retry(k) \/ MayModify(k) \/ Refused(k)
           \/ OwnClient(k) \/ OwnClientDone(k) \/ UserBind(k) \/ UserBound(k)
           \/ UserRefused(k) \/ UserBindLost(k)
  BY <1>9
  DEF ConnectRefused, Wake, RecentlyValidated, HealthCheck, Operation, NoClient,
      OperationFails, Retry, MayModify, Refused, OwnClient, OwnClientDone,
      UserBind, UserBound, UserRefused, UserBindLost, Fields, fields
<1>. QED
  BY <1>2, <1>3, <1>4, <1>5, <1>6, <1>7, <1>8, <1>9 DEF Continue

-----------------------------------------------------------------------------
(* The breaker *)

Attempting == {"dse", "tls", "cleanup", "user"}

(* A step of a request that keeps the breaker: what it attempts, it        *)
(* attempted before.                                                       *)
LEMMA SameBreaker ==
    ASSUME Tasks, Fields, Breaker, NEW k \in Slot, UNCHANGED <<breaker, clock>>,
           \A l \in Slot \ {k} : task'[l] = task[l],
           task'[k].pc \in Attempting =>
             task[k].pc \in Attempting /\ task'[k].since = task[k].since
    PROVE  Breaker'
BY DEF Breaker, BreakerCounts, OpenShields, ResetTimeoutPassed, Attempting, breaker

LEMMA AttemptBreaker ==
    ASSUME Breaker, AttemptConnection, UNCHANGED clock
    PROVE  Breaker'
BY DEF Breaker, BreakerCounts, OpenShields, AttemptConnection

LEMMA SuccessBreaker ==
    ASSUME Breaker, OnConnectionSuccess, UNCHANGED clock
    PROVE  Breaker'
BY Sizes DEF Breaker, BreakerCounts, OpenShields, OnConnectionSuccess

LEMMA FailureBreaker ==
    ASSUME Tasks', Fields, Breaker, OnConnectionFailure, UNCHANGED clock
    PROVE  Breaker'
<1>1. /\ circuitState' \in {"closed", "open", "half_open"}
      /\ failureCount' \in 0 .. FailureThreshold
      /\ lastFailureTime' = clock
      /\ BreakerCounts'
  BY Sizes DEF Breaker, BreakerCounts, OnConnectionFailure
<1>2. OpenShields'
  BY <1>1 DEF OpenShields, Tasks, ShapeOf
<1>. QED
  BY <1>1, <1>2 DEF Breaker, Fields

LEMMA ContinueBreaker ==
    ASSUME Tasks, Fields, Breaker, Tasks', NEW k \in Slot, Continue(k)
    PROVE  Breaker'
<1>0. task \in [Slot -> TaskState] /\ task[k] \in TaskState
  BY DEF Tasks
<1>a. ASSUME NEW v, Become(k, v) PROVE \A l \in Slot \ {k} : task'[l] = task[l]
  BY <1>0, <1>a DEF Become
<1>b. ASSUME NEW v, Become(k, v) PROVE task'[k] = v
  BY <1>0, <1>b DEF Become
<1>c. ASSUME NEW v, Become(k, v), v.pc \notin Attempting,
             UNCHANGED <<breaker, clock>>
      PROVE  Breaker'
  BY <1>a, <1>b, <1>c, SameBreaker
<1>d. Idle.pc \notin Attempting
  BY DEF Idle, Attempting
<1>e. ASSUME Fail(k), UNCHANGED <<breaker, clock>> PROVE Breaker'
  BY <1>c, <1>d, <1>e DEF Fail
<1>f. ASSUME Succeed(k), UNCHANGED <<breaker, clock>> PROVE Breaker'
  <2>1. [Idle EXCEPT !.todo = Tail(task[k].todo), !.pc = "call"].pc \notin Attempting
    BY DEF Idle, Attempting
  <2>. QED
    BY <1>c, <1>d, <1>f, <2>1 DEF Succeed
<1>g. ASSUME Validated(k), UNCHANGED <<breaker, clock>> PROVE Breaker'
  <2>1. [Idle EXCEPT !.todo = task[k].todo, !.pc = "validated",
                     !.attempt = task[k].attempt].pc \notin Attempting
    BY DEF Idle, Attempting
  <2>. QED
    BY <1>c, <1>f, <1>g, <2>1 DEF Validated
<1>h. ASSUME NextTry(k), UNCHANGED <<breaker, clock>> PROVE Breaker'
  <2>1. [task[k] EXCEPT !.pc = "sleep", !.conn = None, !.since = 0,
                        !.url = 0, !.tries = @ + 1].pc \notin Attempting
    BY <1>0 DEF TaskState, Attempting
  <2>. QED
    BY <1>c, <1>e, <1>h, <2>1 DEF NextTry
<1>1. CASE ConnectAllowed(k) \/ MayModify(k) \/ UserBind(k)
  BY <1>1, AttemptBreaker DEF ConnectAllowed, MayModify, UserBind
<1>2. CASE Connected(k) \/ TlsStarted(k) \/ UserBound(k)
  BY <1>2, SuccessBreaker DEF Connected, TlsStarted, ServerAnswers, UserBound
<1>3. CASE UserBindLost(k)
  BY <1>3, FailureBreaker DEF UserBindLost
<1>4. CASE ServerFailsAlone(k) \/ Cleaned(k)
  <2>. DEFINE v == [task[k] EXCEPT !.url = @ + 1]
  <2>1. CASE OpenClient(k, v) /\ UNCHANGED breaker
    <3>1. PICK c : Become(k, [v EXCEPT !.pc = "dse", !.conn = c])
      BY <2>1 DEF OpenClient
    <3>2. /\ [v EXCEPT !.pc = "dse", !.conn = c].since = task[k].since
          /\ task[k].pc \in Attempting
      BY <1>0, <1>4 DEF TaskState, ServerFailsAlone, Cleaned, Attempting
    <3>. QED
      BY <1>4, <1>a, <1>b, <2>1, <3>1, <3>2, SameBreaker
      DEF ServerFailsAlone, Cleaned, NextServer
  <2>2. CASE OnConnectionFailure
    BY <1>4, <2>2, FailureBreaker DEF ServerFailsAlone, Cleaned, NextServer
  <2>. QED
    BY <1>4, <2>1, <2>2 DEF ServerFailsAlone, Cleaned, NextServer
<1>5. CASE TlsBegins(k) \/ ServerFails(k)
  <2>1. /\ [task[k] EXCEPT !.pc = "tls", !.conn = client].since = task[k].since
        /\ [task[k] EXCEPT !.pc = "cleanup", !.conn = client].since = task[k].since
        /\ task[k].pc \in Attempting
    BY <1>0, <1>5 DEF TaskState, TlsBegins, ServerFails, Attempting
  <2>. QED
    BY <1>5, <1>a, <1>b, <2>1, SameBreaker DEF TlsBegins, ServerFails
<1>6. CASE ConnectRefused(k)
  BY <1>6, <1>h DEF ConnectRefused
<1>7. CASE RecentlyValidated(k) \/ HealthCheckPassed(k)
  BY <1>7, <1>g DEF RecentlyValidated, HealthCheckPassed
<1>8. CASE OperationDone(k) \/ (OwnClientDone(k) /\ Succeed(k))
  BY <1>8, <1>f DEF OperationDone, OwnClientDone
<1>9. CASE \/ NoClient(k) \/ OperationFails(k) \/ Refused(k) \/ UserRefused(k)
           \/ (OwnClientDone(k) /\ Fail(k))
  BY <1>9, <1>e DEF NoClient, OperationFails, Refused, UserRefused, OwnClientDone
<1>10. CASE NotConnected(k) \/ HealthCheckFailed(k)
  <2>1. /\ [task[k] EXCEPT !.pc = "unbind", !.conn = client, !.since = 0].pc
             \notin Attempting
        /\ [task[k] EXCEPT !.pc = "connect", !.conn = None, !.since = 0].pc
             \notin Attempting
    BY <1>0 DEF TaskState, Attempting
  <2>. QED
    BY <1>10, <1>c, <2>1 DEF NotConnected, HealthCheckFailed, Reconnect
<1>11. CASE \/ Wake(k) \/ Unbound(k) \/ HealthCheck(k) \/ Operation(k)
            \/ ConnectionLost(k) \/ Retry(k) \/ OwnClient(k)
  <2>1. /\ [task[k] EXCEPT !.pc = "connect"].pc \notin Attempting
        /\ [task[k] EXCEPT !.pc = "connect", !.conn = None].pc \notin Attempting
        /\ [task[k] EXCEPT !.pc = "health", !.conn = client,
                           !.since = clock].pc \notin Attempting
        /\ [task[k] EXCEPT !.pc = "operation", !.conn = client].pc \notin Attempting
        /\ [task[k] EXCEPT !.pc = "backoff", !.conn = None].pc \notin Attempting
        /\ [task[k] EXCEPT !.pc = "call", !.attempt = @ + 1].pc \notin Attempting
        /\ [task[k] EXCEPT !.pc = "own"].pc \notin Attempting
    BY <1>0 DEF TaskState, Attempting
  <2>. QED
    BY <1>11, <1>c, <2>1
    DEF Wake, Unbound, HealthCheck, Operation, ConnectionLost, Retry, OwnClient
<1>. QED
  BY <1>1, <1>2, <1>3, <1>4, <1>5, <1>6, <1>7, <1>8, <1>9, <1>10, <1>11
  DEF Continue, OwnClientDone

-----------------------------------------------------------------------------
(* The client *)

Leaving(v) == v.pc \in {"unbind", "cleanup"}

(* A step that closes no client.                                           *)
LEMMA SameClient ==
    ASSUME Tasks, ClosedIsLeft, NEW k \in Slot, UNCHANGED <<client, closed>>,
           NEW v, Become(k, v), ~Leaving(task[k])
    PROVE  ClosedIsLeft'
BY DEF ClosedIsLeft, Become, Leaving, Tasks

LEMMA ContinueClient ==
    ASSUME Tasks, Fields, ClosedIsLeft, NEW k \in Slot, Continue(k)
    PROVE  ClosedIsLeft'
<1>0. task \in [Slot -> TaskState] /\ task[k] \in TaskState /\ None \notin closed
  BY Sizes DEF Tasks, Fields
<1>a. ASSUME NEW v, OpenClient(k, v) PROVE ClosedIsLeft'
  BY <1>a DEF OpenClient, ClosedIsLeft
<1>b. ASSUME client' = None, closed' = closed PROVE ClosedIsLeft'
  BY <1>0, <1>b DEF ClosedIsLeft
<1>c. ASSUME NEW v, Become(k, v), Leaving(v), v.conn = client, client' = client
      PROVE  ClosedIsLeft'
  BY <1>0, <1>c DEF ClosedIsLeft, Become, Leaving
<1>d. ASSUME NEW v, Become(k, v), UNCHANGED <<client, closed>>, ~Leaving(task[k])
      PROVE  ClosedIsLeft'
  BY <1>d, SameClient
<1>e. Succeed(k) => \E v : Become(k, v)
  BY DEF Succeed
<1>f. Fail(k) => \E v : Become(k, v)
  BY DEF Fail
<1>g. Validated(k) => \E v : Become(k, v)
  BY <1>e DEF Validated
<1>h. NextTry(k) => \E v : Become(k, v)
  BY <1>f DEF NextTry
<1>1. CASE ConnectAllowed(k)
  BY <1>1, <1>a DEF ConnectAllowed
<1>2. CASE ServerFailsAlone(k) \/ Cleaned(k)
  BY <1>2, <1>a, <1>b DEF ServerFailsAlone, Cleaned, NextServer
<1>3. CASE Unbound(k)
  BY <1>3, <1>b DEF Unbound
<1>4. CASE ServerFails(k)
  <2>1. /\ Leaving([task[k] EXCEPT !.pc = "cleanup", !.conn = client])
        /\ [task[k] EXCEPT !.pc = "cleanup", !.conn = client].conn = client
    BY <1>0 DEF TaskState, Leaving
  <2>. QED
    BY <1>4, <1>c, <2>1 DEF ServerFails, fields
<1>5. CASE NotConnected(k) \/ HealthCheckFailed(k)
  <2>1. /\ Leaving([task[k] EXCEPT !.pc = "unbind", !.conn = client, !.since = 0])
        /\ [task[k] EXCEPT !.pc = "unbind", !.conn = client, !.since = 0].conn
             = client
    BY <1>0 DEF TaskState, Leaving
  <2>2. ~Leaving(task[k])
    BY <1>5 DEF NotConnected, HealthCheckFailed, Calls, Leaving
  <2>. QED
    BY <1>5, <1>c, <1>d, <2>1, <2>2 DEF NotConnected, HealthCheckFailed, Reconnect
<1>6. CASE \/ ConnectRefused(k) \/ Connected(k) \/ TlsStarted(k)
           \/ RecentlyValidated(k) \/ HealthCheckPassed(k) \/ NoClient(k)
           \/ OperationDone(k) \/ OperationFails(k) \/ MayModify(k)
           \/ Refused(k) \/ OwnClientDone(k) \/ UserBound(k) \/ UserRefused(k)
           \/ UserBindLost(k)
  <2>1. ~Leaving(task[k]) /\ UNCHANGED <<client, closed>>
    BY <1>6
    DEF ConnectRefused, Connected, TlsStarted, ServerAnswers, RecentlyValidated,
        HealthCheckPassed, NoClient, OperationDone, OperationFails, MayModify,
        Refused, OwnClientDone, UserBound, UserRefused, UserBindLost, Calls,
        Leaving, fields
  <2>2. \E v : Become(k, v)
    BY <1>6, <1>e, <1>f, <1>g, <1>h
    DEF ConnectRefused, Connected, TlsStarted, ServerAnswers, RecentlyValidated,
        HealthCheckPassed, NoClient, OperationDone, OperationFails, MayModify,
        Refused, OwnClientDone, UserBound, UserRefused, UserBindLost
  <2>. QED
    BY <1>d, <2>1, <2>2
<1>7. CASE \/ Wake(k) \/ TlsBegins(k) \/ HealthCheck(k) \/ Operation(k)
           \/ ConnectionLost(k) \/ Retry(k) \/ OwnClient(k) \/ UserBind(k)
  <2>1. ~Leaving(task[k]) /\ UNCHANGED <<client, closed>>
    BY <1>7
    DEF Wake, TlsBegins, HealthCheck, Operation, ConnectionLost, Retry, OwnClient,
        UserBind, Calls, Leaving, fields
  <2>2. \E v : Become(k, v)
    BY <1>7
    DEF Wake, TlsBegins, HealthCheck, Operation, ConnectionLost, Retry, OwnClient,
        UserBind
  <2>. QED
    BY <1>d, <2>1, <2>2
<1>. QED
  BY <1>1, <1>2, <1>3, <1>4, <1>5, <1>6, <1>7 DEF Continue

-----------------------------------------------------------------------------

LEMMA InitInv == Init => IInv
<1>. SUFFICES ASSUME Init PROVE IInv
  OBVIOUS
<1>1. Fields
  BY Sizes DEF Init, Fields
<1>2. Tasks
  BY <1>1, IdleGood DEF Init, Tasks
<1>3. Breaker
  BY Sizes DEF Init, Breaker, BreakerCounts, OpenShields
<1>4. ClosedIsLeft
  BY DEF Init, ClosedIsLeft
<1>. QED
  BY <1>1, <1>2, <1>3, <1>4 DEF IInv

(* A request that was not being served begins.                             *)
LEMMA BeginInv ==
    ASSUME IInv, NEW k \in Slot, StartModule(k) \/ Begin(k)
    PROVE  IInv'
<1>0. Tasks /\ Fields /\ Breaker /\ ClosedIsLeft
  BY DEF IInv
<1>1. /\ UNCHANGED <<clock, client, connected, lastHealthCheck, breaker, bound, closed>>
      /\ task[k] = Idle
  BY DEF StartModule, Begin, fields
<1>2. Fields'
  <2>1. \/ starting' = starting
        \/ starting # <<>> /\ starting' = Tail(starting)
    BY DEF StartModule, Begin
  <2>2. starting' \in Seq({"auth", "userdb", "password"})
    BY <1>0, <2>1 DEF Fields
  <2>. QED
    BY <1>0, <1>1, <2>2 DEF Fields
<1>3. CASE UNCHANGED task
  <2>1. Tasks'
    BY <1>0, <1>1, <1>3 DEF Tasks, ShapeOf
  <2>2. Breaker'
    BY <1>0, <1>1, <1>3
    DEF Breaker, BreakerCounts, OpenShields, ResetTimeoutPassed, breaker
  <2>3. ClosedIsLeft'
    BY <1>0, <1>1, <1>3 DEF ClosedIsLeft
  <2>. QED
    BY <1>2, <2>1, <2>2, <2>3 DEF IInv
<1>4. ASSUME NEW v \in TaskState, ShapeOf(v), v.pc \in {"connect", "call"},
             Become(k, v)
      PROVE  IInv'
  <2>1. Tasks'
    BY <1>0, <1>1, <1>4, BecomeTasks
  <2>2. /\ \A l \in Slot \ {k} : task'[l] = task[l]
        /\ task'[k].pc \notin Attempting
    BY <1>0, <1>4 DEF Become, Attempting, Tasks
  <2>3. Breaker'
    BY <1>0, <1>1, <2>2, SameBreaker
  <2>4. ~Leaving(task[k])
    BY <1>1 DEF Idle, Leaving
  <2>5. ClosedIsLeft'
    BY <1>0, <1>1, <1>4, <2>4, SameClient
  <2>. QED
    BY <1>2, <2>1, <2>3, <2>5 DEF IInv
<1>5. CASE StartModule(k)
  <2>. DEFINE v == [Idle EXCEPT !.pc = "connect"]
  <2>1. v \in TaskState /\ ShapeOf(v) /\ v.pc = "connect"
    BY <1>0, IdleGood DEF TaskState, Idle, ShapeOf
  <2>. QED
    BY <1>3, <1>4, <1>5, <2>1 DEF StartModule
<1>6. CASE Begin(k)
  <2>1. PICK kind \in Kinds[k] : \E s \in StepsOf(kind) :
          Become(k, [Idle EXCEPT !.todo = s, !.pc = "call"])
    BY <1>6 DEF Begin
  <2>2. PICK s \in StepsOf(kind) : Become(k, [Idle EXCEPT !.todo = s, !.pc = "call"])
    BY <2>1
  <2>3. kind \in {"auth", "user", "password", "confirm"}
    BY LdapAssumption
  <2>4. s \in Seq(Step) /\ s # <<>>
    BY <2>3, StepsType
  <2>. DEFINE v == [Idle EXCEPT !.todo = s, !.pc = "call"]
  <2>5. v \in TaskState /\ ShapeOf(v) /\ v.pc = "call"
    BY <1>0, <2>4, IdleGood DEF TaskState, Idle, ShapeOf
  <2>. QED
    BY <1>4, <2>2, <2>5
<1>. QED
  BY <1>5, <1>6

LEMMA StepInv == IInv /\ [Next]_vars => IInv'
<1>. SUFFICES ASSUME IInv, [Next]_vars PROVE IInv'
  OBVIOUS
<1>0. Tasks /\ Fields /\ Breaker /\ ClosedIsLeft
  BY DEF IInv
<1>1. ASSUME NEW k \in Slot, StartModule(k) \/ Begin(k) PROVE IInv'
  BY <1>1, BeginInv
<1>2. ASSUME NEW k \in Slot, Continue(k) PROVE IInv'
  <2>1. Tasks'
    BY <1>0, <1>2, ContinueTasks
  <2>. QED
    BY <1>0, <1>2, <2>1, ContinueFields, ContinueBreaker, ContinueClient DEF IInv
<1>3. CASE Tick \/ UNCHANGED vars
  <2>1. /\ UNCHANGED <<fields, breaker, bound, closed, task, starting>>
        /\ clock \in Nat /\ clock' \in Nat /\ clock <= clock'
    BY <1>0, <1>3 DEF Tick, vars, Fields
  <2>2. Fields'
    BY <1>0, <2>1 DEF Fields, fields
  <2>3. Tasks'
    BY <1>0, <2>1 DEF Tasks, ShapeOf, TaskState
  <2>4. Breaker'
    <3>1. ResetTimeoutPassed => ResetTimeoutPassed'
      <4>1. /\ lastFailureTime \in Nat /\ lastFailureTime' = lastFailureTime
            /\ clock \in Nat /\ clock' \in Nat /\ clock <= clock'
        BY <1>0, <2>1 DEF Breaker, breaker
      <4>2. ResetTimeout \in Nat
        BY Sizes
      <4>3. ASSUME NEW a \in Nat, NEW b \in Nat, NEW c \in Nat, NEW r \in Nat,
                   a <= b, a - c >= r
            PROVE  b - c >= r
        BY <4>3
      <4>. QED
        BY <4>1, <4>2, <4>3 DEF ResetTimeoutPassed
    <3>2. BreakerCounts' /\ OpenShields'
      BY <1>0, <2>1, <3>1 DEF Breaker, BreakerCounts, OpenShields, breaker
    <3>. QED
      BY <1>0, <2>1, <3>2 DEF Breaker, breaker
  <2>5. ClosedIsLeft'
    BY <1>0, <2>1 DEF ClosedIsLeft, fields
  <2>. QED
    BY <2>2, <2>3, <2>4, <2>5 DEF IInv
<1>. QED
  BY <1>1, <1>2, <1>3 DEF Next

THEOREM Invariance == Spec => []IInv
BY InitInv, StepInv, PTL DEF Spec

(* Every field of the connection and every request keeps its type, for any *)
(* number of requests, servers and retries.                                *)
THEOREM TypeCorrect == Spec => []TypeOK
<1>1. IInv => TypeOK
  BY DEF IInv, Tasks, Fields, Breaker, TypeOK
<1>. QED
  BY <1>1, Invariance, PTL

(* The breaker is closed exactly while the failures are fewer than the     *)
(* threshold, for every threshold and in every order of answers.           *)
THEOREM BreakerIsCounted == Spec => []BreakerCounts
<1>1. IInv => BreakerCounts
  BY DEF IInv, Breaker
<1>. QED
  BY <1>1, Invariance, PTL

(* While the breaker is open, whatever is being attempted began before it  *)
(* opened, for every timeout and any number of servers.                    *)
THEOREM BreakerShields == Spec => []OpenShields
<1>1. IInv => OpenShields
  BY DEF IInv, Breaker
<1>. QED
  BY <1>1, Invariance, PTL

(* A client that unbind() was called on does not stay in the object, with  *)
(* any number of requests reconnecting at the same time.                   *)
THEOREM ClosedClientIsLeft == Spec => []ClosedIsLeft
<1>1. IInv => ClosedIsLeft
  BY DEF IInv
<1>. QED
  BY <1>1, Invariance, PTL

=============================================================================
