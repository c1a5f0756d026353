------------------------------ MODULE CasIssuer ------------------------------
(***************************************************************************)
(* The CAS server of packages/issuer-cas: service tickets, proxy granting  *)
(* tickets and proxy tickets in a ticket store shared with other processes,*)
(* and the registrations for single logout, in the memory of the process.  *)
(*                                                                         *)
(* Every call of the store, of getSession() or of the HTTP client is       *)
(* awaited.  A step is the effect of such a call together with the code    *)
(* that its answer resumes, up to the next call; the code in between       *)
(* touches nothing that another task changes, except the registrations.    *)
(*                                                                         *)
(* handleLogin's answers that change nothing (an unknown service, a fake   *)
(* ticket, an upgrade, the gateway mode) are not steps.                    *)
(***************************************************************************)
EXTENDS Integers, Sequences, SequencesExt

CONSTANTS
    Slot,           \* the requests served at a time
    Session,        \* the sessions of the portal
    Service,        \* service URLs
    Registered,     \* those of applications of the configuration
    AllowProxy,     \* those with casAppMetaDataOptionsAllowProxy
    LogoutApps,     \* those with casAppMetaDataOptionsLogout = 1
    StepUp,         \* those that require an authentication level ...
    Strong,         \* ... and the sessions that have it
    Policy,         \* casAccessControlPolicy
    Ticket,         \* bound: the random identifiers that can be drawn
    TtlST, TtlPT, TtlPGT,
    Scenarios,      \* what may happen: one of them is chosen at the start
    NoTicket, None

ASSUME AppsAssumption ==
    /\ Registered \subseteq Service
    /\ AllowProxy \cup LogoutApps \cup StepUp \subseteq Registered
    /\ Strong \subseteq Session
    /\ Policy \in {"error", "faketicket", "none"}

TicketData ==
    [type : {"ST", "PT", "PGT"}, service : Service, session : Session,
     exp : Nat, renew : BOOLEAN, proxies : Seq(Service)]

Validations == {"validate", "serviceValidate", "samlValidate", "proxyValidate"}

ASSUME BoundsAssumption ==
    /\ {TtlST, TtlPT, TtlPGT} \subseteq Nat
    /\ \A sc \in Range(Scenarios) :
         /\ sc.kinds \subseteq {"login", "logout", "proxy"} \cup Validations
         /\ sc.services \subseteq Service
         /\ {sc.faulty, sc.restarting} \subseteq BOOLEAN
         /\ {sc.tickets, sc.maxClock, sc.maxLogouts} \subseteq Nat
    /\ NoTicket \notin TicketData
    /\ None \notin Ticket \cup Service \cup Session

(***************************************************************************)
(* A request being served.  pc is the call it awaits; got is the ticket it *)
(* read; new is the identifier of the ticket it creates and data what it   *)
(* stores under it; pos and array are the place of a logout in the array   *)
(* of registrations; late is TRUE if an earlier validation of the ticket   *)
(* had been answered when this one came.                                   *)
(***************************************************************************)
Idle ==
    [kind |-> "none", pc |-> "idle", ticket |-> None, service |-> None,
     renew |-> FALSE, pgtUrl |-> FALSE, got |-> NoTicket, new |-> None,
     data |-> NoTicket, session |-> None, array |-> 0, pos |-> 0,
     late |-> FALSE]

TaskState ==
    [kind : {"none", "login", "logout", "proxy"} \cup Validations,
     pc : {"idle", "set", "slo", "get", "delete", "session", "setPgt",
           "setIou", "callback", "undoPgt", "undoIou"},
     ticket : Ticket \cup {None}, service : Service \cup {None},
     renew : BOOLEAN, pgtUrl : BOOLEAN, got : TicketData \cup {NoTicket},
     new : Ticket \cup {None}, data : TicketData \cup {NoTicket},
     session : Session \cup {None}, array : Nat, pos : Nat, late : BOOLEAN]

VARIABLES
    scenario,
    clock,
    store,      \* the ticket store
    ious,       \* the PGTIOU store: the PGTs that a PGTIOU names
    prefix,     \* the identifiers drawn, with the type they begin with
    arrays,     \* the arrays of registrations made for each session
    current,    \* the one that appRegistrations has, or 0
    task,
    logouts,    \* how many logouts of a session began
    answered,   \* history: tickets of which a validation was answered
    sent,       \* history: services sent a logout request for a session
    delivered   \* history: PGTs whose callback was answered with success

history == <<answered, sent, delivered>>
vars == <<scenario, clock, store, ious, prefix, arrays, current, task, logouts,
          history>>

Kinds == Scenarios[scenario].kinds            \* of the requests that come
Services == Scenarios[scenario].services      \* those that requests name
Faulty == Scenarios[scenario].faulty          \* may the store fail?
Restarting == Scenarios[scenario].restarting  \* may the process be restarted?
MaxTickets == Scenarios[scenario].tickets     \* bound on the tickets
MaxClock == Scenarios[scenario].maxClock      \* bound on the clock
MaxLogouts == Scenarios[scenario].maxLogouts  \* bound on a session's logouts

Init ==
    /\ scenario \in DOMAIN Scenarios
    /\ clock = 0
    /\ store = [t \in Ticket |-> NoTicket]
    /\ ious = {}
    /\ prefix = [t \in Ticket |-> "none"]
    /\ arrays = [s \in Session |-> <<>>]
    /\ current = [s \in Session |-> 0]
    /\ task = [k \in Slot |-> Idle]
    /\ logouts = [s \in Session |-> 0]
    /\ answered = {}
    /\ sent = [s \in Session |-> {}]
    /\ delivered = {}

Expired(exp) == clock > exp

Draw(t, type) ==
    /\ prefix[t] = "none"
    /\ Cardinality({u \in Ticket : prefix[u] # "none"}) < MaxTickets
    /\ prefix' = [prefix EXCEPT ![t] = type]

End(k) == task' = [task EXCEPT ![k] = Idle]

-----------------------------------------------------------------------------
(* handleLogin *)

Admitted(s, sv) ==
    /\ sv \in Registered \/ Policy = "none"
    /\ sv \in StepUp => s \in Strong

Login(k, s, sv, rn, t) ==
    /\ "login" \in Kinds
    /\ sv \in Services
    /\ task[k] = Idle
    /\ Admitted(s, sv)
    /\ Draw(t, "ST")
    /\ task' = [task EXCEPT ![k] = [Idle EXCEPT
                  !.kind = "login", !.pc = "set", !.new = t, !.session = s,
                  !.data = [type |-> "ST", service |-> sv, session |-> s,
                            exp |-> clock + TtlST, renew |-> rn,
                            proxies |-> <<>>]]]
    /\ UNCHANGED <<scenario, clock, store, ious, arrays, current, logouts,
                   history>>

(* Mutant of RegisterApp: a new array instead of a push.                   *)
RegisterAppCopying(s, sv) ==
    LET a == current[s]
        old == IF a = 0 THEN <<>> ELSE arrays[s][a]
    IN  IF sv \notin Registered \/ Contains(old, sv)
        THEN UNCHANGED <<arrays, current>>
        ELSE /\ arrays' = [arrays EXCEPT ![s] = Append(@, Append(old, sv))]
             /\ current' = [current EXCEPT ![s] = Len(arrays[s]) + 1]

(* Mutant of RegisterApp: the push is taken for a new array.               *)
RegisterAppMiscounting(s, sv) ==
    LET a == current[s]
    IN  IF sv \notin Registered \/ (a # 0 /\ Contains(arrays[s][a], sv))
        THEN UNCHANGED <<arrays, current>>
        ELSE /\ arrays' = [arrays EXCEPT ![s] =
                  IF a = 0 THEN Append(@, <<sv>>)
                           ELSE [@ EXCEPT ![a] = Append(@, sv)]]
             /\ current' = [current EXCEPT ![s] = Len(arrays[s]) + 1]

(* registerAppForSession: the array of the session gets the service unless *)
(* it has it; the first registration makes the array.                      *)
RegisterApp(s, sv) ==
    LET a == current[s]
    IN  IF sv \notin Registered \/ (a # 0 /\ Contains(arrays[s][a], sv))
        THEN UNCHANGED <<arrays, current>>
        ELSE IF a = 0
        THEN /\ arrays' = [arrays EXCEPT ![s] = Append(@, <<sv>>)]
             /\ current' = [current EXCEPT ![s] = Len(arrays[s]) + 1]
        ELSE /\ arrays' = [arrays EXCEPT ![s][a] = Append(@, sv)]
             /\ UNCHANGED current

LoginStored(k) ==
    /\ task[k].kind = "login"
    /\ store' = [store EXCEPT ![task[k].new] = task[k].data]
    /\ RegisterApp(task[k].session, task[k].data.service)
    /\ End(k)
    /\ UNCHANGED <<scenario, clock, ious, prefix, logouts, history>>

-----------------------------------------------------------------------------
(* handleLogout: sendLogoutRequests() awaits one application after the     *)
(* other, in the array that registerAppForSession() pushes to.             *)

Remaining(s, a, pos) ==
    {i \in pos + 1 .. Len(arrays[s][a]) : arrays[s][a][i] \in LogoutApps}

Notify(k, s, a, pos) ==
    \/ \E i \in Remaining(s, a, pos) :
         /\ \A n \in Remaining(s, a, pos) : i <= n
         /\ task' = [task EXCEPT ![k] = [Idle EXCEPT
                       !.kind = "logout", !.pc = "slo", !.session = s,
                       !.array = a, !.pos = i]]
         /\ sent' = [sent EXCEPT ![s] = @ \cup {arrays[s][a][i]}]
         /\ UNCHANGED current
    \/ /\ Remaining(s, a, pos) = {}
       /\ End(k)
       /\ current' = [current EXCEPT ![s] = 0]
       /\ UNCHANGED sent

Logout(k, s) ==
    /\ "logout" \in Kinds
    /\ task[k] = Idle
    /\ logouts[s] < MaxLogouts
    /\ current[s] # 0
    /\ logouts' = [logouts EXCEPT ![s] = @ + 1]
    /\ Notify(k, s, current[s], 0)
    /\ UNCHANGED <<scenario, clock, store, ious, prefix, arrays, answered,
                   delivered>>

(* The application answered, or the request failed: both go on.            *)
LogoutSent(k) ==
    /\ task[k].pc = "slo"
    /\ Notify(k, task[k].session, task[k].array, task[k].pos)
    /\ UNCHANGED <<scenario, clock, store, ious, prefix, arrays, logouts,
                   answered, delivered>>

-----------------------------------------------------------------------------
(* handleValidate, handleServiceValidate, handleSamlValidate and           *)
(* handleProxyValidate: get, delete, checks, session, PGT.                 *)

Accepts(kind, type) ==
    type \in IF kind = "proxyValidate" THEN {"ST", "PT"} ELSE {"ST"}

Validate(k, kind, t, sv, rn, pu) ==
    /\ kind \in Kinds
    /\ sv \in Services
    /\ task[k] = Idle
    /\ Accepts(kind, prefix[t])
    /\ rn => kind \in {"validate", "serviceValidate"}
    /\ pu => kind \in {"serviceValidate", "proxyValidate"}
    /\ task' = [task EXCEPT ![k] = [Idle EXCEPT
                  !.kind = kind, !.pc = "get", !.ticket = t, !.service = sv,
                  !.renew = rn, !.pgtUrl = pu, !.late = t \in answered]]
    /\ UNCHANGED <<scenario, clock, store, ious, prefix, arrays, current,
                   logouts, history>>

TicketNotFound(k) ==
    /\ task[k].kind \in Validations
    /\ task[k].pc = "get"
    /\ store[task[k].ticket] = NoTicket
    /\ End(k)
    /\ UNCHANGED <<scenario, clock, store, ious, prefix, arrays, current,
                   logouts, history>>

TicketFound(k) ==
    LET t == task[k].ticket
    IN  /\ task[k].kind \in Validations
        /\ task[k].pc = "get"
        /\ store[t] # NoTicket
        /\ task' = [task EXCEPT ![k].pc = "delete", ![k].got = store[t]]
        /\ UNCHANGED <<scenario, clock, store, ious, prefix, arrays, current,
                       logouts, history>>

Matches(v) ==
    /\ ~Expired(v.got.exp)
    /\ v.got.service = v.service
    /\ v.renew => v.got.renew

Answer(k) ==
    /\ End(k)
    /\ answered' = answered \cup {task[k].ticket}

(* Mutant of TicketDeleted: nobody waits for the deletion.                 *)
TicketNotDeleted(k) ==
    LET v == task[k]
        ok == v.kind \in Validations /\ Matches(v)
    IN  /\ v.kind \in Validations
        /\ v.pc = "delete"
        /\ IF ok /\ v.kind # "validate"
           THEN /\ task' = [task EXCEPT ![k].pc = "session"]
                /\ UNCHANGED answered
           ELSE Answer(k)
        /\ UNCHANGED <<scenario, clock, store, ious, prefix, arrays, current,
                       logouts, sent, delivered>>

TicketDeleted(k) ==
    LET v == task[k]
        ok == v.kind \in Validations /\ Matches(v)
    IN  /\ v.kind \in Validations
        /\ v.pc = "delete"
        /\ store' = [store EXCEPT ![v.ticket] = NoTicket]
        /\ IF ok /\ v.kind # "validate"
           THEN /\ task' = [task EXCEPT ![k].pc = "session"]
                /\ UNCHANGED answered
           ELSE Answer(k)
        /\ UNCHANGED <<scenario, clock, ious, prefix, arrays, current,
                       logouts, sent, delivered>>

(* getAttributesForApp: without a session there are no attributes, and the *)
(* validation goes on.                                                     *)
SessionRead(k) ==
    LET v == task[k]
    IN  /\ v.pc = "session"
        /\ ~(v.pgtUrl /\ v.service \in AllowProxy)
        /\ Answer(k)
        /\ UNCHANGED <<scenario, clock, store, ious, prefix, arrays, current,
                       logouts, sent, delivered>>

(* issuePGT: the PGT has the service of the ticket, not its proxies.       *)
SessionReadForPgt(k, g) ==
    LET v == task[k]
    IN  /\ v.pc = "session"
        /\ v.pgtUrl /\ v.service \in AllowProxy
        /\ Draw(g, "PGT")
        /\ task' = [task EXCEPT ![k] = [v EXCEPT
                      !.pc = "setPgt", !.new = g,
                      !.data = [type |-> "PGT", service |-> v.got.service,
                                session |-> v.got.session,
                                exp |-> clock + TtlPGT, renew |-> FALSE,
                                proxies |-> <<>>]]]
        /\ UNCHANGED <<scenario, clock, store, ious, arrays, current,
                       logouts, answered, sent, delivered>>

PgtStored(k) ==
    /\ task[k].pc = "setPgt"
    /\ store' = [store EXCEPT ![task[k].new] = task[k].data]
    /\ task' = [task EXCEPT ![k].pc = "setIou"]
    /\ UNCHANGED <<scenario, clock, ious, prefix, arrays, current, logouts,
                   history>>

IouStored(k) ==
    /\ task[k].pc = "setIou"
    /\ ious' = ious \cup {task[k].new}
    /\ task' = [task EXCEPT ![k].pc = "callback"]
    /\ UNCHANGED <<scenario, clock, store, prefix, arrays, current, logouts,
                   history>>

CallbackDelivered(k) ==
    /\ task[k].pc = "callback"
    /\ delivered' = delivered \cup {task[k].new}
    /\ Answer(k)
    /\ UNCHANGED <<scenario, clock, store, ious, prefix, arrays, current,
                   logouts, sent>>

(* Mutant of CallbackFails: only an exception leads to the cleanup.        *)
CallbackStatusIgnored(k) ==
    /\ task[k].pc = "callback"
    /\ \/ /\ task' = [task EXCEPT ![k].pc = "undoPgt"]
          /\ UNCHANGED answered
       \/ Answer(k)
    /\ UNCHANGED <<scenario, clock, store, ious, prefix, arrays, current,
                   logouts, sent, delivered>>

CallbackFails(k) ==
    /\ task[k].pc = "callback"
    /\ task' = [task EXCEPT ![k].pc = "undoPgt"]
    /\ UNCHANGED <<scenario, clock, store, ious, prefix, arrays, current,
                   logouts, history>>

PgtRemoved(k) ==
    /\ task[k].pc = "undoPgt"
    /\ store' = [store EXCEPT ![task[k].new] = NoTicket]
    /\ task' = [task EXCEPT ![k].pc = "undoIou"]
    /\ UNCHANGED <<scenario, clock, ious, prefix, arrays, current, logouts,
                   history>>

IouRemoved(k) ==
    /\ task[k].pc = "undoIou"
    /\ ious' = ious \ {task[k].new}
    /\ Answer(k)
    /\ UNCHANGED <<scenario, clock, store, prefix, arrays, current, logouts,
                   sent, delivered>>

-----------------------------------------------------------------------------
(* handleProxy: a PGT, which its service knows since the callback, is      *)
(* exchanged for a proxy ticket; the PGT stays.                            *)

Proxy(k, g, sv) ==
    /\ "proxy" \in Kinds
    /\ sv \in Services
    /\ task[k] = Idle
    /\ g \in ious
    /\ task' = [task EXCEPT ![k] = [Idle EXCEPT
                  !.kind = "proxy", !.pc = "get", !.ticket = g, !.service = sv]]
    /\ UNCHANGED <<scenario, clock, store, ious, prefix, arrays, current,
                   logouts, history>>

MayProxy(d, sv) ==
    /\ d # NoTicket
    /\ d.type = "PGT"
    /\ ~Expired(d.exp)
    /\ sv \in Registered => sv \in AllowProxy

ProxyRefused(k) ==
    /\ task[k].kind = "proxy"
    /\ task[k].pc = "get"
    /\ ~MayProxy(store[task[k].ticket], task[k].service)
    /\ End(k)
    /\ UNCHANGED <<scenario, clock, store, ious, prefix, arrays, current,
                   logouts, history>>

ProxyGranted(k, t) ==
    LET g == task[k].ticket
        sv == task[k].service
        d == store[g]
    IN  /\ task[k].kind = "proxy"
        /\ task[k].pc = "get"
        /\ MayProxy(d, sv)
        /\ Draw(t, "PT")
        /\ task' = [task EXCEPT ![k] = [@ EXCEPT
                      !.pc = "set", !.new = t,
                      !.data = [type |-> "PT", service |-> sv,
                                session |-> d.session,
                                exp |-> clock + TtlPT, renew |-> FALSE,
                                proxies |-> Append(d.proxies, d.service)]]]
        /\ UNCHANGED <<scenario, clock, store, ious, arrays, current,
                       logouts, answered, sent, delivered>>

ProxyStored(k) ==
    /\ task[k].kind = "proxy"
    /\ task[k].pc = "set"
    /\ store' = [store EXCEPT ![task[k].new] = task[k].data]
    /\ End(k)
    /\ UNCHANGED <<scenario, clock, ious, prefix, arrays, current, logouts,
                   history>>

-----------------------------------------------------------------------------
(* A rejected call rejects the handler; a write that failed may have been  *)
(* done.  An error of the PGT store is not caught either.                  *)

Writing == {"set", "setPgt", "delete", "undoPgt"}

StoreFails(k) ==
    LET v == task[k]
        t == IF v.pc = "delete" THEN v.ticket ELSE v.new
        d == IF v.pc \in {"set", "setPgt"} THEN v.data ELSE NoTicket
    IN  /\ Faulty
        /\ v.pc \in Writing \cup {"get", "session", "setIou", "undoIou"}
        /\ End(k)
        /\ \/ UNCHANGED store
           \/ v.pc \in Writing /\ store' = [store EXCEPT ![t] = d]
        /\ \/ UNCHANGED ious
           \/ v.pc = "setIou" /\ ious' = ious \cup {v.new}
           \/ v.pc = "undoIou" /\ ious' = ious \ {v.new}
        /\ UNCHANGED <<scenario, clock, prefix, arrays, current, logouts,
                       history>>

(* The stores survive the process, the registrations do not.               *)
Restart ==
    /\ Restarting
    /\ task' = [k \in Slot |-> Idle]
    /\ arrays' = [s \in Session |-> <<>>]
    /\ current' = [s \in Session |-> 0]
    /\ UNCHANGED <<scenario, clock, store, ious, prefix, logouts, history>>

Tick ==
    /\ clock < MaxClock
    /\ clock' = clock + 1
    /\ UNCHANGED <<scenario, store, ious, prefix, arrays, current, task,
                   logouts, history>>

Begin(k) ==
    \/ \E s \in Session, sv \in Service, rn \in BOOLEAN, t \in Ticket :
         Login(k, s, sv, rn, t)
    \/ \E s \in Session : Logout(k, s)
    \/ \E kind \in Validations, t \in Ticket, sv \in Service,
          rn, pu \in BOOLEAN : Validate(k, kind, t, sv, rn, pu)
    \/ \E g \in Ticket, sv \in Service : Proxy(k, g, sv)

Continue(k) ==
    \/ LoginStored(k) \/ LogoutSent(k)
    \/ TicketNotFound(k) \/ TicketFound(k) \/ TicketDeleted(k)
    \/ SessionRead(k) \/ (\E g \in Ticket : SessionReadForPgt(k, g))
    \/ PgtStored(k) \/ IouStored(k) \/ CallbackDelivered(k)
    \/ CallbackFails(k) \/ PgtRemoved(k) \/ IouRemoved(k)
    \/ ProxyRefused(k) \/ (\E t \in Ticket : ProxyGranted(k, t))
    \/ ProxyStored(k)

Next ==
    \/ \E k \in Slot : Begin(k) \/ Continue(k) \/ StoreFails(k)
    \/ Restart
    \/ Tick

Spec == Init /\ [][Next]_vars

-----------------------------------------------------------------------------

TypeOK ==
    /\ clock \in Nat
    /\ store \in [Ticket -> TicketData \cup {NoTicket}]
    /\ ious \in SUBSET Ticket
    /\ prefix \in [Ticket -> {"none", "ST", "PT", "PGT"}]
    /\ arrays \in [Session -> Seq(Seq(Service))]
    /\ current \in [Session -> Nat]
    /\ \A s \in Session : current[s] <= Len(arrays[s])
    /\ task \in [Slot -> TaskState]
    /\ logouts \in [Session -> Nat]
    /\ answered \in SUBSET Ticket
    /\ sent \in [Session -> SUBSET Service]
    /\ delivered \in SUBSET Ticket

(***************************************************************************)
(* A ticket is spent when a validation of it is answered: one that comes   *)
(* later finds nothing, whatever the store does to the calls of the other  *)
(* requests, and whenever the process is restarted.                        *)
(***************************************************************************)
SpentStaysSpent ==
    \A k \in Slot : task[k].late => task[k].pc = "get"

(***************************************************************************)
(* issuePGT() leaves no PGT behind that its service was not given, and no  *)
(* PGTIOU for a PGT that was removed, once the request that made it is     *)
(* answered and unless the store or the process fails.                     *)
(***************************************************************************)
PgtsDelivered ==
    \A g \in Ticket :
      \/ Faulty \/ Restarting
      \/ \E k \in Slot : task[k].new = g
      \/ /\ store[g] # NoTicket /\ store[g].type = "PGT" => g \in delivered
         /\ g \in ious => store[g] # NoTicket

(***************************************************************************)
(* Single logout forgets no application: when no logout of a session is    *)
(* running, every application whose registration was cleared has been sent *)
(* a logout request if it wants one, the ones registered by logins that    *)
(* finished during the logout included.                                    *)
(***************************************************************************)
NoAppForgotten ==
    \A s \in Session :
      (\A k \in Slot : ~(task[k].kind = "logout" /\ task[k].session = s)) =>
        \A a \in DOMAIN arrays[s] \ {current[s]} :
          \A i \in DOMAIN arrays[s][a] :
            arrays[s][a][i] \in LogoutApps => arrays[s][a][i] \in sent[s]

=============================================================================
