-------------------------- MODULE CasIssuer_proofs --------------------------
(***************************************************************************)
(* Proofs about CasIssuer, for any number of requests, tickets, sessions   *)
(* and services, with failing store calls and restarts: type correctness,  *)
(* SpentStaysSpent, PgtsDelivered and, as long as no two logouts of a      *)
(* session overlap, NoAppForgotten.                                        *)
(*                                                                         *)
(* SpentStaysSpent is not inductive: a ticket that was answered is refused *)
(* because the store has it no more, and it stays so because the only      *)
(* request that stores a ticket is the one that drew its identifier, which *)
(* nobody validates with success before it is stored.                      *)
(*                                                                         *)
(* PgtsDelivered needs to know what a request that issues a PGT has done   *)
(* at each of its calls (PgtsKept), and that the PGT is of no other one    *)
(* (Issued).  NoAppForgotten needs the place of each logout in the array   *)
(* that logins push to: the applications up to it were sent a request, and *)
(* the array it will clear is still the current one (LogoutsOk).           *)
(***************************************************************************)
EXTENDS CasIssuer, TLAPS

(* A request that is about to store the ticket it drew.                    *)
Creates(k) == task[k].pc \in {"set", "setPgt"}

(* A validation that found its ticket.                                     *)
Found(k) ==
    task[k].pc \in {"delete", "session", "setPgt", "setIou", "callback",
                    "undoPgt", "undoIou"}

(* An identifier that was not drawn is used nowhere.                       *)
UndrawnUnused ==
    \A t \in Ticket :
      prefix[t] = "none" =>
        /\ store[t] = NoTicket
        /\ t \notin answered
        /\ \A k \in Slot : Found(k) => task[k].ticket # t
        /\ \A k \in Slot : Creates(k) => task[k].new # t

(* A ticket that is about to be stored is new to everybody.                *)
CreatedIsNew ==
    \A k \in Slot :
      Creates(k) =>
        /\ store[task[k].new] = NoTicket
        /\ task[k].new \notin answered
        /\ \A l \in Slot : Found(l) => task[l].ticket # task[k].new
        /\ \A l \in Slot \ {k} : Creates(l) => task[l].new # task[k].new

(* The store has the ticket of a validation no more once it was deleted,   *)
(* nor that of one that was answered.                                      *)
DeletedIsGone ==
    /\ \A k \in Slot :
         Found(k) /\ task[k].pc # "delete" => store[task[k].ticket] = NoTicket
    /\ \A t \in answered : store[t] = NoTicket

(* A late validation has read nothing.                                     *)
LateWaits ==
    \A k \in Slot :
      task[k].late =>
        /\ task[k].pc = "get"
        /\ task[k].kind \in Validations
        /\ task[k].ticket \in answered

Safe == UndrawnUnused /\ CreatedIsNew /\ DeletedIsGone /\ LateWaits

(* What a request waits for tells what it has.                             *)
ShapeOf(v) ==
    /\ v.kind = "login" =>
         v.pc = "set" /\ v.session \in Session /\ v.data \in TicketData
    /\ v.pc = "slo" =>
         v.session \in Session /\ v.array \in 1 .. Len(arrays[v.session])
    /\ v.kind \in Validations \cup {"proxy"} =>
         v.ticket \in Ticket /\ v.service \in Service
    /\ v.pc \in {"set", "setPgt", "setIou", "callback", "undoPgt", "undoIou"} =>
         v.new \in Ticket
    /\ v.pc \in {"delete", "session", "setPgt", "setIou", "callback",
                 "undoPgt", "undoIou"} =>
         v.kind \in Validations /\ v.got \in TicketData

Shape == \A k \in Slot : ShapeOf(task[k])

IInv == TypeOK /\ Shape /\ Safe

-----------------------------------------------------------------------------
(* Type correctness *)

LEMMA IdleType == Idle \in TaskState
BY DEF Idle, TaskState

LEMMA InitType == Init => TypeOK
<1>. SUFFICES ASSUME Init PROVE TypeOK
  OBVIOUS
<1>1. <<>> \in Seq(Service) /\ <<>> \in Seq(Seq(Service))
  OBVIOUS
<1>. QED
  BY <1>1, IdleType DEF Init, TypeOK

(* The answer of a request, and the registration of an application.        *)
LEMMA EndType ==
    ASSUME TypeOK, NEW k \in Slot, End(k)
    PROVE  task' \in [Slot -> TaskState]
BY IdleType DEF End, TypeOK

LEMMA AnswerType ==
    ASSUME TypeOK, NEW k \in Slot, Answer(k), task[k].ticket \in Ticket
    PROVE  task' \in [Slot -> TaskState] /\ answered' \in SUBSET Ticket
BY EndType DEF Answer, TypeOK

LEMMA DrawType ==
    ASSUME TypeOK, NEW t \in Ticket, NEW ty \in {"ST", "PT", "PGT"}, Draw(t, ty)
    PROVE  prefix' \in [Ticket -> {"none", "ST", "PT", "PGT"}]
BY DEF Draw, TypeOK

LEMMA RegisterType ==
    ASSUME TypeOK, NEW s \in Session, NEW sv \in Service, RegisterApp(s, sv)
    PROVE  /\ arrays' \in [Session -> Seq(Seq(Service))]
           /\ current' \in [Session -> Nat]
           /\ \A x \in Session : current'[x] <= Len(arrays'[x])
           /\ \A x \in Session : Len(arrays[x]) <= Len(arrays'[x])
<1>. DEFINE a == current[s]
<1>0. \A x \in Session : Len(arrays[x]) \in Nat
  BY DEF TypeOK
<1>1. arrays[s] \in Seq(Seq(Service)) /\ a \in Nat /\ a <= Len(arrays[s])
  BY DEF TypeOK
<1>2. CASE UNCHANGED <<arrays, current>>
  BY <1>0, <1>2 DEF TypeOK
<1>3. CASE /\ arrays' = [arrays EXCEPT ![s] = Append(@, <<sv>>)]
           /\ current' = [current EXCEPT ![s] = Len(arrays[s]) + 1]
  <2>1. <<sv>> \in Seq(Service)
    OBVIOUS
  <2>2. /\ Append(arrays[s], <<sv>>) \in Seq(Seq(Service))
        /\ Len(Append(arrays[s], <<sv>>)) = Len(arrays[s]) + 1
    BY <1>1, <2>1
  <2>. QED
    BY <1>0, <1>1, <1>3, <2>2 DEF TypeOK
<1>4. CASE /\ a # 0
           /\ arrays' = [arrays EXCEPT ![s][a] = Append(@, sv)]
           /\ UNCHANGED current
  <2>1. a \in DOMAIN arrays[s] /\ arrays[s][a] \in Seq(Service)
    BY <1>1, <1>4
  <2>2. Append(arrays[s][a], sv) \in Seq(Service)
    BY <2>1
  <2>3. /\ [arrays[s] EXCEPT ![a] = Append(@, sv)] \in Seq(Seq(Service))
        /\ Len([arrays[s] EXCEPT ![a] = Append(@, sv)]) = Len(arrays[s])
    BY <1>1, <2>1, <2>2
  <2>. QED
    BY <1>0, <1>1, <1>4, <2>3 DEF TypeOK
<1>. QED
  BY <1>2, <1>3, <1>4 DEF RegisterApp

LEMMA NotifyType ==
    ASSUME TypeOK, NEW k \in Slot, NEW s \in Session, NEW a \in Nat \ {0},
           a <= Len(arrays[s]), NEW pos \in Nat,
           Notify(k, s, a, pos), UNCHANGED arrays
    PROVE  /\ task' \in [Slot -> TaskState]
           /\ sent' \in [Session -> SUBSET Service]
           /\ current' \in [Session -> Nat]
           /\ \A x \in Session : current'[x] <= Len(arrays'[x])
<1>1. arrays[s] \in Seq(Seq(Service)) /\ arrays[s][a] \in Seq(Service)
  BY DEF TypeOK
<1>2. ASSUME NEW i \in Remaining(s, a, pos),
             task' = [task EXCEPT ![k] = [Idle EXCEPT
                        !.kind = "logout", !.pc = "slo", !.session = s,
                        !.array = a, !.pos = i]],
             sent' = [sent EXCEPT ![s] = @ \cup {arrays[s][a][i]}],
             UNCHANGED current
      PROVE  /\ task' \in [Slot -> TaskState]
             /\ sent' \in [Session -> SUBSET Service]
             /\ current' \in [Session -> Nat]
             /\ \A x \in Session : current'[x] <= Len(arrays'[x])
  <2>1. i \in Nat /\ arrays[s][a][i] \in Service
    BY <1>1 DEF Remaining
  <2>2. [Idle EXCEPT !.kind = "logout", !.pc = "slo", !.session = s,
                     !.array = a, !.pos = i] \in TaskState
    BY <2>1 DEF TaskState, Idle
  <2>3. task' \in [Slot -> TaskState]
    BY <1>2, <2>2 DEF TypeOK
  <2>. QED
    BY <1>2, <2>1, <2>3 DEF TypeOK
<1>3. ASSUME End(k), current' = [current EXCEPT ![s] = 0], UNCHANGED sent
      PROVE  /\ task' \in [Slot -> TaskState]
             /\ sent' \in [Session -> SUBSET Service]
             /\ current' \in [Session -> Nat]
             /\ \A x \in Session : current'[x] <= Len(arrays'[x])
  BY <1>1, <1>3, EndType DEF TypeOK
<1>. QED
  BY <1>2, <1>3 DEF Notify

(* The steps that leave the registrations alone.                           *)
OthersKept(k) == \A l \in Slot \ {k} : task'[l] = task[l]

LEMMA ShapeStep ==
    ASSUME Shape, NEW k \in Slot, OthersKept(k), ShapeOf(task[k])',
           \A s \in Session : Len(arrays[s]) <= Len(arrays'[s]),
           TypeOK, TypeOK'
    PROVE  Shape'
<1>. SUFFICES ASSUME NEW l \in Slot \ {k} PROVE ShapeOf(task[l])'
  BY DEF Shape
<1>1. task'[l] = task[l] /\ ShapeOf(task[l])
  BY DEF OthersKept, Shape
<1>2. \A s \in Session : Len(arrays[s]) \in Nat /\ Len(arrays'[s]) \in Nat
  BY DEF TypeOK
<1>. QED
  BY <1>1, <1>2 DEF ShapeOf

LEMMA EndShape ==
    ASSUME TypeOK, TypeOK', Shape, NEW k \in Slot, End(k),
           \A s \in Session : Len(arrays[s]) <= Len(arrays'[s])
    PROVE  Shape'
<1>1. OthersKept(k)
  BY DEF End, OthersKept, TypeOK
<1>2. ShapeOf(task[k])'
  BY DEF End, ShapeOf, Idle, Validations, TypeOK
<1>. QED
  BY <1>1, <1>2, ShapeStep

LEMMA NotifyShape ==
    ASSUME TypeOK, TypeOK', Shape, NEW k \in Slot, NEW s \in Session,
           NEW a \in 1 .. Len(arrays[s]), NEW pos, Notify(k, s, a, pos),
           UNCHANGED arrays
    PROVE  Shape'
<1>1. \A x \in Session : Len(arrays[x]) \in Nat
  BY DEF TypeOK
<1>2. ASSUME NEW i \in Remaining(s, a, pos),
             task' = [task EXCEPT ![k] = [Idle EXCEPT
                        !.kind = "logout", !.pc = "slo", !.session = s,
                        !.array = a, !.pos = i]]
      PROVE  Shape'
  <2>1. OthersKept(k)
    BY <1>2 DEF OthersKept, TypeOK
  <2>2. ShapeOf(task[k])'
    BY <1>2 DEF ShapeOf, Idle, Validations, TypeOK
  <2>. QED
    BY <1>1, <2>1, <2>2, ShapeStep
<1>3. CASE End(k)
  BY <1>1, <1>3, EndShape
<1>. QED
  BY <1>2, <1>3 DEF Notify

LEMMA BeginType ==
    ASSUME TypeOK, NEW k \in Slot, Begin(k)
    PROVE  TypeOK'
<1>. USE BoundsAssumption
<1>1. ASSUME NEW s \in Session, NEW sv \in Service, NEW rn \in BOOLEAN,
             NEW t \in Ticket, Login(k, s, sv, rn, t)
      PROVE  TypeOK'
  <2>1. task' \in [Slot -> TaskState]
    <3>1. clock + TtlST \in Nat /\ <<>> \in Seq(Service)
      BY DEF TypeOK
    <3>2. [type |-> "ST", service |-> sv, session |-> s, exp |-> clock + TtlST,
           renew |-> rn, proxies |-> <<>>] \in TicketData
      BY <3>1 DEF TicketData
    <3>. QED
      BY <1>1, <3>2 DEF Login, TypeOK, TaskState, Idle
  <2>2. prefix' \in [Ticket -> {"none", "ST", "PT", "PGT"}]
    BY <1>1, DrawType DEF Login
  <2>. QED
    BY <1>1, <2>1, <2>2 DEF Login, TypeOK, history
<1>2. ASSUME NEW s \in Session, Logout(k, s)
      PROVE  TypeOK'
  <2>1. current[s] \in Nat /\ current[s] <= Len(arrays[s]) /\ current[s] # 0
    BY <1>2 DEF Logout, TypeOK
  <2>2. logouts' \in [Session -> Nat]
    BY <1>2 DEF Logout, TypeOK
  <2>. QED
    BY <1>2, <2>1, <2>2, NotifyType DEF Logout, TypeOK
<1>3. ASSUME NEW kind \in Validations, NEW t \in Ticket, NEW sv \in Service,
             NEW rn \in BOOLEAN, NEW pu \in BOOLEAN,
             Validate(k, kind, t, sv, rn, pu)
      PROVE  TypeOK'
  <2>1. task' \in [Slot -> TaskState]
    <3>1. (t \in answered) \in BOOLEAN
      OBVIOUS
    <3>. QED
      BY <1>3, <3>1 DEF Validate, TypeOK, TaskState, Idle
  <2>. QED
    BY <1>3, <2>1 DEF Validate, TypeOK, history
<1>4. ASSUME NEW g \in Ticket, NEW sv \in Service, Proxy(k, g, sv)
      PROVE  TypeOK'
  <2>1. g \in Ticket
    BY <1>4 DEF Proxy, TypeOK
  <2>2. [Idle EXCEPT !.kind = "proxy", !.pc = "get", !.ticket = g,
                     !.service = sv] \in TaskState
    BY <2>1 DEF TaskState, Idle
  <2>3. task' \in [Slot -> TaskState]
    BY <1>4, <2>2 DEF Proxy, TypeOK
  <2>. QED
    BY <1>4, <2>3 DEF Proxy, TypeOK, history
<1>. QED
  BY <1>1, <1>2, <1>3, <1>4 DEF Begin

LEMMA BeginShape ==
    ASSUME TypeOK, TypeOK', Shape, NEW k \in Slot, Begin(k)
    PROVE  Shape'
<1>0. \A s \in Session : Len(arrays[s]) \in Nat
  BY DEF TypeOK
<1>1. ASSUME NEW s \in Session, NEW sv \in Service, NEW rn \in BOOLEAN,
             NEW t \in Ticket, Login(k, s, sv, rn, t)
      PROVE  Shape'
  <2>1. task'[k].data \in TicketData
    <3>1. clock + TtlST \in Nat /\ <<>> \in Seq(Service)
      BY BoundsAssumption DEF TypeOK
    <3>2. [type |-> "ST", service |-> sv, session |-> s, exp |-> clock + TtlST,
           renew |-> rn, proxies |-> <<>>] \in TicketData
      BY <3>1 DEF TicketData
    <3>. QED
      BY <1>1, <3>2 DEF Login, TypeOK, Idle
  <2>2. OthersKept(k)
    BY <1>1 DEF Login, OthersKept, TypeOK
  <2>3. ShapeOf(task[k])'
    BY <1>1, <2>1 DEF Login, ShapeOf, TypeOK, Idle, Validations
  <2>. QED
    BY <1>0, <1>1, <2>2, <2>3, ShapeStep DEF Login
<1>2. ASSUME NEW s \in Session, Logout(k, s)
      PROVE  Shape'
  <2>1. current[s] \in 1 .. Len(arrays[s])
    BY <1>2 DEF Logout, TypeOK
  <2>. QED
    BY <1>0, <1>2, <2>1, NotifyShape DEF Logout
<1>3. ASSUME NEW kind \in Validations, NEW t \in Ticket, NEW sv \in Service,
             NEW rn \in BOOLEAN, NEW pu \in BOOLEAN,
             Validate(k, kind, t, sv, rn, pu)
      PROVE  Shape'
  <2>2. OthersKept(k)
    BY <1>3 DEF Validate, OthersKept, TypeOK
  <2>3. ShapeOf(task[k])'
    BY <1>3 DEF Validate, ShapeOf, TypeOK, Idle, Validations
  <2>. QED
    BY <1>0, <1>3, <2>2, <2>3, ShapeStep DEF Validate
<1>4. ASSUME NEW g \in Ticket, NEW sv \in Service, Proxy(k, g, sv)
      PROVE  Shape'
  <2>2. OthersKept(k)
    BY <1>4 DEF Proxy, OthersKept, TypeOK
  <2>3. ShapeOf(task[k])'
    BY <1>4 DEF Proxy, ShapeOf, TypeOK, Idle, Validations
  <2>. QED
    BY <1>0, <1>4, <2>2, <2>3, ShapeStep DEF Proxy
<1>. QED
  BY <1>1, <1>2, <1>3, <1>4 DEF Begin

LEMMA PcType ==
    ASSUME TypeOK, NEW k \in Slot,
           NEW p \in {"session", "setIou", "callback", "undoPgt", "undoIou"},
           task' = [task EXCEPT ![k].pc = p]
    PROVE  task' \in [Slot -> TaskState]
<1>1. task[k] \in TaskState
  BY DEF TypeOK
<1>2. [task[k] EXCEPT !.pc = p] \in TaskState
  BY <1>1 DEF TaskState
<1>. QED
  BY <1>2 DEF TypeOK

LEMMA CreateType ==
    ASSUME NEW v \in TaskState, NEW p \in {"set", "setPgt"}, NEW t \in Ticket,
           NEW d \in TicketData
    PROVE  [v EXCEPT !.pc = p, !.new = t, !.data = d] \in TaskState
BY DEF TaskState

LEMMA ContinueType ==
    ASSUME TypeOK, Shape, NEW k \in Slot, Continue(k)
    PROVE  TypeOK'
<1>. USE BoundsAssumption
<1>0. ShapeOf(task[k]) /\ task[k] \in TaskState
  BY DEF Shape, TypeOK
<1>1. CASE LoginStored(k)
  <2>1. task[k].data \in TicketData /\ task[k].session \in Session
        /\ task[k].data.service \in Service /\ task[k].new \in Ticket
    BY <1>0, <1>1 DEF LoginStored, ShapeOf, TicketData
  <2>2. task' \in [Slot -> TaskState]
    BY <1>1, EndType DEF LoginStored
  <2>3. /\ arrays' \in [Session -> Seq(Seq(Service))]
        /\ current' \in [Session -> Nat]
        /\ \A x \in Session : current'[x] <= Len(arrays'[x])
    BY <1>1, <2>1, RegisterType DEF LoginStored
  <2>. QED
    BY <1>1, <2>1, <2>2, <2>3 DEF LoginStored, TypeOK, history
<1>2. CASE LogoutSent(k)
  <2>1. /\ task[k].session \in Session
        /\ task[k].array \in 1 .. Len(arrays[task[k].session])
        /\ task[k].pos \in Nat
    BY <1>0, <1>2 DEF LogoutSent, ShapeOf, TaskState
  <2>2. Len(arrays[task[k].session]) \in Nat
    BY <2>1 DEF TypeOK
  <2>3. task[k].array \in Nat \ {0}
        /\ task[k].array <= Len(arrays[task[k].session])
    BY <2>1, <2>2
  <2>4. /\ task' \in [Slot -> TaskState]
        /\ sent' \in [Session -> SUBSET Service]
        /\ current' \in [Session -> Nat]
        /\ \A x \in Session : current'[x] <= Len(arrays'[x])
    BY <1>2, <2>1, <2>3, NotifyType DEF LogoutSent
  <2>. QED
    BY <1>2, <2>4 DEF LogoutSent, TypeOK
<1>3. CASE TicketNotFound(k)
  BY <1>3, EndType DEF TicketNotFound, TypeOK, history
<1>4. CASE TicketFound(k)
  <2>1. task[k].ticket \in Ticket
    BY <1>0, <1>4 DEF TicketFound, ShapeOf
  <2>2. task' \in [Slot -> TaskState]
    BY ZenonT(60), <1>0, <1>4, <2>1 DEF TicketFound, TypeOK, TaskState
  <2>. QED
    BY <1>4, <2>2 DEF TicketFound, TypeOK, history
<1>5. CASE TicketDeleted(k)
  <2>1. task[k].ticket \in Ticket
    BY <1>0, <1>5 DEF TicketDeleted, ShapeOf
  <2>2. CASE task' = [task EXCEPT ![k].pc = "session"] /\ UNCHANGED answered
    <3>1. task' \in [Slot -> TaskState]
      BY <2>2, PcType
    <3>. QED
      BY <1>5, <2>1, <2>2, <3>1 DEF TicketDeleted, TypeOK
  <2>3. CASE Answer(k)
    <3>1. task' \in [Slot -> TaskState] /\ answered' \in SUBSET Ticket
      BY <2>1, <2>3, AnswerType
    <3>. QED
      BY <1>5, <2>1, <3>1 DEF TicketDeleted, TypeOK
  <2>. QED
    BY <1>5, <2>2, <2>3 DEF TicketDeleted
<1>6. CASE SessionRead(k)
  <2>1. task[k].ticket \in Ticket
    BY <1>0, <1>6 DEF SessionRead, ShapeOf
  <2>. QED
    BY <1>6, <2>1, AnswerType DEF SessionRead, TypeOK
<1>7. ASSUME NEW g \in Ticket, SessionReadForPgt(k, g)
      PROVE  TypeOK'
  <2>1. task[k].got \in TicketData
    BY <1>0, <1>7 DEF SessionReadForPgt, ShapeOf
  <2>2. clock + TtlPGT \in Nat /\ <<>> \in Seq(Service)
    BY DEF TypeOK
  <2>3. [type |-> "PGT", service |-> task[k].got.service,
         session |-> task[k].got.session, exp |-> clock + TtlPGT,
         renew |-> FALSE, proxies |-> <<>>] \in TicketData
    BY <2>1, <2>2 DEF TicketData
  <2>4. task' \in [Slot -> TaskState]
    BY <1>0, <1>7, <2>3, CreateType DEF SessionReadForPgt, TypeOK
  <2>5. prefix' \in [Ticket -> {"none", "ST", "PT", "PGT"}]
    BY <1>7, DrawType DEF SessionReadForPgt
  <2>. QED
    BY <1>7, <2>4, <2>5 DEF SessionReadForPgt, TypeOK
<1>8. CASE PgtStored(k)
  <2>1. task[k].new \in Ticket /\ task[k].data \in TicketData \cup {NoTicket}
    BY <1>0, <1>8 DEF PgtStored, ShapeOf, TaskState
  <2>2. task' \in [Slot -> TaskState]
    BY <1>8, PcType DEF PgtStored
  <2>. QED
    BY <1>8, <2>1, <2>2 DEF PgtStored, TypeOK, history
<1>9. CASE IouStored(k)
  <2>1. task[k].new \in Ticket
    BY <1>0, <1>9 DEF IouStored, ShapeOf
  <2>2. task' \in [Slot -> TaskState]
    BY <1>9, PcType DEF IouStored
  <2>. QED
    BY <1>9, <2>1, <2>2 DEF IouStored, TypeOK, history
<1>10. CASE CallbackDelivered(k)
  <2>1. task[k].new \in Ticket /\ task[k].ticket \in Ticket
    BY <1>0, <1>10 DEF CallbackDelivered, ShapeOf
  <2>. QED
    BY <1>10, <2>1, AnswerType DEF CallbackDelivered, TypeOK
<1>11. CASE CallbackFails(k)
  <2>1. task' \in [Slot -> TaskState]
    BY <1>11, PcType DEF CallbackFails
  <2>. QED
    BY <1>11, <2>1 DEF CallbackFails, TypeOK, history
<1>12. CASE PgtRemoved(k)
  <2>1. task' \in [Slot -> TaskState]
    BY <1>12, PcType DEF PgtRemoved
  <2>. QED
    BY <1>12, <2>1 DEF PgtRemoved, TypeOK, history
<1>13. CASE IouRemoved(k)
  <2>1. task[k].ticket \in Ticket
    BY <1>0, <1>13 DEF IouRemoved, ShapeOf
  <2>. QED
    BY <1>13, <2>1, AnswerType DEF IouRemoved, TypeOK
<1>14. CASE ProxyRefused(k)
  BY <1>14, EndType DEF ProxyRefused, TypeOK, history
<1>15. ASSUME NEW t \in Ticket, ProxyGranted(k, t)
       PROVE  TypeOK'
  <2>. DEFINE d == store[task[k].ticket]
  <2>1. task[k].ticket \in Ticket
    BY <1>0, <1>15 DEF ProxyGranted, ShapeOf
  <2>2. d \in TicketData
    BY <1>15, <2>1 DEF ProxyGranted, MayProxy, TypeOK
  <2>3. d.proxies \in Seq(Service) /\ d.service \in Service /\ d.session \in Session
    BY <2>2 DEF TicketData
  <2>4. clock + TtlPT \in Nat /\ Append(d.proxies, d.service) \in Seq(Service)
    BY <2>3 DEF TypeOK
  <2>5. task[k].service \in Service
    BY <1>0, <1>15 DEF ProxyGranted, ShapeOf, TaskState
  <2>6. [type |-> "PT", service |-> task[k].service, session |-> d.session,
         exp |-> clock + TtlPT, renew |-> FALSE,
         proxies |-> Append(d.proxies, d.service)] \in TicketData
    BY <2>3, <2>4, <2>5 DEF TicketData
  <2>7. task' \in [Slot -> TaskState]
    BY <1>0, <1>15, <2>6, CreateType DEF ProxyGranted, TypeOK
  <2>8. prefix' \in [Ticket -> {"none", "ST", "PT", "PGT"}]
    BY <1>15, DrawType DEF ProxyGranted
  <2>. QED
    BY <1>15, <2>7, <2>8 DEF ProxyGranted, TypeOK
<1>16. CASE ProxyStored(k)
  <2>1. task[k].new \in Ticket /\ task[k].data \in TicketData \cup {NoTicket}
    BY <1>0, <1>16 DEF ProxyStored, ShapeOf, TaskState
  <2>. QED
    BY <1>16, <2>1, EndType DEF ProxyStored, TypeOK, history
<1>. QED
  BY <1>1, <1>2, <1>3, <1>4, <1>5, <1>6, <1>7, <1>8, <1>9, <1>10, <1>11, <1>12,
     <1>13, <1>14, <1>15, <1>16 DEF Continue

LEMMA FailType ==
    ASSUME TypeOK, Shape, NEW k \in Slot, StoreFails(k)
    PROVE  TypeOK'
<1>0. ShapeOf(task[k]) /\ task[k] \in TaskState
  BY DEF Shape, TypeOK
<1>1. task' \in [Slot -> TaskState]
  BY EndType DEF StoreFails
<1>2. store' \in [Ticket -> TicketData \cup {NoTicket}]
  BY <1>0 DEF StoreFails, ShapeOf, TaskState, Writing, TypeOK
<1>3. ious' \in SUBSET Ticket
  BY <1>0 DEF StoreFails, ShapeOf, TypeOK
<1>. QED
  BY <1>1, <1>2, <1>3 DEF StoreFails, TypeOK, history

LEMMA RestartType ==
    ASSUME TypeOK, Restart
    PROVE  TypeOK' /\ Shape'
<1>1. <<>> \in Seq(Seq(Service)) /\ Len(<<>>) = 0
  OBVIOUS
<1>2. TypeOK'
  BY <1>1, IdleType DEF Restart, TypeOK, history
<1>3. Shape'
  BY DEF Restart, Shape, ShapeOf, Idle, Validations
<1>. QED
  BY <1>2, <1>3

LEMMA ContinueShape ==
    ASSUME TypeOK, TypeOK', Shape, NEW k \in Slot, Continue(k)
    PROVE  Shape'
<1>0. ShapeOf(task[k]) /\ task[k] \in TaskState
  BY DEF Shape, TypeOK
<1>a. \A s \in Session : Len(arrays[s]) \in Nat
  BY DEF TypeOK
<1>1. CASE LoginStored(k)
  <2>1. task[k].data.service \in Service /\ task[k].session \in Session
    BY <1>0, <1>1 DEF LoginStored, ShapeOf, TicketData
  <2>. QED
    BY <1>1, <2>1, RegisterType, EndShape DEF LoginStored
<1>2. CASE LogoutSent(k)
  BY <1>0, <1>2, NotifyShape DEF LogoutSent, ShapeOf
<1>3. CASE TicketNotFound(k) \/ ProxyRefused(k) \/ ProxyStored(k)
  BY <1>a, <1>3, EndShape DEF TicketNotFound, ProxyRefused, ProxyStored
<1>4. CASE SessionRead(k) \/ CallbackDelivered(k) \/ IouRemoved(k)
  BY <1>a, <1>4, EndShape DEF SessionRead, CallbackDelivered, IouRemoved, Answer
<1>5. ASSUME OthersKept(k), UNCHANGED arrays, ShapeOf(task[k])'
      PROVE  Shape'
  BY <1>a, <1>5, ShapeStep
<1>6. CASE TicketFound(k)
  <2>1. OthersKept(k)
    BY <1>6 DEF TicketFound, OthersKept, TypeOK
  <2>2. store[task[k].ticket] \in TicketData
    BY <1>0, <1>6 DEF TicketFound, ShapeOf, TypeOK
  <2>3. ShapeOf(task[k])'
    BY <1>0, <1>6, <2>2 DEF TicketFound, ShapeOf, TypeOK, Validations
  <2>. QED
    BY <1>5, <1>6, <2>1, <2>3 DEF TicketFound
<1>7. CASE TicketDeleted(k)
  <2>1. CASE task' = [task EXCEPT ![k].pc = "session"]
    <3>1. OthersKept(k)
      BY <2>1 DEF OthersKept, TypeOK
    <3>2. ShapeOf(task[k])'
      BY <1>0, <1>7, <2>1 DEF TicketDeleted, ShapeOf, TypeOK, Validations
    <3>. QED
      BY <1>5, <1>7, <3>1, <3>2 DEF TicketDeleted
  <2>2. CASE Answer(k)
    BY <1>a, <1>7, <2>2, EndShape DEF TicketDeleted, Answer
  <2>. QED
    BY <1>7, <2>1, <2>2 DEF TicketDeleted
<1>8. ASSUME NEW g \in Ticket, SessionReadForPgt(k, g)
      PROVE  Shape'
  <2>1. OthersKept(k)
    BY <1>8 DEF SessionReadForPgt, OthersKept, TypeOK
  <2>2. ShapeOf(task[k])'
    BY <1>0, <1>8 DEF SessionReadForPgt, ShapeOf, TypeOK, Validations
  <2>. QED
    BY <1>5, <1>8, <2>1, <2>2 DEF SessionReadForPgt
<1>9. CASE PgtStored(k) \/ IouStored(k) \/ CallbackFails(k) \/ PgtRemoved(k)
  <2>1. OthersKept(k)
    BY <1>9 DEF PgtStored, IouStored, CallbackFails, PgtRemoved, OthersKept, TypeOK
  <2>2. ShapeOf(task[k])'
    <3>1. /\ task[k].pc \in {"setPgt", "setIou", "callback", "undoPgt"}
          /\ task' = [task EXCEPT ![k].pc = task'[k].pc]
          /\ task'[k].pc \in {"setIou", "callback", "undoPgt", "undoIou"}
      BY <1>0, <1>9
      DEF PgtStored, IouStored, CallbackFails, PgtRemoved, TypeOK, TaskState
    <3>2. /\ task'[k].kind = task[k].kind /\ task'[k].ticket = task[k].ticket
          /\ task'[k].service = task[k].service /\ task'[k].new = task[k].new
          /\ task'[k].got = task[k].got
      BY <1>0, <3>1 DEF TypeOK, TaskState
    <3>. QED
      BY <1>0, <3>1, <3>2 DEF ShapeOf, Validations
  <2>. QED
    BY <1>5, <1>9, <2>1, <2>2 DEF PgtStored, IouStored, CallbackFails, PgtRemoved
<1>10. ASSUME NEW t \in Ticket, ProxyGranted(k, t)
       PROVE  Shape'
  <2>1. OthersKept(k)
    BY <1>10 DEF ProxyGranted, OthersKept, TypeOK
  <2>2. ShapeOf(task[k])'
    <3>1. /\ task'[k].pc = "set" /\ task'[k].kind = "proxy"
          /\ task'[k].new = t
          /\ task'[k].ticket = task[k].ticket
          /\ task'[k].service = task[k].service
      BY <1>0, <1>10 DEF ProxyGranted, TypeOK, TaskState
    <3>. QED
      BY <1>0, <1>10, <3>1 DEF ProxyGranted, ShapeOf, Validations
  <2>. QED
    BY <1>5, <1>10, <2>1, <2>2 DEF ProxyGranted
<1>. QED
  BY <1>1, <1>2, <1>3, <1>4, <1>6, <1>7, <1>8, <1>9, <1>10 DEF Continue

LEMMA FailShape ==
    ASSUME TypeOK, TypeOK', Shape, NEW k \in Slot, StoreFails(k)
    PROVE  Shape'
<1>1. \A s \in Session : Len(arrays[s]) \in Nat
  BY DEF TypeOK
<1>. QED
  BY <1>1, EndShape DEF StoreFails

-----------------------------------------------------------------------------
(* SpentStaysSpent *)

LEMMA InitSafe == Init => Shape /\ Safe
BY DEF Init, Idle, Shape, ShapeOf, Validations, Safe, UndrawnUnused,
       CreatedIsNew, DeletedIsGone, LateWaits, Creates, Found

(* A step that stores no ticket, reads none and draws no identifier.       *)
LEMMA QuietStep ==
    ASSUME TypeOK, Shape, Safe, NEW k \in Slot, OthersKept(k), UNCHANGED prefix,
           \A t \in Ticket : store'[t] \in {store[t], NoTicket},
           answered' \in {answered, answered \cup {task[k].ticket}},
           answered' # answered =>
             Found(k) /\ store'[task[k].ticket] = NoTicket,
           Creates(k)' => Creates(k) /\ task'[k].new = task[k].new,
           Found(k)' =>
             /\ Found(k)
             /\ task'[k].ticket = task[k].ticket
             /\ task'[k].pc # "delete" => store'[task[k].ticket] = NoTicket,
           task'[k].late =>
             /\ task'[k].pc = "get"
             /\ task'[k].kind \in Validations
             /\ task'[k].ticket \in answered'
    PROVE  Safe'
<1>1. \A l \in Slot \ {k} : task'[l] = task[l]
  BY DEF OthersKept
<1>2. \A l \in Slot :
        /\ Creates(l)' => Creates(l) /\ task'[l].new = task[l].new
        /\ Found(l)' => Found(l) /\ task'[l].ticket = task[l].ticket
  BY <1>1 DEF Creates, Found
<1>3. \A l \in Slot :
        /\ Creates(l) => task[l].new \in Ticket
        /\ Found(l) => task[l].ticket \in Ticket
  BY DEF Shape, ShapeOf, Creates, Found
<1>4. UndrawnUnused'
  BY <1>2, <1>3 DEF Safe, UndrawnUnused
<1>5. CreatedIsNew'
  BY <1>2, <1>3 DEF Safe, CreatedIsNew
<1>6. DeletedIsGone'
  <2>1. \A l \in Slot :
          Found(l)' /\ task'[l].pc # "delete" => store'[task'[l].ticket] = NoTicket
    BY <1>1, <1>2, <1>3 DEF Safe, DeletedIsGone
  <2>2. \A t \in answered' : store'[t] = NoTicket
    BY DEF Safe, DeletedIsGone, TypeOK
  <2>. QED
    BY <2>1, <2>2 DEF DeletedIsGone
<1>7. LateWaits'
  BY <1>1 DEF Safe, LateWaits
<1>. QED
  BY <1>4, <1>5, <1>6, <1>7 DEF Safe

(* A step that draws the identifier of a ticket it will store.             *)
LEMMA DrawStep ==
    ASSUME TypeOK, Shape, Safe, NEW k \in Slot, OthersKept(k),
           NEW t \in Ticket, NEW ty \in {"ST", "PT", "PGT"}, Draw(t, ty),
           UNCHANGED <<store, answered>>,
           ~Creates(k), task'[k].new = t, ~task'[k].late,
           Found(k)' =>
             /\ Found(k)
             /\ task[k].pc # "delete"
             /\ task'[k].ticket = task[k].ticket
    PROVE  Safe'
<1>1. \A l \in Slot \ {k} : task'[l] = task[l]
  BY DEF OthersKept
<1>2. \A l \in Slot :
        /\ Creates(l)' => l = k \/ (Creates(l) /\ task'[l].new = task[l].new)
        /\ Found(l)' => Found(l) /\ task'[l].ticket = task[l].ticket
        /\ Found(l)' /\ task'[l].pc # "delete" => task[l].pc # "delete"
  BY <1>1 DEF Creates, Found
<1>3. prefix[t] = "none" /\ \A x \in Ticket : prefix'[x] = "none" =>
        x # t /\ prefix[x] = "none"
  BY DEF Draw, TypeOK
<1>4. /\ store[t] = NoTicket /\ t \notin answered
      /\ \A l \in Slot : Found(l) => task[l].ticket # t
      /\ \A l \in Slot : Creates(l) => task[l].new # t
  BY <1>3 DEF Safe, UndrawnUnused
<1>5. UndrawnUnused'
  BY <1>2, <1>3 DEF Safe, UndrawnUnused
<1>6. CreatedIsNew'
  BY <1>2, <1>4 DEF Safe, CreatedIsNew
<1>7. DeletedIsGone'
  BY <1>2 DEF Safe, DeletedIsGone
<1>8. LateWaits'
  BY <1>1 DEF Safe, LateWaits
<1>. QED
  BY <1>5, <1>6, <1>7, <1>8 DEF Safe

(* A step that stores the ticket the request drew.                         *)
LEMMA StoreStep ==
    ASSUME TypeOK, Shape, Safe, NEW k \in Slot, OthersKept(k), Creates(k),
           NEW d, store' = [store EXCEPT ![task[k].new] = d],
           UNCHANGED <<prefix, answered>>, ~Creates(k)', ~task'[k].late,
           Found(k)' =>
             /\ Found(k)
             /\ task[k].pc # "delete"
             /\ task'[k].ticket = task[k].ticket
    PROVE  Safe'
<1>. DEFINE n == task[k].new
<1>1. \A l \in Slot \ {k} : task'[l] = task[l]
  BY DEF OthersKept
<1>2. \A l \in Slot :
        /\ Creates(l)' => l # k /\ Creates(l) /\ task'[l].new = task[l].new
        /\ Found(l)' => Found(l) /\ task'[l].ticket = task[l].ticket
        /\ Found(l)' /\ task'[l].pc # "delete" => task[l].pc # "delete"
  BY <1>1 DEF Creates, Found
<1>3. /\ n \in Ticket /\ n \notin answered
      /\ \A l \in Slot : Found(l) => task[l].ticket # n
      /\ \A l \in Slot \ {k} : Creates(l) => task[l].new # n
  BY DEF Safe, CreatedIsNew, Shape, ShapeOf, Creates
<1>4. \A t : t # n => store'[t] = store[t]
  BY DEF TypeOK
<1>5. prefix[n] # "none"
  BY <1>3 DEF Safe, UndrawnUnused
<1>6. UndrawnUnused'
  BY <1>2, <1>4, <1>5 DEF Safe, UndrawnUnused
<1>7. CreatedIsNew'
  BY <1>2, <1>3, <1>4 DEF Safe, CreatedIsNew
<1>8. DeletedIsGone'
  BY <1>2, <1>3, <1>4 DEF Safe, DeletedIsGone
<1>9. LateWaits'
  BY <1>1 DEF Safe, LateWaits
<1>. QED
  BY <1>6, <1>7, <1>8, <1>9 DEF Safe

LEMMA EndSafe ==
    ASSUME TypeOK, Shape, Safe, NEW k \in Slot, End(k),
           UNCHANGED <<store, prefix, answered>>
    PROVE  Safe'
<1>1. OthersKept(k)
  BY DEF End, OthersKept, TypeOK
<1>2. ~Creates(k)' /\ ~Found(k)' /\ ~task'[k].late
  BY DEF End, Creates, Found, Idle, TypeOK
<1>. QED
  BY <1>1, <1>2, QuietStep

LEMMA AnswerSafe ==
    ASSUME TypeOK, Shape, Safe, NEW k \in Slot, Answer(k), Found(k),
           UNCHANGED <<store, prefix>>, task[k].pc # "delete"
    PROVE  Safe'
<1>1. OthersKept(k)
  BY DEF Answer, End, OthersKept, TypeOK
<1>2. ~Creates(k)' /\ ~Found(k)' /\ ~task'[k].late
  BY DEF Answer, End, Creates, Found, Idle, TypeOK
<1>3. store'[task[k].ticket] = NoTicket
  BY DEF Safe, DeletedIsGone
<1>. QED
  BY <1>1, <1>2, <1>3, QuietStep DEF Answer

LEMMA NotifySafe ==
    ASSUME TypeOK, Shape, Safe, NEW k \in Slot, NEW s, NEW a, NEW pos,
           Notify(k, s, a, pos), UNCHANGED <<store, prefix, answered>>
    PROVE  Safe'
<1>1. ASSUME NEW i \in Remaining(s, a, pos),
             task' = [task EXCEPT ![k] = [Idle EXCEPT
                        !.kind = "logout", !.pc = "slo", !.session = s,
                        !.array = a, !.pos = i]]
      PROVE  Safe'
  <2>1. OthersKept(k)
    BY <1>1 DEF OthersKept, TypeOK
  <2>2. ~Creates(k)' /\ ~Found(k)' /\ ~task'[k].late
    BY <1>1 DEF Creates, Found, Idle, TypeOK
  <2>. QED
    BY <2>1, <2>2, QuietStep
<1>2. CASE End(k)
  BY <1>2, EndSafe
<1>. QED
  BY <1>1, <1>2 DEF Notify

LEMMA BeginSafe ==
    ASSUME TypeOK, Shape, Safe, NEW k \in Slot, Begin(k)
    PROVE  Safe'
<1>1. ASSUME NEW s \in Session, NEW sv \in Service, NEW rn \in BOOLEAN,
             NEW t \in Ticket, Login(k, s, sv, rn, t)
      PROVE  Safe'
  <2>1. OthersKept(k)
    BY <1>1 DEF Login, OthersKept, TypeOK
  <2>2. ~Creates(k)
    BY <1>1 DEF Login, Creates, Idle
  <2>3. task'[k].new = t /\ ~task'[k].late /\ ~Found(k)'
    BY <1>1 DEF Login, Found, Idle, TypeOK
  <2>. QED
    BY <1>1, <2>1, <2>2, <2>3, DrawStep DEF Login, history
<1>2. ASSUME NEW s \in Session, Logout(k, s)
      PROVE  Safe'
  BY <1>2, NotifySafe DEF Logout
<1>3. ASSUME NEW kind \in Validations, NEW t \in Ticket, NEW sv \in Service,
             NEW rn \in BOOLEAN, NEW pu \in BOOLEAN,
             Validate(k, kind, t, sv, rn, pu)
      PROVE  Safe'
  <2>1. OthersKept(k)
    BY <1>3 DEF Validate, OthersKept, TypeOK
  <2>2. ~Creates(k)' /\ ~Found(k)'
    BY <1>3 DEF Validate, Creates, Found, Idle, TypeOK
  <2>3. task'[k].late =>
          /\ task'[k].pc = "get"
          /\ task'[k].kind \in Validations
          /\ task'[k].ticket \in answered'
    BY <1>3 DEF Validate, Idle, TypeOK, history
  <2>4. UNCHANGED <<store, prefix, answered>>
    BY <1>3 DEF Validate, history
  <2>. QED
    BY <2>1, <2>2, <2>3, <2>4, QuietStep
<1>4. ASSUME NEW g \in Ticket, NEW sv \in Service, Proxy(k, g, sv)
      PROVE  Safe'
  <2>1. OthersKept(k)
    BY <1>4 DEF Proxy, OthersKept, TypeOK
  <2>2. ~Creates(k)' /\ ~Found(k)' /\ ~task'[k].late
    BY <1>4 DEF Proxy, Creates, Found, Idle, TypeOK
  <2>. QED
    BY <1>4, <2>1, <2>2, QuietStep DEF Proxy, history
<1>. QED
  BY <1>1, <1>2, <1>3, <1>4 DEF Begin

(* A validation that finds its ticket: nobody was answered about it, and   *)
(* nobody is about to store it.                                            *)
LEMMA FoundSafe ==
    ASSUME TypeOK, Shape, Safe, NEW k \in Slot, TicketFound(k)
    PROVE  Safe'
<1>. DEFINE t == task[k].ticket
<1>1. \A l \in Slot \ {k} : task'[l] = task[l]
  BY DEF TicketFound, TypeOK
<1>2. /\ task'[k].pc = "delete" /\ task'[k].ticket = t
      /\ task'[k].late = task[k].late
      /\ UNCHANGED <<store, prefix, answered>>
  BY DEF TicketFound, TypeOK, TaskState, history
<1>3. t \in Ticket /\ store[t] # NoTicket
  BY DEF TicketFound, Shape, ShapeOf
<1>4. t \notin answered /\ prefix[t] # "none"
  BY <1>3 DEF Safe, DeletedIsGone, UndrawnUnused
<1>5. \A l \in Slot : Creates(l) => task[l].new # t
  BY <1>3 DEF Safe, CreatedIsNew
<1>6. \A l \in Slot :
        /\ Creates(l)' => Creates(l) /\ task'[l].new = task[l].new
        /\ Found(l)' => l = k \/ (Found(l) /\ task'[l] = task[l])
  BY <1>1, <1>2 DEF Creates, Found
<1>7. UndrawnUnused'
  BY <1>2, <1>4, <1>6 DEF Safe, UndrawnUnused
<1>8. CreatedIsNew'
  BY <1>2, <1>5, <1>6 DEF Safe, CreatedIsNew
<1>9. DeletedIsGone'
  BY <1>2, <1>6 DEF Safe, DeletedIsGone
<1>10. LateWaits'
  BY <1>1, <1>2, <1>4 DEF Safe, LateWaits
<1>. QED
  BY <1>7, <1>8, <1>9, <1>10 DEF Safe

LEMMA ContinueSafe ==
    ASSUME TypeOK, Shape, Safe, NEW k \in Slot, Continue(k)
    PROVE  Safe'
<1>0. /\ ShapeOf(task[k]) /\ task[k] \in TaskState
      /\ task[k].late => task[k].pc = "get" /\ task[k].kind \in Validations
  BY DEF Shape, Safe, LateWaits, TypeOK
<1>1. CASE LoginStored(k) \/ ProxyStored(k)
  <2>1. OthersKept(k)
    BY <1>1 DEF LoginStored, ProxyStored, End, OthersKept, TypeOK
  <2>2. Creates(k)
    BY <1>0, <1>1 DEF LoginStored, ProxyStored, ShapeOf, Creates
  <2>3. ~Creates(k)' /\ ~Found(k)' /\ ~task'[k].late
    BY <1>1 DEF LoginStored, ProxyStored, End, Creates, Found, Idle, TypeOK
  <2>. QED
    BY <1>1, <2>1, <2>2, <2>3, StoreStep DEF LoginStored, ProxyStored, history
<1>2. CASE LogoutSent(k)
  BY <1>2, NotifySafe DEF LogoutSent
<1>3. CASE TicketNotFound(k) \/ ProxyRefused(k)
  BY <1>3, EndSafe DEF TicketNotFound, ProxyRefused, history
<1>4. CASE TicketFound(k)
  BY <1>4, FoundSafe
<1>5. CASE TicketDeleted(k)
  <2>1. Found(k) /\ task[k].ticket \in Ticket
    BY <1>0, <1>5 DEF TicketDeleted, Found, ShapeOf
  <2>2. /\ store'[task[k].ticket] = NoTicket
        /\ \A t \in Ticket : store'[t] \in {store[t], NoTicket}
        /\ UNCHANGED prefix
    BY <1>5, <2>1 DEF TicketDeleted, TypeOK
  <2>3. CASE task' = [task EXCEPT ![k].pc = "session"] /\ UNCHANGED answered
    <3>1. OthersKept(k)
      BY <2>3 DEF OthersKept, TypeOK
    <3>2. /\ task'[k].pc = "session" /\ task'[k].ticket = task[k].ticket
          /\ task'[k].late = task[k].late
      BY <1>0, <2>3 DEF TypeOK, TaskState
    <3>3. ~Creates(k)' /\ ~task'[k].late
      BY <1>0, <1>5, <3>2 DEF TicketDeleted, Creates
    <3>. QED
      BY <2>1, <2>2, <2>3, <3>1, <3>2, <3>3, QuietStep
  <2>4. CASE Answer(k)
    <3>1. OthersKept(k)
      BY <2>4 DEF Answer, End, OthersKept, TypeOK
    <3>2. ~Creates(k)' /\ ~Found(k)' /\ ~task'[k].late
      BY <2>4 DEF Answer, End, Creates, Found, Idle, TypeOK
    <3>. QED
      BY <2>1, <2>2, <2>4, <3>1, <3>2, QuietStep DEF Answer
  <2>. QED
    BY <1>5, <2>3, <2>4 DEF TicketDeleted
<1>6. CASE SessionRead(k) \/ CallbackDelivered(k) \/ IouRemoved(k)
  <2>1. Found(k) /\ task[k].pc # "delete" /\ Answer(k)
        /\ UNCHANGED <<store, prefix>>
    BY <1>6 DEF SessionRead, CallbackDelivered, IouRemoved, Found
  <2>. QED
    BY <2>1, AnswerSafe
<1>7. ASSUME NEW g \in Ticket, SessionReadForPgt(k, g)
      PROVE  Safe'
  <2>1. OthersKept(k)
    BY <1>7 DEF SessionReadForPgt, OthersKept, TypeOK
  <2>2. ~Creates(k) /\ Found(k) /\ task[k].pc # "delete" /\ ~task[k].late
    BY <1>0, <1>7 DEF SessionReadForPgt, Creates, Found
  <2>3. /\ task'[k].new = g /\ task'[k].ticket = task[k].ticket
        /\ task'[k].late = task[k].late
    BY <1>0, <1>7 DEF SessionReadForPgt, TypeOK, TaskState
  <2>. QED
    BY <1>7, <2>1, <2>2, <2>3, DrawStep DEF SessionReadForPgt
<1>8. CASE PgtStored(k)
  <2>1. OthersKept(k)
    BY <1>8 DEF PgtStored, OthersKept, TypeOK
  <2>2. Creates(k) /\ Found(k) /\ task[k].pc # "delete" /\ ~task[k].late
    BY <1>0, <1>8 DEF PgtStored, Creates, Found
  <2>3. /\ task'[k].pc = "setIou" /\ task'[k].ticket = task[k].ticket
        /\ task'[k].late = task[k].late
    BY <1>0, <1>8 DEF PgtStored, TypeOK, TaskState
  <2>4. ~Creates(k)'
    BY <2>3 DEF Creates
  <2>. QED
    BY <1>8, <2>1, <2>2, <2>3, <2>4, StoreStep DEF PgtStored, history
<1>9. CASE IouStored(k) \/ CallbackFails(k) \/ PgtRemoved(k)
  <2>1. OthersKept(k)
    BY <1>9 DEF IouStored, CallbackFails, PgtRemoved, OthersKept, TypeOK
  <2>2. Found(k) /\ task[k].pc # "delete" /\ ~task[k].late
    BY <1>0, <1>9 DEF IouStored, CallbackFails, PgtRemoved, Found
  <2>3. /\ task'[k].pc \in {"callback", "undoPgt", "undoIou"}
        /\ task'[k].ticket = task[k].ticket /\ task'[k].late = task[k].late
    BY <1>0, <1>9 DEF IouStored, CallbackFails, PgtRemoved, TypeOK, TaskState
  <2>4. ~Creates(k)'
    BY <2>3 DEF Creates
  <2>5. /\ \A t \in Ticket : store'[t] \in {store[t], NoTicket}
        /\ UNCHANGED <<prefix, answered>>
    BY <1>9 DEF IouStored, CallbackFails, PgtRemoved, TypeOK, history
  <2>6. task[k].ticket \in Ticket /\ store[task[k].ticket] = NoTicket
    BY <1>0, <2>2 DEF Safe, DeletedIsGone, ShapeOf, Found
  <2>. QED
    BY <2>1, <2>2, <2>3, <2>4, <2>5, <2>6, QuietStep
<1>10. ASSUME NEW t \in Ticket, ProxyGranted(k, t)
       PROVE  Safe'
  <2>1. OthersKept(k)
    BY <1>10 DEF ProxyGranted, OthersKept, TypeOK
  <2>2. ~Creates(k) /\ ~task[k].late
    BY <1>0, <1>10 DEF ProxyGranted, Creates, Validations
  <2>3. task'[k].pc = "set" /\ task'[k].new = t /\ task'[k].late = task[k].late
    BY <1>0, <1>10 DEF ProxyGranted, TypeOK, TaskState
  <2>4. ~Found(k)'
    BY <2>3 DEF Found
  <2>. QED
    BY <1>10, <2>1, <2>2, <2>3, <2>4, DrawStep DEF ProxyGranted
<1>. QED
  BY <1>1, <1>2, <1>3, <1>4, <1>5, <1>6, <1>7, <1>8, <1>9, <1>10 DEF Continue

LEMMA FailSafe ==
    ASSUME TypeOK, Shape, Safe, NEW k \in Slot, StoreFails(k)
    PROVE  Safe'
<1>0. UNCHANGED <<prefix, answered>> /\ End(k)
  BY DEF StoreFails, history
<1>1. OthersKept(k)
  BY <1>0 DEF End, OthersKept, TypeOK
<1>2. ~Creates(k)' /\ ~Found(k)' /\ ~task'[k].late
  BY <1>0 DEF End, Creates, Found, Idle, TypeOK
<1>3. CASE UNCHANGED store
  BY <1>0, <1>3, EndSafe
<1>4. CASE /\ task[k].pc \in {"set", "setPgt"}
           /\ store' = [store EXCEPT ![task[k].new] = task[k].data]
  <2>1. Creates(k)
    BY <1>4 DEF Creates
  <2>. QED
    BY <1>0, <1>1, <1>2, <1>4, <2>1, StoreStep
<1>5. CASE \E t : store' = [store EXCEPT ![t] = NoTicket]
  <2>1. \A t \in Ticket : store'[t] \in {store[t], NoTicket}
    BY <1>5 DEF TypeOK
  <2>. QED
    BY <1>0, <1>1, <1>2, <2>1, QuietStep
<1>. QED
  BY <1>3, <1>4, <1>5 DEF StoreFails, Writing

-----------------------------------------------------------------------------

(* A step leaves the invariant true.                                       *)
LEMMA StepInv == IInv /\ [Next]_vars => IInv'
<1>. SUFFICES ASSUME IInv, [Next]_vars PROVE IInv'
  OBVIOUS
<1>0. TypeOK /\ Shape /\ Safe
  BY DEF IInv
<1>1. ASSUME NEW k \in Slot, Begin(k)
      PROVE  IInv'
  BY <1>0, <1>1, BeginType, BeginShape, BeginSafe DEF IInv
<1>2. ASSUME NEW k \in Slot, Continue(k)
      PROVE  IInv'
  BY <1>0, <1>2, ContinueType, ContinueShape, ContinueSafe DEF IInv
<1>3. ASSUME NEW k \in Slot, StoreFails(k)
      PROVE  IInv'
  BY <1>0, <1>3, FailType, FailShape, FailSafe DEF IInv
<1>4. CASE Restart
  <2>1. Safe'
    <3>1. \A k \in Slot : ~Creates(k)' /\ ~Found(k)' /\ ~task'[k].late
      BY <1>4 DEF Restart, Creates, Found, Idle
    <3>. QED
      BY <1>0, <1>4, <3>1
      DEF Restart, history, Safe, UndrawnUnused, CreatedIsNew, DeletedIsGone,
          LateWaits
  <2>. QED
    BY <1>0, <1>4, <2>1, RestartType DEF IInv
<1>5. CASE Tick \/ UNCHANGED vars
  <2>1. UNCHANGED <<store, ious, prefix, arrays, current, task, logouts, history>>
        /\ clock' \in Nat
    BY <1>0, <1>5 DEF Tick, vars, TypeOK
  <2>2. TypeOK'
    BY <1>0, <2>1 DEF TypeOK, history
  <2>3. Shape'
    BY <1>0, <2>1 DEF Shape, ShapeOf
  <2>4. Safe'
    BY <1>0, <2>1
    DEF Safe, UndrawnUnused, CreatedIsNew, DeletedIsGone, LateWaits, Creates,
        Found, history
  <2>. QED
    BY <2>2, <2>3, <2>4 DEF IInv
<1>. QED
  BY <1>1, <1>2, <1>3, <1>4, <1>5 DEF Next

THEOREM Invariance == Spec => []IInv
<1>1. Init => IInv
  BY InitType, InitSafe DEF IInv
<1>. QED
  BY <1>1, StepInv, PTL DEF Spec

(* Every ticket, registration and request of the CAS server is a value of  *)
(* its type, in every interleaving of the handlers' steps.                 *)
THEOREM TypeCorrect == Spec => []TypeOK
<1>1. IInv => TypeOK
  BY DEF IInv
<1>. QED
  BY <1>1, Invariance, PTL

(* A validation that comes after the answer to another one of the same     *)
(* ticket never gets past the call that reads the ticket.                  *)
THEOREM SpentTicketsStaySpent == Spec => []SpentStaysSpent
<1>1. IInv => SpentStaysSpent
  BY DEF IInv, Safe, LateWaits, SpentStaysSpent
<1>. QED
  BY <1>1, Invariance, PTL

-----------------------------------------------------------------------------
(* PgtsDelivered *)

(* A request that issues a PGT.                                            *)
Issues(v) == v.pc \in {"setPgt", "setIou", "callback", "undoPgt", "undoIou"}

(* What a request that creates a ticket creates, and what a validation     *)
(* was given: no PGT.                                                      *)
IssueOf(v) ==
    /\ v.kind \in Validations => prefix[v.ticket] \in {"ST", "PT"}
    /\ Issues(v) => prefix[v.new] = "PGT"
    /\ v.pc = "set" => prefix[v.new] \in {"ST", "PT"} /\ v.data.type # "PGT"
    /\ v.pc \in {"set", "setPgt"} => v.data \in TicketData
    /\ v.pc # "set" /\ ~Issues(v) => v.new = None

Issued ==
    /\ \A k \in Slot : IssueOf(task[k])
    /\ \A g \in ious : prefix[g] = "PGT"
    /\ \A k, l \in Slot : k # l /\ task[k].new = task[l].new => task[k].new = None

(* A PGT is where the request that issues it left it, until it is answered *)
(* or the PGT was taken back.                                              *)
Delivered(g) ==
    /\ store[g] # NoTicket /\ store[g].type = "PGT" => g \in delivered
    /\ g \in ious => store[g] # NoTicket

PgtsKept ==
    /\ \A k \in Slot :
         /\ task[k].pc \in {"setIou", "callback"} => store[task[k].new] # NoTicket
         /\ task[k].pc = "undoIou" => store[task[k].new] = NoTicket
    /\ \A g \in Ticket : Delivered(g) \/ \E k \in Slot : task[k].new = g

PgtInv == Issued /\ (~Faulty /\ ~Restarting => PgtsKept)

-----------------------------------------------------------------------------
(* PgtsDelivered: PGTs have identifiers of their own *)

LEMMA IssuedStep ==
    ASSUME TypeOK, Shape, Issued, NEW k \in Slot, OthersKept(k),
           \A t \in Ticket : prefix[t] # "none" => prefix'[t] = prefix[t],
           IssueOf(task[k])',
           \A g \in ious' : g \in ious \/ (g = task[k].new /\ prefix'[g] = "PGT"),
           \/ task'[k].new \in {None, task[k].new}
           \/ task'[k].new \in Ticket /\ prefix[task'[k].new] = "none"
    PROVE  Issued'
<1>1. \A l \in Slot \ {k} : task'[l] = task[l]
  BY DEF OthersKept
<1>2. /\ \A l \in Slot : IssueOf(task[l])
      /\ \A g \in ious : prefix[g] = "PGT" /\ g \in Ticket
      /\ \A l, m \in Slot : l # m /\ task[l].new = task[m].new => task[l].new = None
  BY DEF Issued, TypeOK
<1>3. ASSUME NEW l \in Slot \ {k}
      PROVE  IssueOf(task[l])'
  <2>1. IssueOf(task[l]) /\ ShapeOf(task[l]) /\ task'[l] = task[l]
    BY <1>1, <1>2 DEF Shape
  <2>. QED
    BY <2>1 DEF IssueOf, ShapeOf, Issues
<1>4. \A l \in Slot : task[l].new = None \/ prefix[task[l].new] # "none"
  BY <1>2 DEF IssueOf
<1>5. ASSUME NEW l \in Slot, NEW m \in Slot, l # m, task'[l].new = task'[m].new
      PROVE  task'[l].new = None
  <2>1. CASE l # k /\ m # k
    BY <1>1, <1>2, <1>5, <2>1
  <2>2. CASE l = k
    BY <1>1, <1>2, <1>4, <1>5, <2>2
  <2>3. CASE m = k
    BY <1>1, <1>2, <1>4, <1>5, <2>3
  <2>. QED
    BY <2>1, <2>2, <2>3
<1>6. \A g \in ious' : prefix'[g] = "PGT"
  BY <1>2
<1>. QED
  BY <1>3, <1>5, <1>6 DEF Issued

LEMMA PgtsStep ==
    ASSUME TypeOK, Shape, Issued, PgtsKept, NEW k \in Slot, OthersKept(k),
           \A t \in Ticket :
             t # task[k].new =>
               \/ store'[t] = store[t]
               \/ store'[t] = NoTicket /\ prefix[t] \in {"ST", "PT"},
           \A t \in Ticket : t \in ious' /\ t # task[k].new => t \in ious,
           delivered \subseteq delivered',
           task'[k].pc \in {"setIou", "callback"} => store'[task'[k].new] # NoTicket,
           task'[k].pc = "undoIou" => store'[task'[k].new] = NoTicket,
           \A g \in Ticket :
             g = task[k].new => task'[k].new = g \/ Delivered(g)'
    PROVE  PgtsKept'
<1>. USE BoundsAssumption
<1>1. \A l \in Slot \ {k} : task'[l] = task[l]
  BY DEF OthersKept
<1>2. ASSUME NEW l \in Slot \ {k}, task[l].pc \in {"setIou", "callback", "undoIou"}
      PROVE  store'[task[l].new] = store[task[l].new]
  <2>1. task[l].new \in Ticket /\ prefix[task[l].new] = "PGT"
    BY <1>2 DEF Shape, ShapeOf, Issued, IssueOf, Issues
  <2>2. task[l].new # task[k].new
    BY <2>1 DEF Issued
  <2>. QED
    BY <2>1, <2>2
<1>3. ASSUME NEW g \in Ticket, g # task[k].new
      PROVE  Delivered(g)' \/ \E l \in Slot : task'[l].new = g
  <2>1. CASE \E l \in Slot : task[l].new = g
    BY <1>1, <1>3, <2>1
  <2>2. CASE Delivered(g)
    <3>1. g \in ious => prefix[g] = "PGT"
      BY DEF Issued
    <3>. QED
      BY <1>3, <2>2, <3>1 DEF Delivered
  <2>. QED
    BY <2>1, <2>2 DEF PgtsKept
<1>4. \A g \in Ticket : Delivered(g)' \/ \E l \in Slot : task'[l].new = g
  BY <1>3
<1>5. \A l \in Slot :
        /\ task'[l].pc \in {"setIou", "callback"} => store'[task'[l].new] # NoTicket
        /\ task'[l].pc = "undoIou" => store'[task'[l].new] = NoTicket
  BY <1>1, <1>2 DEF PgtsKept
<1>. QED
  BY <1>4, <1>5 DEF PgtsKept

(* A step of a request that creates no ticket before it or after it.       *)
LEMMA PlainStep ==
    ASSUME TypeOK, Shape, PgtInv, NEW k \in Slot, OthersKept(k),
           task[k].new = None, task'[k].new = None,
           ~Issues(task'[k]), task'[k].pc # "set",
           task'[k].kind \in Validations =>
             prefix[task'[k].ticket] \in {"ST", "PT"},
           \A t \in Ticket :
             \/ store'[t] = store[t]
             \/ store'[t] = NoTicket /\ prefix[t] \in {"ST", "PT"},
           UNCHANGED <<scenario, ious, prefix>>, delivered \subseteq delivered'
    PROVE  PgtInv'
<1>. USE BoundsAssumption
<1>1. Issued /\ (~Faulty /\ ~Restarting => PgtsKept)
  BY DEF PgtInv
<1>2. IssueOf(task[k])'
  BY DEF IssueOf, Issues
<1>3. Issued'
  BY <1>1, <1>2, IssuedStep
<1>4. task'[k].pc \notin {"setIou", "callback", "undoIou"}
  BY DEF Issues
<1>5. PgtsKept => PgtsKept'
  BY <1>1, <1>4, PgtsStep
<1>. QED
  BY <1>1, <1>3, <1>5 DEF PgtInv, Faulty, Restarting

(* A step that draws an identifier for the ticket it will create.          *)
LEMMA DrawsStep ==
    ASSUME TypeOK, Shape, PgtInv, NEW k \in Slot, OthersKept(k),
           task[k].new = None,
           NEW t \in Ticket, NEW ty \in {"ST", "PT", "PGT"}, Draw(t, ty),
           task'[k].new = t,
           task'[k].pc \in {"set", "setPgt"},
           task'[k].pc = "setPgt" <=> ty = "PGT",
           task'[k].data \in TicketData, task'[k].data.type = ty,
           task'[k].kind \in Validations =>
             task[k].kind \in Validations /\ task'[k].ticket = task[k].ticket,
           UNCHANGED <<scenario, store, ious, delivered>>
    PROVE  PgtInv'
<1>. USE BoundsAssumption
<1>1. Issued /\ (~Faulty /\ ~Restarting => PgtsKept)
  BY DEF PgtInv
<1>2. /\ prefix[t] = "none" /\ prefix'[t] = ty
      /\ \A u \in Ticket : prefix[u] # "none" => prefix'[u] = prefix[u]
  BY DEF Draw, TypeOK
<1>3. task[k].kind \in Validations =>
        task[k].ticket \in Ticket /\ prefix[task[k].ticket] \in {"ST", "PT"}
  BY <1>1 DEF Issued, IssueOf, Shape, ShapeOf
<1>4. IssueOf(task[k])'
  BY <1>2, <1>3 DEF IssueOf, Issues
<1>5. Issued'
  BY <1>1, <1>2, <1>4, IssuedStep
<1>6. PgtsKept => PgtsKept'
  BY <1>1, PgtsStep
<1>. QED
  BY <1>1, <1>5, <1>6 DEF PgtInv, Faulty, Restarting

(* The registrations and logouts change no ticket.                         *)
LEMMA NotifyPgts ==
    ASSUME TypeOK, Shape, PgtInv, NEW k \in Slot, NEW s, NEW a, NEW pos,
           Notify(k, s, a, pos), task[k].new = None,
           UNCHANGED <<scenario, store, ious, prefix, delivered>>
    PROVE  PgtInv'
<1>1. OthersKept(k)
  BY DEF Notify, End, OthersKept, TypeOK
<1>2. /\ task'[k].new = None /\ task'[k].kind \notin Validations
      /\ ~Issues(task'[k]) /\ task'[k].pc # "set"
  <2>1. CASE End(k)
    BY <2>1 DEF End, Idle, TypeOK, Validations, Issues
  <2>2. ASSUME NEW i, task' = [task EXCEPT ![k] = [Idle EXCEPT
                                 !.kind = "logout", !.pc = "slo", !.session = s,
                                 !.array = a, !.pos = i]]
        PROVE  /\ task'[k].new = None /\ task'[k].kind = "logout"
               /\ task'[k].pc = "slo"
    BY <2>2 DEF Idle, TypeOK
  <2>. QED
    BY <2>1, <2>2 DEF Notify, Validations, Issues
<1>. QED
  BY <1>1, <1>2, PlainStep

(* A request ends that created no ticket.                                  *)
LEMMA EndPgts ==
    ASSUME TypeOK, Shape, PgtInv, NEW k \in Slot, End(k), task[k].new = None,
           \A t \in Ticket :
             \/ store'[t] = store[t]
             \/ store'[t] = NoTicket /\ prefix[t] \in {"ST", "PT"},
           UNCHANGED <<scenario, ious, prefix, delivered>>
    PROVE  PgtInv'
<1>1. OthersKept(k)
  BY DEF End, OthersKept, TypeOK
<1>2. /\ task'[k].new = None /\ task'[k].kind \notin Validations
      /\ ~Issues(task'[k]) /\ task'[k].pc # "set"
  BY DEF End, Idle, TypeOK, Validations, Issues
<1>. QED
  BY <1>1, <1>2, PlainStep

LEMMA BeginPgts ==
    ASSUME TypeOK, Shape, PgtInv, NEW k \in Slot, Begin(k)
    PROVE  PgtInv'
<1>. USE BoundsAssumption
<1>0. task[k] = Idle => task[k].new = None /\ task[k].kind \notin Validations
  BY DEF Idle, Validations
<1>1. ASSUME NEW s \in Session, NEW sv \in Service, NEW rn \in BOOLEAN,
             NEW t \in Ticket, Login(k, s, sv, rn, t)
      PROVE  PgtInv'
  <2>. DEFINE d == [type |-> "ST", service |-> sv, session |-> s,
                    exp |-> clock + TtlST, renew |-> rn, proxies |-> <<>>]
  <2>1. d \in TicketData /\ d.type = "ST"
    <3>1. clock + TtlST \in Nat /\ <<>> \in Seq(Service)
      BY DEF TypeOK
    <3>. QED
      BY <3>1 DEF TicketData
  <2>2. OthersKept(k)
    BY <1>1 DEF Login, OthersKept, TypeOK
  <2>3. /\ task'[k].new = t /\ task'[k].pc = "set" /\ task'[k].data = d
        /\ task'[k].kind \notin Validations
    BY <1>1 DEF Login, Idle, Validations, TypeOK
  <2>. HIDE DEF d
  <2>4. task[k].new = None
    BY <1>0, <1>1 DEF Login
  <2>5. Draw(t, "ST") /\ UNCHANGED <<scenario, store, ious, delivered>>
    BY <1>1 DEF Login, history
  <2>. QED
    BY <2>1, <2>2, <2>3, <2>4, <2>5, DrawsStep
<1>2. ASSUME NEW s \in Session, Logout(k, s)
      PROVE  PgtInv'
  BY <1>0, <1>2, NotifyPgts DEF Logout
<1>3. ASSUME NEW kind \in Validations, NEW t \in Ticket, NEW sv \in Service,
             NEW rn \in BOOLEAN, NEW pu \in BOOLEAN,
             Validate(k, kind, t, sv, rn, pu)
      PROVE  PgtInv'
  <2>1. OthersKept(k)
    BY <1>3 DEF Validate, OthersKept, TypeOK
  <2>2. /\ task'[k].new = None /\ task'[k].pc = "get" /\ task'[k].ticket = t
    BY <1>3 DEF Validate, Idle, TypeOK
  <2>3. prefix[t] \in {"ST", "PT"}
    BY <1>3 DEF Validate, Accepts
  <2>. QED
    BY <1>0, <1>3, <2>1, <2>2, <2>3, PlainStep DEF Validate, history, Issues
<1>4. ASSUME NEW g \in Ticket, NEW sv \in Service, Proxy(k, g, sv)
      PROVE  PgtInv'
  <2>1. OthersKept(k)
    BY <1>4 DEF Proxy, OthersKept, TypeOK
  <2>2. task'[k].new = None /\ task'[k].pc = "get" /\ task'[k].kind = "proxy"
    BY <1>4 DEF Proxy, Idle, TypeOK
  <2>. QED
    BY <1>0, <1>4, <2>1, <2>2, PlainStep DEF Proxy, history, Issues, Validations
<1>. QED
  BY <1>1, <1>2, <1>3, <1>4 DEF Begin

(* A request that holds the identifier of a ticket goes on or ends.        *)
LEMMA HolderStep ==
    ASSUME TypeOK, Shape, PgtInv, NEW k \in Slot, OthersKept(k),
           \/ task'[k] = Idle
           \/ /\ Issues(task[k]) /\ Issues(task'[k]) /\ task'[k].pc # "setPgt"
              /\ task'[k].new = task[k].new
              /\ task'[k].kind = task[k].kind /\ task'[k].ticket = task[k].ticket,
           \A t \in Ticket : t # task[k].new => store'[t] = store[t],
           ious' \subseteq ious \cup {task[k].new},
           ious' # ious => Issues(task[k]),
           UNCHANGED <<scenario, prefix>>, delivered \subseteq delivered',
           ~Faulty /\ ~Restarting /\ PgtsKept =>
             /\ task'[k].pc \in {"setIou", "callback"}
                  => store'[task'[k].new] # NoTicket
             /\ task'[k].pc = "undoIou" => store'[task'[k].new] = NoTicket
             /\ \A g \in Ticket :
                  g = task[k].new => task'[k].new = g \/ Delivered(g)'
    PROVE  PgtInv'
<1>. USE BoundsAssumption
<1>1. Issued /\ (~Faulty /\ ~Restarting => PgtsKept)
  BY DEF PgtInv
<1>2. IssueOf(task[k])
  BY <1>1 DEF Issued
<1>3. task'[k] = Idle => task'[k].new = None /\ IssueOf(task[k])'
  BY DEF Idle, IssueOf, Issues, Validations
<1>4. Issues(task[k]) /\ Issues(task'[k]) =>
        task[k].pc # "set" /\ task'[k].pc # "set"
  BY DEF Issues
<1>5. task'[k] # Idle => task'[k].new = task[k].new /\ IssueOf(task[k])'
  BY <1>2, <1>4 DEF IssueOf
<1>6. \A g \in ious' : g \in ious \/ (g = task[k].new /\ prefix'[g] = "PGT")
  BY <1>2 DEF IssueOf
<1>7. Issued'
  BY <1>1, <1>3, <1>5, <1>6, IssuedStep
<1>8. ~Faulty /\ ~Restarting => PgtsKept'
  BY <1>1, PgtsStep
<1>. QED
  BY <1>7, <1>8 DEF PgtInv, Faulty, Restarting

LEMMA ContinuePgts ==
    ASSUME TypeOK, Shape, PgtInv, NEW k \in Slot, Continue(k)
    PROVE  PgtInv'
<1>. USE BoundsAssumption
<1>0. /\ ShapeOf(task[k]) /\ task[k] \in TaskState /\ IssueOf(task[k])
      /\ ~Faulty /\ ~Restarting => PgtsKept
  BY DEF Shape, TypeOK, PgtInv, Issued
<1>1. ASSUME LoginStored(k) \/ ProxyStored(k)
      PROVE  PgtInv'
  <2>. DEFINE n == task[k].new
  <2>1. n \in Ticket /\ task[k].pc = "set" /\ task[k].data \in TicketData
        /\ task[k].data.type # "PGT"
    BY <1>0, <1>1 DEF LoginStored, ProxyStored, ShapeOf, IssueOf
  <2>2. /\ OthersKept(k) /\ task'[k] = Idle
        /\ store' = [store EXCEPT ![n] = task[k].data]
        /\ UNCHANGED <<scenario, ious, prefix, delivered>>
    BY <1>1 DEF LoginStored, ProxyStored, End, OthersKept, TypeOK, history
  <2>3. store'[n] = task[k].data /\ \A t \in Ticket : t # n => store'[t] = store[t]
    BY <2>1, <2>2 DEF TypeOK
  <2>. HIDE DEF n
  <2>4. \A g \in Ticket : g = task[k].new => Delivered(g)'
    <3>1. \A g \in Ticket : g = n => Delivered(g)'
      <4>. SUFFICES ASSUME NEW g \in Ticket, g = n
                    PROVE  Delivered(g)'
        OBVIOUS
      <4>1. store'[g] = task[k].data /\ store'[g] # NoTicket /\ store'[g].type # "PGT"
        BY <2>1, <2>3, BoundsAssumption
      <4>. QED
        BY <4>1 DEF Delivered
    <3>. QED
      BY <3>1 DEF n
  <2>5. task'[k].pc = "idle"
    BY <2>2 DEF Idle
  <2>6. /\ \A t \in Ticket : t # task[k].new => store'[t] = store[t]
        /\ ious' = ious /\ delivered' = delivered
        /\ UNCHANGED <<scenario, prefix>>
    BY <2>2, <2>3 DEF n
  <2>. QED
    BY <2>2, <2>4, <2>5, <2>6, HolderStep
<1>2. CASE LogoutSent(k)
  <2>1. task[k].new = None
    BY <1>0, <1>2 DEF LogoutSent, IssueOf, Issues
  <2>. QED
    BY <1>2, <2>1, NotifyPgts DEF LogoutSent
<1>3. CASE TicketNotFound(k) \/ ProxyRefused(k)
  <2>1. task[k].new = None
    BY <1>0, <1>3 DEF TicketNotFound, ProxyRefused, IssueOf, Issues
  <2>. QED
    BY <1>3, <2>1, EndPgts DEF TicketNotFound, ProxyRefused, history
<1>4. CASE TicketFound(k)
  <2>1. task[k].new = None
    BY <1>0, <1>4 DEF TicketFound, IssueOf, Issues
  <2>2. OthersKept(k)
    BY <1>4 DEF TicketFound, OthersKept, TypeOK
  <2>3. /\ task'[k].new = None /\ task'[k].pc = "delete"
        /\ task'[k].kind = task[k].kind /\ task'[k].ticket = task[k].ticket
    BY <1>0, <1>4, <2>1 DEF TicketFound, TypeOK, TaskState
  <2>. QED
    BY <1>0, <1>4, <2>1, <2>2, <2>3, PlainStep
    DEF TicketFound, history, Issues, IssueOf
<1>5. CASE TicketDeleted(k)
  <2>1. task[k].new = None /\ task[k].kind \in Validations
    BY <1>0, <1>5 DEF TicketDeleted, IssueOf, Issues
  <2>2. /\ \A t \in Ticket : \/ store'[t] = store[t]
                             \/ store'[t] = NoTicket /\ prefix[t] \in {"ST", "PT"}
        /\ UNCHANGED <<scenario, ious, prefix, delivered>>
    BY <1>0, <1>5, <2>1 DEF TicketDeleted, IssueOf, TypeOK
  <2>3. CASE End(k)
    BY <2>1, <2>2, <2>3, EndPgts
  <2>4. CASE task' = [task EXCEPT ![k].pc = "session"]
    <3>1. OthersKept(k)
      BY <2>4 DEF OthersKept, TypeOK
    <3>2. /\ task'[k].new = None /\ task'[k].pc = "session"
          /\ task'[k].kind = task[k].kind /\ task'[k].ticket = task[k].ticket
      BY <1>0, <2>1, <2>4 DEF TypeOK, TaskState
    <3>. QED
      BY <1>0, <2>1, <2>2, <3>1, <3>2, PlainStep DEF Issues, IssueOf
  <2>. QED
    BY <1>5, <2>3, <2>4 DEF TicketDeleted, Answer
<1>6. CASE SessionRead(k)
  <2>1. task[k].new = None
    BY <1>0, <1>6 DEF SessionRead, IssueOf, Issues
  <2>. QED
    BY <1>6, <2>1, EndPgts DEF SessionRead, Answer
<1>7. ASSUME NEW g \in Ticket, SessionReadForPgt(k, g)
      PROVE  PgtInv'
  <2>. DEFINE d == [type |-> "PGT", service |-> task[k].got.service,
                    session |-> task[k].got.session, exp |-> clock + TtlPGT,
                    renew |-> FALSE, proxies |-> <<>>]
  <2>1. task[k].new = None /\ task[k].kind \in Validations
    BY <1>0, <1>7 DEF SessionReadForPgt, IssueOf, Issues, ShapeOf
  <2>2. d \in TicketData /\ d.type = "PGT"
    <3>1. clock + TtlPGT \in Nat /\ <<>> \in Seq(Service)
      BY DEF TypeOK
    <3>2. task[k].got \in TicketData
      BY <1>0, <1>7 DEF SessionReadForPgt, ShapeOf
    <3>. QED
      BY <3>1, <3>2 DEF TicketData
  <2>3. OthersKept(k)
    BY <1>7 DEF SessionReadForPgt, OthersKept, TypeOK
  <2>4. task' = [task EXCEPT ![k] = [task[k] EXCEPT
                    !.pc = "setPgt", !.new = g, !.data = d]]
    BY <1>7 DEF SessionReadForPgt
  <2>. HIDE DEF d
  <2>5. /\ task'[k].new = g /\ task'[k].pc = "setPgt" /\ task'[k].data = d
        /\ task'[k].kind = task[k].kind /\ task'[k].ticket = task[k].ticket
    BY <1>0, <2>4 DEF TypeOK, TaskState
  <2>6. Draw(g, "PGT") /\ UNCHANGED <<scenario, store, ious, delivered>>
    BY <1>7 DEF SessionReadForPgt
  <2>. QED
    BY <2>1, <2>2, <2>3, <2>5, <2>6, DrawsStep
<1>8. CASE PgtStored(k) \/ IouStored(k) \/ CallbackFails(k) \/ PgtRemoved(k)
  <2>. DEFINE n == task[k].new
  <2>1. n \in Ticket /\ Issues(task[k]) /\ OthersKept(k)
    BY <1>0, <1>8 DEF PgtStored, IouStored, CallbackFails, PgtRemoved, ShapeOf,
       Issues, OthersKept, TypeOK
  <2>2. /\ task'[k].new = n
        /\ task'[k].kind = task[k].kind /\ task'[k].ticket = task[k].ticket
        /\ task'[k].pc \in {"setIou", "callback", "undoPgt", "undoIou"}
    BY <1>0, <1>8 DEF PgtStored, IouStored, CallbackFails, PgtRemoved, TypeOK,
       TaskState
  <2>3. /\ \A t \in Ticket : t # n => store'[t] = store[t]
        /\ ious' \subseteq ious \cup {n}
        /\ UNCHANGED <<scenario, prefix, delivered>>
    BY <1>8, <2>1 DEF PgtStored, IouStored, CallbackFails, PgtRemoved, TypeOK,
       history
  <2>4. task'[k].pc = "setIou" => store'[n] # NoTicket
    BY <1>0, <1>8, <2>1 DEF PgtStored, IouStored, CallbackFails, PgtRemoved, TypeOK,
       TaskState, IssueOf
  <2>5. PgtsKept /\ task'[k].pc = "callback" => store'[n] # NoTicket
    BY <1>0, <1>8 DEF PgtStored, IouStored, CallbackFails, PgtRemoved, TypeOK,
       TaskState, PgtsKept
  <2>6. task'[k].pc = "undoIou" => store'[n] = NoTicket
    BY <1>0, <1>8, <2>1 DEF PgtStored, IouStored, CallbackFails, PgtRemoved, TypeOK,
       TaskState
  <2>7. Issues(task'[k]) /\ task'[k].pc # "setPgt"
    BY <2>2 DEF Issues
  <2>. QED
    BY <2>1, <2>2, <2>3, <2>4, <2>5, <2>6, <2>7, HolderStep
<1>9. CASE CallbackDelivered(k) \/ IouRemoved(k)
  <2>. DEFINE n == task[k].new
  <2>1. /\ n \in Ticket /\ Issues(task[k]) /\ OthersKept(k) /\ task'[k] = Idle
        /\ UNCHANGED <<scenario, store, prefix>>
        /\ delivered \subseteq delivered' /\ ious' \subseteq ious
    BY <1>0, <1>9 DEF CallbackDelivered, IouRemoved, Answer, End, ShapeOf, Issues,
       OthersKept, TypeOK
  <2>2. /\ task'[k].pc = "idle" /\ ious' \subseteq ious \cup {n}
        /\ ious' # ious => Issues(task[k])
        /\ \A t \in Ticket : t # task[k].new => store'[t] = store[t]
    BY <2>1 DEF Idle
  <2>3. PgtsKept => \A g \in Ticket : g = task[k].new => Delivered(g)'
    <3>. SUFFICES ASSUME PgtsKept, NEW g \in Ticket, g = task[k].new
                  PROVE  Delivered(g)'
      OBVIOUS
    <3>0. store'[g] = store[g]
      BY <2>1
    <3>1. CASE CallbackDelivered(k)
      <4>1. store[g] # NoTicket
        BY <3>1 DEF CallbackDelivered, PgtsKept
      <4>2. g \in delivered'
        BY <3>1 DEF CallbackDelivered
      <4>. QED
        BY <3>0, <4>1, <4>2 DEF Delivered
    <3>2. CASE IouRemoved(k)
      <4>1. store[g] = NoTicket
        BY <3>2 DEF IouRemoved, PgtsKept
      <4>2. g \notin ious'
        BY <3>2 DEF IouRemoved
      <4>. QED
        BY <3>0, <4>1, <4>2 DEF Delivered
    <3>. QED
      BY <3>1, <3>2, <1>9
  <2>. QED
    BY <2>1, <2>2, <2>3, HolderStep
<1>10. ASSUME NEW t \in Ticket, ProxyGranted(k, t)
       PROVE  PgtInv'
  <2>. DEFINE p == store[task[k].ticket]
              d == [type |-> "PT", service |-> task[k].service,
                    session |-> p.session, exp |-> clock + TtlPT,
                    renew |-> FALSE, proxies |-> Append(p.proxies, p.service)]
  <2>1. task[k].new = None /\ task[k].kind = "proxy"
    BY <1>0, <1>10 DEF ProxyGranted, IssueOf, Issues
  <2>2. d \in TicketData /\ d.type = "PT"
    <3>1. p \in TicketData /\ task[k].service \in Service
      BY <1>0, <1>10 DEF ProxyGranted, MayProxy, ShapeOf, TypeOK
    <3>2. Append(p.proxies, p.service) \in Seq(Service) /\ p.session \in Session
      BY <3>1 DEF TicketData
    <3>3. clock + TtlPT \in Nat
      BY DEF TypeOK
    <3>. QED
      BY <3>1, <3>2, <3>3 DEF TicketData
  <2>3. OthersKept(k)
    BY <1>10 DEF ProxyGranted, OthersKept, TypeOK
  <2>4. task' = [task EXCEPT ![k] = [task[k] EXCEPT
                    !.pc = "set", !.new = t, !.data = d]]
    BY <1>10 DEF ProxyGranted
  <2>. HIDE DEF d
  <2>5. /\ task'[k].new = t /\ task'[k].pc = "set" /\ task'[k].data = d
        /\ task'[k].kind = "proxy"
    BY <1>0, <2>1, <2>4 DEF TypeOK, TaskState
  <2>6. Draw(t, "PT") /\ UNCHANGED <<scenario, store, ious, delivered>>
    BY <1>10 DEF ProxyGranted
  <2>7. "proxy" \notin Validations
    BY DEF Validations
  <2>. QED
    BY <2>1, <2>2, <2>3, <2>5, <2>6, <2>7, DrawsStep
<1>. QED
  BY <1>1, <1>2, <1>3, <1>4, <1>5, <1>6, <1>7, <1>8, <1>9, <1>10 DEF Continue

LEMMA FailPgts ==
    ASSUME TypeOK, Shape, PgtInv, NEW k \in Slot, StoreFails(k)
    PROVE  PgtInv'
<1>1. /\ Issued /\ IssueOf(task[k]) /\ Faulty
      /\ UNCHANGED <<scenario, prefix>>
  BY DEF PgtInv, Issued, StoreFails
<1>2. OthersKept(k) /\ task'[k] = Idle
  BY DEF StoreFails, End, OthersKept, TypeOK
<1>3. \A g \in ious' : g \in ious \/ (g = task[k].new /\ prefix'[g] = "PGT")
  BY <1>1 DEF StoreFails, IssueOf, Issues
<1>4. task'[k].new = None /\ IssueOf(task[k])'
  BY <1>2 DEF Idle, IssueOf, Issues, Validations
<1>5. Issued'
  BY <1>1, <1>2, <1>3, <1>4, IssuedStep
<1>. QED
  BY <1>1, <1>5 DEF PgtInv, Faulty

LEMMA PgtInvStep ==
    ASSUME IInv, PgtInv, [Next]_vars
    PROVE  PgtInv'
<1>0. TypeOK /\ Shape
  BY DEF IInv
<1>1. CASE Restart
  <2>1. /\ Restarting /\ UNCHANGED <<scenario, ious, prefix>>
        /\ \A k \in Slot : task'[k] = Idle
    BY <1>1 DEF Restart
  <2>2. \A k \in Slot : task'[k].new = None /\ IssueOf(task[k])'
    BY <2>1 DEF Idle, IssueOf, Issues, Validations
  <2>3. Issued'
    BY <2>1, <2>2 DEF PgtInv, Issued
  <2>. QED
    BY <2>1, <2>3 DEF PgtInv, Restarting
<1>2. CASE Tick \/ UNCHANGED vars
  <2>1. UNCHANGED <<scenario, store, ious, prefix, task, delivered>>
    BY <1>2 DEF Tick, vars, history
  <2>2. Issued'
    BY <2>1 DEF PgtInv, Issued, IssueOf, Issues
  <2>3. PgtsKept => PgtsKept'
    BY <2>1 DEF PgtsKept, Delivered
  <2>. QED
    BY <2>1, <2>2, <2>3 DEF PgtInv, Faulty, Restarting
<1>. QED
  BY <1>0, <1>1, <1>2, BeginPgts, ContinuePgts, FailPgts DEF Next

LEMMA PgtInvInit == Init => PgtInv
BY DEF Init, PgtInv, Issued, IssueOf, Issues, Idle, PgtsKept, Delivered, Validations

(* Once the request that made it was answered, a PGT that the store has    *)
(* was given to its service, and a PGTIOU names a PGT that the store has,  *)
(* unless the store or the process fails: issuePGT() takes back what the   *)
(* callback did not deliver, and no other request touches it.              *)
THEOREM PgtsAreDelivered == Spec => []PgtsDelivered
<1>1. Init => IInv /\ PgtInv
  BY InitType, InitSafe, PgtInvInit DEF IInv
<1>2. (IInv /\ PgtInv) /\ [Next]_vars => (IInv /\ PgtInv)'
  BY StepInv, PgtInvStep
<1>3. IInv /\ PgtInv => PgtsDelivered
  BY DEF PgtInv, PgtsKept, Delivered, PgtsDelivered
<1>. QED
  BY <1>1, <1>2, <1>3, PTL DEF Spec

-----------------------------------------------------------------------------
(* NoAppForgotten *)

LoggingOut(k, s) == task[k].kind = "logout" /\ task[k].session = s

(* The applications among the first n of the array a were sent a request.  *)
SentUpTo(s, a, n) ==
    \A i \in DOMAIN arrays[s][a] :
      i <= n /\ arrays[s][a][i] \in LogoutApps => arrays[s][a][i] \in sent[s]

(* A logout runs in the current array, and is at an application that gets  *)
(* a request.                                                              *)
LogoutsOk ==
    \A k \in Slot, s \in Session :
      LoggingOut(k, s) =>
        /\ task[k].array = current[s]
        /\ SentUpTo(s, current[s], task[k].pos)
        /\ task[k].pos \in 1 .. Len(arrays[s][current[s]])
        /\ arrays[s][current[s]][task[k].pos] \in LogoutApps

ClearedOk ==
    \A s \in Session : \A a \in DOMAIN arrays[s] \ {current[s]} :
      SentUpTo(s, a, Len(arrays[s][a]))

LogoutKinds == \A k \in Slot : task[k].pc = "slo" <=> task[k].kind = "logout"

AppsInv == LogoutKinds /\ LogoutsOk /\ ClearedOk

(* No two logouts of a session overlap.                                    *)
LogoutsApart ==
    \A s \in Session : \A k, l \in Slot :
      LoggingOut(k, s) /\ LoggingOut(l, s) => k = l

LogoutsCounted ==
    /\ scenario \in DOMAIN Scenarios
    /\ LogoutKinds
    /\ \A k \in Slot, s \in Session : LoggingOut(k, s) => logouts[s] # 0
    /\ MaxLogouts <= 1 => LogoutsApart

(* A request that is no logout, and leaves the registrations alone.        *)
LEMMA PlainApps ==
    ASSUME AppsInv, NEW k \in Slot, OthersKept(k),
           task'[k].kind # "logout", task'[k].pc # "slo",
           UNCHANGED <<arrays, current, sent>>
    PROVE  AppsInv'
<1>1. LogoutKinds'
  BY DEF AppsInv, LogoutKinds, OthersKept
<1>2. LogoutsOk => LogoutsOk'
  BY DEF LogoutsOk, LoggingOut, SentUpTo, OthersKept
<1>3. ClearedOk => ClearedOk'
  BY DEF ClearedOk, SentUpTo
<1>. QED
  BY <1>1, <1>2, <1>3 DEF AppsInv

LEMMA RegisterApps ==
    ASSUME TypeOK, Shape, AppsInv, NEW k \in Slot, NEW s \in Session,
           NEW sv \in Service, RegisterApp(s, sv), OthersKept(k),
           task'[k].kind # "logout", task'[k].pc # "slo",
           UNCHANGED sent
    PROVE  AppsInv'
<1>. DEFINE a == current[s]
<1>0. arrays[s] \in Seq(Seq(Service)) /\ a \in Nat /\ a <= Len(arrays[s])
  BY DEF TypeOK
<1>1. LogoutKinds'
  BY DEF AppsInv, LogoutKinds, OthersKept
<1>2. CASE UNCHANGED <<arrays, current>>
  BY <1>2, PlainApps
<1>3. CASE /\ a = 0
           /\ arrays' = [arrays EXCEPT ![s] = Append(@, <<sv>>)]
           /\ current' = [current EXCEPT ![s] = Len(arrays[s]) + 1]
  <2>1. /\ \A x \in Session : x # s => arrays'[x] = arrays[x] /\ current'[x] = current[x]
        /\ arrays'[s] = Append(arrays[s], <<sv>>)
        /\ current'[s] = Len(arrays[s]) + 1
    BY <1>3 DEF TypeOK
  <2>2. /\ DOMAIN arrays[s] = 1 .. Len(arrays[s])
        /\ DOMAIN arrays'[s] = 1 .. (Len(arrays[s]) + 1)
        /\ \A i \in 1 .. Len(arrays[s]) : arrays'[s][i] = arrays[s][i]
    <3>1. <<sv>> \in Seq(Service)
      OBVIOUS
    <3>. QED
      BY <1>0, <2>1, <3>1
  <2>3. LogoutsOk => \A l \in Slot : ~LoggingOut(l, s)
    <3>. SUFFICES ASSUME LogoutsOk, NEW l \in Slot, LoggingOut(l, s)
                  PROVE  FALSE
      OBVIOUS
    <3>1. task[l].pc = "slo" /\ task[l].array = current[s]
      BY DEF LogoutsOk, AppsInv, LogoutKinds, LoggingOut
    <3>2. task[l].array \in 1 .. Len(arrays[s])
      BY <3>1 DEF Shape, ShapeOf, LoggingOut
    <3>. QED
      BY <1>0, <1>3, <3>1, <3>2
  <2>4. LogoutsOk => LogoutsOk'
    <3>. SUFFICES ASSUME LogoutsOk, NEW l \in Slot, NEW x \in Session,
                         LoggingOut(l, x)'
                  PROVE  /\ task'[l].array = current'[x]
                         /\ SentUpTo(x, current[x], task[l].pos)'
                         /\ task'[l].pos \in 1 .. Len(arrays'[x][current'[x]])
                         /\ arrays'[x][current'[x]][task'[l].pos] \in LogoutApps
      BY DEF LogoutsOk
    <3>1. l # k /\ task'[l] = task[l] /\ LoggingOut(l, x)
      BY DEF LoggingOut, OthersKept
    <3>2. x # s
      BY <2>3, <3>1
    <3>3. arrays'[x] = arrays[x] /\ current'[x] = current[x]
      BY <2>1, <3>2
    <3>. QED
      BY <3>1, <3>3 DEF LogoutsOk, SentUpTo
  <2>5. ClearedOk => ClearedOk'
    <3>. SUFFICES ASSUME ClearedOk, NEW x \in Session,
                         NEW b \in DOMAIN arrays'[x] \ {current'[x]}
                  PROVE  SentUpTo(x, b, Len(arrays[x][b]))'
      BY DEF ClearedOk
    <3>1. b \in DOMAIN arrays[x] \ {current[x]} /\ arrays'[x][b] = arrays[x][b]
      <4>1. CASE x # s
        BY <2>1, <4>1
      <4>2. CASE x = s
        BY <1>0, <1>3, <2>1, <2>2, <4>2
      <4>. QED
        BY <4>1, <4>2
    <3>2. SentUpTo(x, b, Len(arrays[x][b]))
      BY <3>1 DEF ClearedOk
    <3>. QED
      BY <3>1, <3>2 DEF SentUpTo
  <2>. QED
    BY <1>1, <2>4, <2>5 DEF AppsInv
<1>4. CASE /\ a # 0
           /\ arrays' = [arrays EXCEPT ![s][a] = Append(@, sv)]
           /\ UNCHANGED current
  <2>1. a \in DOMAIN arrays[s] /\ arrays[s][a] \in Seq(Service)
    BY <1>0, <1>4
  <2>2. /\ \A x \in Session : x # s => arrays'[x] = arrays[x]
        /\ DOMAIN arrays'[s] = DOMAIN arrays[s]
        /\ \A b \in DOMAIN arrays[s] : b # a => arrays'[s][b] = arrays[s][b]
        /\ arrays'[s][a] = Append(arrays[s][a], sv)
    BY <1>4, <2>1 DEF TypeOK
  <2>3. /\ DOMAIN arrays'[s][a] = 1 .. Len(arrays[s][a]) + 1
        /\ Len(arrays'[s][a]) = Len(arrays[s][a]) + 1
        /\ \A i \in 1 .. Len(arrays[s][a]) : arrays'[s][a][i] = arrays[s][a][i]
        /\ Len(arrays[s][a]) \in Nat
        /\ DOMAIN arrays[s][a] = 1 .. Len(arrays[s][a])
    BY <2>1, <2>2
  <2>. HIDE DEF a
  <2>4. LogoutsOk => LogoutsOk'
    <3>. SUFFICES ASSUME LogoutsOk, NEW l \in Slot, NEW x \in Session,
                         LoggingOut(l, x)'
                  PROVE  /\ task'[l].array = current'[x]
                         /\ SentUpTo(x, current[x], task[l].pos)'
                         /\ task'[l].pos \in 1 .. Len(arrays'[x][current'[x]])
                         /\ arrays'[x][current'[x]][task'[l].pos] \in LogoutApps
      BY DEF LogoutsOk
    <3>1. l # k /\ task'[l] = task[l] /\ LoggingOut(l, x)
      BY DEF LoggingOut, OthersKept
    <3>3. /\ task[l].array = current[x]
          /\ SentUpTo(x, current[x], task[l].pos)
          /\ task[l].pos \in 1 .. Len(arrays[x][current[x]])
          /\ arrays[x][current[x]][task[l].pos] \in LogoutApps
      BY <3>1 DEF LogoutsOk
    <3>4. CASE x # s
      BY <1>4, <2>2, <3>1, <3>3, <3>4 DEF SentUpTo
    <3>5. CASE x = s
      <4>1. current'[x] = a /\ current[x] = a
        BY <1>4, <3>5 DEF a
      <4>2. task[l].pos \in 1 .. Len(arrays[s][a])
        BY <3>3, <3>5, <4>1
      <4>3. /\ task'[l].pos \in 1 .. Len(arrays'[x][current'[x]])
            /\ arrays'[x][current'[x]][task'[l].pos] \in LogoutApps
        BY <2>3, <3>1, <3>3, <3>5, <4>1, <4>2
      <4>4. \A i \in DOMAIN arrays'[s][a] :
              i <= task[l].pos =>
                i \in DOMAIN arrays[s][a] /\ arrays'[s][a][i] = arrays[s][a][i]
        BY <2>3, <4>2
      <4>5. SentUpTo(x, current[x], task[l].pos)'
        BY <3>1, <3>3, <3>5, <4>1, <4>4 DEF SentUpTo
      <4>. QED
        BY <1>4, <3>1, <3>3, <4>3, <4>5
    <3>. QED
      BY <3>4, <3>5
  <2>5. ClearedOk => ClearedOk'
    <3>. SUFFICES ASSUME ClearedOk, NEW x \in Session,
                         NEW b \in DOMAIN arrays'[x] \ {current'[x]}
                  PROVE  SentUpTo(x, b, Len(arrays[x][b]))'
      BY DEF ClearedOk
    <3>1. b \in DOMAIN arrays[x] \ {current[x]} /\ arrays'[x][b] = arrays[x][b]
      <4>1. CASE x # s
        BY <1>4, <2>2, <4>1
      <4>2. CASE x = s
        BY SMTT(30), <1>4, <2>2, <4>2 DEF a
      <4>. QED
        BY <4>1, <4>2
    <3>2. SentUpTo(x, b, Len(arrays[x][b]))
      BY <3>1 DEF ClearedOk
    <3>. QED
      BY <3>1, <3>2 DEF SentUpTo
  <2>. QED
    BY <1>1, <2>4, <2>5 DEF AppsInv
<1>. QED
  BY <1>2, <1>3, <1>4 DEF RegisterApp

(* A logout goes to its next application, or ends and clears.              *)
LEMMA NotifyApps ==
    ASSUME TypeOK, AppsInv, NEW k \in Slot, NEW s \in Session, NEW pos \in Nat,
           NEW a, a = current[s], a # 0, Notify(k, s, a, pos),
           SentUpTo(s, a, pos), pos <= Len(arrays[s][a]),
           \A l \in Slot : LoggingOut(l, s) => l = k,
           UNCHANGED arrays
    PROVE  AppsInv'
<1>0. /\ arrays[s] \in Seq(Seq(Service)) /\ a \in 1 .. Len(arrays[s])
      /\ arrays[s][a] \in Seq(Service)
  BY DEF TypeOK
<1>1. OthersKept(k)
  BY DEF Notify, End, OthersKept, TypeOK
<1>2. ASSUME NEW i \in Remaining(s, a, pos),
             \A n \in Remaining(s, a, pos) : i <= n,
             task' = [task EXCEPT ![k] = [Idle EXCEPT
                        !.kind = "logout", !.pc = "slo", !.session = s,
                        !.array = a, !.pos = i]],
             sent' = [sent EXCEPT ![s] = @ \cup {arrays[s][a][i]}],
             UNCHANGED current
      PROVE  AppsInv'
  <2>1. /\ task'[k].kind = "logout" /\ task'[k].pc = "slo"
        /\ task'[k].session = s /\ task'[k].array = a /\ task'[k].pos = i
    BY <1>2 DEF TypeOK, Idle
  <2>2. /\ i \in 1 .. Len(arrays[s][a]) /\ i > pos
        /\ arrays[s][a][i] \in LogoutApps
        /\ \A n \in pos + 1 .. Len(arrays[s][a]) :
             arrays[s][a][n] \in LogoutApps => i <= n
    BY <1>0, <1>2 DEF Remaining
  <2>3. /\ \A x \in Session : sent[x] \subseteq sent'[x]
        /\ arrays[s][a][i] \in sent'[s]
    BY <1>2 DEF TypeOK
  <2>4. LogoutKinds'
    BY <1>1, <2>1 DEF AppsInv, LogoutKinds, OthersKept
  <2>5. SentUpTo(s, a, i)'
    <3>. SUFFICES ASSUME NEW j \in DOMAIN arrays[s][a], j <= i,
                         arrays[s][a][j] \in LogoutApps
                  PROVE  arrays[s][a][j] \in sent'[s]
      BY <2>1 DEF SentUpTo
    <3>1. CASE j <= pos
      BY <2>3, <3>1 DEF SentUpTo
    <3>2. CASE j > pos
      <4>1. j \in pos + 1 .. Len(arrays[s][a])
        BY SMTT(30), <1>0, <3>2
      <4>2. j = i
        BY <2>2, <4>1
      <4>. QED
        BY <2>3, <4>2
    <3>. QED
      BY <1>0, <3>1, <3>2
  <2>6. LogoutsOk'
    <3>. SUFFICES ASSUME NEW l \in Slot, NEW x \in Session,
                         LoggingOut(l, x)'
                  PROVE  /\ task'[l].array = current'[x]
                         /\ SentUpTo(x, current[x], task[l].pos)'
                         /\ task'[l].pos \in 1 .. Len(arrays'[x][current'[x]])
                         /\ arrays'[x][current'[x]][task'[l].pos] \in LogoutApps
      BY DEF LogoutsOk
    <3>1. LogoutsOk
      BY DEF AppsInv
    <3>2. CASE x = s
      <4>1. l = k
        BY <1>1, <3>2 DEF LoggingOut, OthersKept
      <4>3. current'[x] = a
        BY <1>2, <3>2
      <4>4. SentUpTo(x, current[x], task[l].pos)'
        BY <2>1, <2>5, <3>2, <4>1, <4>3 DEF SentUpTo
      <4>. QED
        BY <2>1, <2>2, <3>2, <4>1, <4>3, <4>4
    <3>3. CASE x # s
      <4>1. l # k /\ task'[l] = task[l] /\ LoggingOut(l, x)
        BY <1>1, <2>1, <3>3 DEF LoggingOut, OthersKept
      <4>3. /\ task[l].array = current[x]
            /\ SentUpTo(x, current[x], task[l].pos)
            /\ task[l].pos \in 1 .. Len(arrays[x][current[x]])
            /\ arrays[x][current[x]][task[l].pos] \in LogoutApps
        BY <3>1, <4>1 DEF LogoutsOk
      <4>4. SentUpTo(x, current[x], task[l].pos)'
        BY <1>2, <2>3, <4>1, <4>3 DEF SentUpTo
      <4>. QED
        BY <1>2, <3>3, <4>1, <4>3, <4>4
    <3>. QED
      BY <3>2, <3>3
  <2>7. ClearedOk'
    BY <1>2, <2>3 DEF AppsInv, ClearedOk, SentUpTo
  <2>. QED
    BY <2>4, <2>6, <2>7 DEF AppsInv
<1>3. ASSUME Remaining(s, a, pos) = {}, End(k),
             current' = [current EXCEPT ![s] = 0], UNCHANGED sent
      PROVE  AppsInv'
  <2>1. task'[k].kind # "logout" /\ task'[k].pc # "slo"
    BY <1>3 DEF End, TypeOK, Idle
  <2>2. /\ \A x \in Session : x # s => current'[x] = current[x]
        /\ current'[s] = 0
    BY <1>3 DEF TypeOK
  <2>3. LogoutKinds'
    BY <1>1, <2>1 DEF AppsInv, LogoutKinds, OthersKept
  <2>4. LogoutsOk'
    <3>. SUFFICES ASSUME NEW l \in Slot, NEW x \in Session,
                         LoggingOut(l, x)'
                  PROVE  /\ task'[l].array = current'[x]
                         /\ SentUpTo(x, current[x], task[l].pos)'
                         /\ task'[l].pos \in 1 .. Len(arrays'[x][current'[x]])
                         /\ arrays'[x][current'[x]][task'[l].pos] \in LogoutApps
      BY DEF LogoutsOk
    <3>1. l # k /\ task'[l] = task[l] /\ LoggingOut(l, x)
      BY <1>1, <2>1 DEF LoggingOut, OthersKept
    <3>2. x # s
      BY <3>1
    <3>3. LogoutsOk
      BY DEF AppsInv
    <3>. QED
      BY <1>3, <2>2, <3>1, <3>2, <3>3 DEF LogoutsOk, SentUpTo
  <2>5. ClearedOk'
    <3>. SUFFICES ASSUME NEW x \in Session,
                         NEW b \in DOMAIN arrays'[x] \ {current'[x]}
                  PROVE  SentUpTo(x, b, Len(arrays[x][b]))'
      BY DEF ClearedOk
    <3>1. CASE x = s /\ b = a
      <4>1. SentUpTo(s, a, Len(arrays[s][a]))
        <5>. SUFFICES ASSUME NEW j \in DOMAIN arrays[s][a],
                             arrays[s][a][j] \in LogoutApps
                      PROVE  arrays[s][a][j] \in sent[s]
          BY DEF SentUpTo
        <5>1. j \in 1 .. Len(arrays[s][a])
          BY SMTT(30), <1>0
        <5>2. j \notin pos + 1 .. Len(arrays[s][a])
          BY <1>3 DEF Remaining
        <5>3. j <= pos
          BY <1>0, <5>1, <5>2
        <5>. QED
          BY <5>3 DEF SentUpTo
      <4>. QED
        BY <1>3, <3>1, <4>1 DEF SentUpTo
    <3>2. CASE ~(x = s /\ b = a)
      <4>1. b \in DOMAIN arrays[x] \ {current[x]}
        BY <2>2, <3>2
      <4>2. SentUpTo(x, b, Len(arrays[x][b]))
        BY <4>1 DEF AppsInv, ClearedOk
      <4>. QED
        BY <1>3, <4>2 DEF SentUpTo
    <3>. QED
      BY <3>1, <3>2
  <2>. QED
    BY <2>3, <2>4, <2>5 DEF AppsInv
<1>. QED
  BY <1>2, <1>3 DEF Notify

(* The requests that are no logout: the steps that begin one, and those    *)
(* that go on but for the registration of an application.                  *)
BeginsOther(k) ==
    \/ \E s \in Session, sv \in Service, rn \in BOOLEAN, t \in Ticket :
         Login(k, s, sv, rn, t)
    \/ \E kind \in Validations, t \in Ticket, sv \in Service,
          rn, pu \in BOOLEAN : Validate(k, kind, t, sv, rn, pu)
    \/ \E g \in Ticket, sv \in Service : Proxy(k, g, sv)

GoesOn(k) ==
    \/ TicketNotFound(k) \/ TicketDeleted(k)
    \/ SessionRead(k) \/ CallbackDelivered(k) \/ IouRemoved(k)
    \/ ProxyRefused(k) \/ ProxyStored(k) \/ StoreFails(k)
    \/ TicketFound(k) \/ (\E g \in Ticket : SessionReadForPgt(k, g))
    \/ PgtStored(k) \/ IouStored(k)
    \/ CallbackFails(k) \/ PgtRemoved(k)
    \/ (\E t \in Ticket : ProxyGranted(k, t))

LEMMA OthersStep ==
    ASSUME TypeOK, LogoutKinds, NEW k \in Slot, BeginsOther(k) \/ GoesOn(k)
    PROVE  /\ OthersKept(k)
           /\ task'[k].kind # "logout" /\ task'[k].pc # "slo"
           /\ UNCHANGED <<scenario, arrays, current, logouts, sent>>
<1>1. CASE BeginsOther(k)
  <2>1. OthersKept(k)
    BY ZenonT(60), <1>1 DEF BeginsOther, Login, Validate, Proxy, OthersKept, TypeOK
  <2>2. task'[k].kind # "logout" /\ task'[k].pc # "slo"
    <3>1. CASE \E s \in Session, sv \in Service, rn \in BOOLEAN, t \in Ticket :
                 Login(k, s, sv, rn, t)
      BY <3>1 DEF Login, TypeOK, Idle
    <3>2. ASSUME NEW kind \in Validations, NEW t \in Ticket, NEW sv \in Service,
                 NEW rn \in BOOLEAN, NEW pu \in BOOLEAN,
                 Validate(k, kind, t, sv, rn, pu)
          PROVE  task'[k].kind # "logout" /\ task'[k].pc # "slo"
      <4>1. task'[k].kind = kind /\ task'[k].pc = "get"
        BY <3>2 DEF Validate, TypeOK, Idle
      <4>. QED
        BY <4>1 DEF Validations
    <3>3. CASE \E g \in Ticket, sv \in Service : Proxy(k, g, sv)
      BY <3>3 DEF Proxy, TypeOK, Idle
    <3>. QED
      BY <1>1, <3>1, <3>2, <3>3 DEF BeginsOther
  <2>3. UNCHANGED <<scenario, arrays, current, logouts, sent>>
    BY ZenonT(60), <1>1 DEF BeginsOther, Login, Validate, Proxy, history
  <2>. QED
    BY <2>1, <2>2, <2>3
<1>2. CASE GoesOn(k)
  <2>1. OthersKept(k)
    BY ZenonT(60), <1>2
    DEF GoesOn, TicketNotFound, TicketDeleted, SessionRead, CallbackDelivered,
       IouRemoved, ProxyRefused, ProxyStored, StoreFails, Answer, End,
       TicketFound, SessionReadForPgt, PgtStored, IouStored,
       CallbackFails, PgtRemoved, ProxyGranted, OthersKept, TypeOK
  <2>2. UNCHANGED <<scenario, arrays, current, logouts, sent>>
    BY <1>2 DEF GoesOn, TicketNotFound, TicketDeleted, SessionRead, CallbackDelivered,
       IouRemoved, ProxyRefused, ProxyStored, StoreFails, Answer, End,
       TicketFound, SessionReadForPgt, PgtStored, IouStored,
       CallbackFails, PgtRemoved, ProxyGranted, history
  <2>3. task[k].kind # "logout"
    <3>1. task[k].pc # "slo"
      BY <1>2 DEF GoesOn, TicketNotFound, TicketDeleted, SessionRead, CallbackDelivered,
         IouRemoved, ProxyRefused, ProxyStored, StoreFails, TicketFound,
         SessionReadForPgt, PgtStored, IouStored, CallbackFails, PgtRemoved,
         ProxyGranted, Writing
    <3>. QED
      BY SMTT(30), <3>1 DEF LogoutKinds
  <2>4. task'[k] = Idle \/ (task'[k].kind = task[k].kind /\ task'[k].pc # "slo")
    <3>0. task[k] \in TaskState
      BY DEF TypeOK
    <3>1. CASE \/ TicketNotFound(k) \/ SessionRead(k) \/ CallbackDelivered(k)
               \/ IouRemoved(k) \/ ProxyRefused(k) \/ ProxyStored(k)
               \/ StoreFails(k)
      BY <3>1 DEF TicketNotFound, SessionRead, CallbackDelivered, IouRemoved,
         ProxyRefused, ProxyStored, StoreFails, Answer, End, TypeOK
    <3>2. CASE TicketDeleted(k)
      BY <3>0, <3>2 DEF TicketDeleted, Answer, End, TypeOK, TaskState
    <3>3. CASE TicketFound(k) \/ PgtStored(k) \/ IouStored(k)
      BY <3>0, <3>3 DEF TicketFound, PgtStored, IouStored, TypeOK, TaskState
    <3>4. CASE CallbackFails(k) \/ PgtRemoved(k)
      BY <3>0, <3>4 DEF CallbackFails, PgtRemoved, TypeOK, TaskState
    <3>5. ASSUME NEW g \in Ticket, SessionReadForPgt(k, g)
          PROVE  task'[k].kind = task[k].kind /\ task'[k].pc # "slo"
      BY <3>0, <3>5 DEF SessionReadForPgt, TypeOK, TaskState
    <3>6. ASSUME NEW t \in Ticket, ProxyGranted(k, t)
          PROVE  task'[k].kind = task[k].kind /\ task'[k].pc # "slo"
      BY <3>0, <3>6 DEF ProxyGranted, TypeOK, TaskState
    <3>. QED
      BY <1>2, <3>1, <3>2, <3>3, <3>4, <3>5, <3>6 DEF GoesOn
  <2>. QED
    BY <2>1, <2>2, <2>3, <2>4 DEF Idle
<1>. QED
  BY <1>1, <1>2

LEMMA NotifyTask ==
    ASSUME TypeOK, NEW k \in Slot, NEW s, NEW a, NEW pos, Notify(k, s, a, pos)
    PROVE  \/ /\ task'[k].kind = "logout" /\ task'[k].pc = "slo"
              /\ task'[k].session = s
           \/ task'[k].kind # "logout" /\ task'[k].pc # "slo"
<1>1. ASSUME NEW i,
             task' = [task EXCEPT ![k] = [Idle EXCEPT
               !.kind = "logout", !.pc = "slo", !.session = s,
               !.array = a, !.pos = i]]
      PROVE  /\ task'[k].kind = "logout" /\ task'[k].pc = "slo"
             /\ task'[k].session = s
  BY <1>1 DEF Idle, TypeOK
<1>2. End(k) => task'[k] = Idle
  BY DEF End, TypeOK
<1>3. Idle.kind # "logout" /\ Idle.pc # "slo"
  BY DEF Idle
<1>. QED
  BY <1>1, <1>2, <1>3 DEF Notify

LEMMA AppsInvStep ==
    ASSUME TypeOK, Shape, AppsInv, LogoutsApart, LogoutsApart', [Next]_vars
    PROVE  AppsInv'
<1>1. ASSUME NEW k \in Slot, NEW s \in Session, Logout(k, s)
      PROVE  AppsInv'
  <2>1. OthersKept(k) /\ UNCHANGED arrays /\ Notify(k, s, current[s], 0)
    BY <1>1 DEF Logout, Notify, End, OthersKept, TypeOK
  <2>2. current[s] # 0 /\ task[k] = Idle
    BY <1>1 DEF Logout
  <2>3. arrays[s] \in Seq(Seq(Service)) /\ current[s] \in 1 .. Len(arrays[s])
    BY <2>2 DEF TypeOK
  <2>4. SentUpTo(s, current[s], 0) /\ 0 <= Len(arrays[s][current[s]])
    <3>1. arrays[s][current[s]] \in Seq(Service)
      BY <2>3
    <3>. QED
      BY <3>1 DEF SentUpTo
  <2>5. \A l \in Slot : ~LoggingOut(l, s)
    <3>. SUFFICES ASSUME NEW l \in Slot, LoggingOut(l, s)
                  PROVE  FALSE
      OBVIOUS
    <3>1. l # k /\ LoggingOut(l, s)'
      BY <2>1, <2>2 DEF LoggingOut, Idle, OthersKept
    <3>2. /\ task[l].pos \in 1 .. Len(arrays[s][current[s]])
          /\ arrays[s][current[s]][task[l].pos] \in LogoutApps
      BY DEF AppsInv, LogoutsOk
    <3>3. Remaining(s, current[s], 0) # {}
      BY <3>2 DEF Remaining
    <3>4. LoggingOut(k, s)'
      <4>1. ASSUME NEW i,
                   task' = [task EXCEPT ![k] = [Idle EXCEPT
                     !.kind = "logout", !.pc = "slo", !.session = s,
                     !.array = current[s], !.pos = i]]
            PROVE  LoggingOut(k, s)'
        BY <4>1 DEF Idle, TypeOK, LoggingOut
      <4>. QED
        BY <2>1, <3>3, <4>1 DEF Notify
    <3>. QED
      BY <3>1, <3>4 DEF LogoutsApart
  <2>. QED
    BY <2>1, <2>2, <2>4, <2>5, NotifyApps
<1>2. ASSUME NEW k \in Slot, LogoutSent(k)
      PROVE  AppsInv'
  <2>. DEFINE s == task[k].session
              a == task[k].array
              pos == task[k].pos
  <2>1. s \in Session /\ pos \in Nat /\ LoggingOut(k, s)
    BY <1>2 DEF LogoutSent, Shape, ShapeOf, TypeOK, TaskState, AppsInv,
       LogoutKinds, LoggingOut
  <2>2. Notify(k, s, a, pos) /\ UNCHANGED arrays
    BY <1>2 DEF LogoutSent
  <2>3. a \in 1 .. Len(arrays[s])
    BY <1>2 DEF LogoutSent, Shape, ShapeOf
  <2>. HIDE DEF s, a, pos
  <2>4. /\ a = current[s] /\ SentUpTo(s, a, pos)
        /\ pos \in 1 .. Len(arrays[s][a])
    BY <2>1 DEF AppsInv, LogoutsOk, s, a, pos
  <2>5. \A l \in Slot : LoggingOut(l, s) => l = k
    BY <2>1 DEF LogoutsApart
  <2>6. arrays[s] \in Seq(Seq(Service))
    BY <2>1 DEF TypeOK
  <2>7. pos <= Len(arrays[s][a]) /\ a # 0
    BY <2>3, <2>4, <2>6
  <2>. QED
    BY <2>1, <2>2, <2>4, <2>5, <2>7, NotifyApps
<1>3. ASSUME NEW k \in Slot, LoginStored(k)
      PROVE  AppsInv'
  <2>1. task[k].session \in Session /\ task[k].data.service \in Service
    BY <1>3 DEF LoginStored, Shape, ShapeOf, TicketData
  <2>2. /\ OthersKept(k)
        /\ task'[k].kind # "logout" /\ task'[k].pc # "slo"
    BY <1>3 DEF LoginStored, End, OthersKept, TypeOK, Idle
  <2>. QED
    BY <1>3, <2>1, <2>2, RegisterApps DEF LoginStored, history
<1>4. ASSUME NEW k \in Slot, BeginsOther(k) \/ GoesOn(k)
      PROVE  AppsInv'
  BY <1>4, OthersStep, PlainApps DEF AppsInv
<1>5. CASE Restart
  <2>1. /\ UNCHANGED sent
        /\ \A k \in Slot : task'[k].kind # "logout" /\ task'[k].pc # "slo"
        /\ \A s \in Session : DOMAIN arrays'[s] = {}
    BY <1>5 DEF Restart, history, Idle
  <2>. QED
    BY <2>1 DEF AppsInv, LogoutKinds, LogoutsOk, LoggingOut, ClearedOk
<1>6. CASE Tick \/ UNCHANGED vars
  <2>1. UNCHANGED <<task, arrays, current, sent>>
    BY <1>6 DEF Tick, vars, history
  <2>. QED
    BY <2>1 DEF AppsInv, LogoutKinds, LogoutsOk, LoggingOut, ClearedOk, SentUpTo
<1>. QED
  BY <1>1, <1>2, <1>3, <1>4, <1>5, <1>6
  DEF Next, Begin, Continue, BeginsOther, GoesOn

LEMMA AppsInvInit == Init => AppsInv
BY DEF Init, AppsInv, LogoutKinds, LogoutsOk, LoggingOut, ClearedOk, Idle

LEMMA ClearedWereSent ==
    ASSUME TypeOK, AppsInv
    PROVE  NoAppForgotten
<1>. SUFFICES ASSUME NEW s \in Session,
                     NEW a \in DOMAIN arrays[s] \ {current[s]},
                     NEW i \in DOMAIN arrays[s][a],
                     arrays[s][a][i] \in LogoutApps
              PROVE  arrays[s][a][i] \in sent[s]
  BY DEF NoAppForgotten
<1>1. arrays[s] \in Seq(Seq(Service))
  BY DEF TypeOK
<1>2. arrays[s][a] \in Seq(Service)
  BY <1>1
<1>. QED
  BY <1>2 DEF AppsInv, ClearedOk, SentUpTo

(* Single logout forgets no application as long as no two logouts of a     *)
(* session overlap: the loop of a logout sees what logins push while it    *)
(* runs, and the array it clears is the one it went through to the end.    *)
(* (Of two that overlap, the one that ends first clears the array of both, *)
(* and the second one to end clears the array that logins began meanwhile, *)
(* which nobody went through.)                                             *)
THEOREM NoAppIsForgotten == Spec /\ []LogoutsApart => []NoAppForgotten
<1>1. Init => IInv /\ AppsInv
  BY InitType, InitSafe, AppsInvInit DEF IInv
<1>2. (IInv /\ AppsInv) /\ LogoutsApart /\ LogoutsApart' /\ [Next]_vars
        => (IInv /\ AppsInv)'
  BY StepInv, AppsInvStep DEF IInv
<1>3. IInv /\ AppsInv => NoAppForgotten
  BY ClearedWereSent DEF IInv
<1>. QED
  BY <1>1, <1>2, <1>3, PTL DEF Spec

-----------------------------------------------------------------------------
(* One logout of a session *)

LEMMA LogoutBound ==
    ASSUME scenario \in DOMAIN Scenarios
    PROVE  MaxLogouts \in Nat
<1>1. Scenarios[scenario] \in Range(Scenarios)
  BY DEF Range
<1>. QED
  BY <1>1, BoundsAssumption DEF MaxLogouts

(* A request that is no logout, or was one.                                *)
LEMMA CountedKept ==
    ASSUME LogoutsCounted, NEW k \in Slot, OthersKept(k),
           \/ task'[k].kind # "logout" /\ task'[k].pc # "slo"
           \/ /\ task'[k].kind = "logout" /\ task'[k].pc = "slo"
              /\ task[k].kind = "logout" /\ task'[k].session = task[k].session,
           UNCHANGED <<scenario, logouts>>
    PROVE  LogoutsCounted'
<1>1. \A l \in Slot, s \in Session : LoggingOut(l, s)' => LoggingOut(l, s)
  BY DEF LoggingOut, OthersKept
<1>2. LogoutKinds'
  BY DEF LogoutsCounted, LogoutKinds, OthersKept
<1>3. LogoutsApart => LogoutsApart'
  BY <1>1 DEF LogoutsApart
<1>. QED
  BY <1>1, <1>2, <1>3 DEF LogoutsCounted, MaxLogouts

LEMMA CountedStep ==
    ASSUME TypeOK, Shape, LogoutsCounted, [Next]_vars
    PROVE  LogoutsCounted'
<1>1. ASSUME NEW k \in Slot, NEW s \in Session, Logout(k, s)
      PROVE  LogoutsCounted'
  <2>1. MaxLogouts <= 1 => logouts[s] = 0
    BY <1>1, LogoutBound DEF Logout, TypeOK, LogoutsCounted
  <2>2. MaxLogouts <= 1 => \A l \in Slot : ~LoggingOut(l, s)
    BY <2>1 DEF LogoutsCounted
  <2>3. /\ logouts'[s] # 0
        /\ \A x \in Session : x # s => logouts'[x] = logouts[x]
        /\ UNCHANGED scenario
    BY <1>1 DEF Logout, TypeOK
  <2>4. OthersKept(k)
    BY <1>1 DEF Logout, Notify, End, OthersKept, TypeOK
  <2>5. \/ /\ task'[k].kind = "logout" /\ task'[k].pc = "slo"
           /\ task'[k].session = s
        \/ task'[k].kind # "logout" /\ task'[k].pc # "slo"
    BY <1>1, NotifyTask DEF Logout
  <2>6. \A l \in Slot, x \in Session :
          LoggingOut(l, x)' => LoggingOut(l, x) \/ (l = k /\ x = s)
    BY <2>4, <2>5 DEF LoggingOut, OthersKept
  <2>7. LogoutKinds'
    BY <2>4, <2>5 DEF LogoutsCounted, LogoutKinds, OthersKept
  <2>8. MaxLogouts <= 1 => LogoutsApart'
    BY <2>2, <2>6 DEF LogoutsCounted, LogoutsApart
  <2>9. \A l \in Slot, x \in Session : LoggingOut(l, x)' => logouts'[x] # 0
    BY <2>3, <2>6 DEF LogoutsCounted
  <2>. QED
    BY <2>3, <2>7, <2>8, <2>9 DEF LogoutsCounted, MaxLogouts
<1>2. ASSUME NEW k \in Slot, LogoutSent(k)
      PROVE  LogoutsCounted'
  <2>1. task[k].kind = "logout"
    BY SMTT(30), <1>2 DEF LogoutSent, LogoutsCounted, LogoutKinds
  <2>2. OthersKept(k) /\ UNCHANGED <<scenario, logouts>>
    BY <1>2 DEF LogoutSent, Notify, End, OthersKept, TypeOK
  <2>3. \/ /\ task'[k].kind = "logout" /\ task'[k].pc = "slo"
           /\ task'[k].session = task[k].session
        \/ task'[k].kind # "logout" /\ task'[k].pc # "slo"
    BY <1>2, NotifyTask DEF LogoutSent
  <2>. QED
    BY <2>1, <2>2, <2>3, CountedKept
<1>3. ASSUME NEW k \in Slot, LoginStored(k)
      PROVE  LogoutsCounted'
  <2>1. /\ OthersKept(k) /\ UNCHANGED <<scenario, logouts>>
        /\ task'[k].kind # "logout" /\ task'[k].pc # "slo"
    BY <1>3 DEF LoginStored, End, OthersKept, TypeOK, Idle
  <2>. QED
    BY <2>1, CountedKept
<1>4. ASSUME NEW k \in Slot, BeginsOther(k) \/ GoesOn(k)
      PROVE  LogoutsCounted'
  BY <1>4, OthersStep, CountedKept DEF LogoutsCounted
<1>5. CASE Restart
  <2>1. /\ UNCHANGED <<scenario, logouts>>
        /\ \A k \in Slot : task'[k].kind # "logout" /\ task'[k].pc # "slo"
    BY <1>5 DEF Restart, Idle
  <2>. QED
    BY <2>1 DEF LogoutsCounted, LogoutKinds, LoggingOut, LogoutsApart
<1>6. CASE Tick \/ UNCHANGED vars
  <2>1. UNCHANGED <<scenario, task, logouts>>
    BY <1>6 DEF Tick, vars
  <2>. QED
    BY <2>1 DEF LogoutsCounted, LogoutKinds, LoggingOut, LogoutsApart, MaxLogouts
<1>. QED
  BY <1>1, <1>2, <1>3, <1>4, <1>5, <1>6
  DEF Next, Begin, Continue, BeginsOther, GoesOn

LEMMA ScenarioKept ==
    ASSUME [Next]_vars
    PROVE  UNCHANGED scenario
<1>1. ASSUME NEW k \in Slot, Begin(k) PROVE UNCHANGED scenario
  BY ZenonT(60), <1>1 DEF Begin, Login, Logout, Validate, Proxy
<1>2. ASSUME NEW k \in Slot, Continue(k) PROVE UNCHANGED scenario
  BY <1>2 DEF Continue, LoginStored, LogoutSent, TicketNotFound, TicketFound,
     TicketDeleted, SessionRead, SessionReadForPgt, PgtStored, IouStored,
     CallbackDelivered, CallbackFails, PgtRemoved, IouRemoved, ProxyRefused,
     ProxyGranted, ProxyStored
<1>3. ASSUME NEW k \in Slot, StoreFails(k) PROVE UNCHANGED scenario
  BY <1>3 DEF StoreFails
<1>4. Restart \/ Tick \/ UNCHANGED vars => UNCHANGED scenario
  BY DEF Restart, Tick, vars
<1>. QED
  BY <1>1, <1>2, <1>3, <1>4 DEF Next

LEMMA CountedInit == Init => LogoutsCounted
BY DEF Init, LogoutsCounted, LogoutKinds, LogoutsApart, LoggingOut, Idle

(* The logouts of a session that is logged out at most once do not         *)
(* overlap, so that no application of it is forgotten: what the runs with  *)
(* one logout of a session show.                                           *)
THEOREM OneLogoutForgetsNothing ==
    Spec => []((MaxLogouts <= 1) => NoAppForgotten)
<1>. DEFINE One == MaxLogouts <= 1
<1>1. Init => IInv /\ LogoutsCounted
  BY InitType, InitSafe, CountedInit DEF IInv
<1>2. (IInv /\ LogoutsCounted) /\ [Next]_vars => (IInv /\ LogoutsCounted)'
  BY StepInv, CountedStep DEF IInv
<1>3. LogoutsCounted => (One => LogoutsApart)
  BY DEF LogoutsCounted
<1>4. [Next]_vars => (One <=> One')
  <2>1. [Next]_vars => UNCHANGED scenario
    BY ScenarioKept
  <2>. QED
    BY <2>1 DEF MaxLogouts
<1>5. Spec /\ []LogoutsApart => []NoAppForgotten
  BY NoAppIsForgotten
<1>. HIDE DEF One
<1>6. Spec => [](One => NoAppForgotten)
  BY <1>1, <1>2, <1>3, <1>4, <1>5, PTL DEF Spec
<1>. QED
  BY <1>6 DEF One

=============================================================================
