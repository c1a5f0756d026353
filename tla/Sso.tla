--------------------------------- MODULE Sso ---------------------------------
(***************************************************************************)
(* Single sign-on: the portals that open and close sessions, the handlers  *)
(* that grant access to applications, and the session store between them.  *)
(***************************************************************************)
EXTENDS Handler, Portal

ASSUME TimesAssumption ==
    /\ {Timeout, MemTime, Latency, Internal, MaxClock} \subseteq Nat \ {0}
    /\ {TimeoutActivity, RefreshDelay} \subseteq Nat

ASSUME NamesAssumption ==
    /\ Handlers \cap Portals = {}
    /\ NoId \notin Id
    /\ NoRef \notin Obj
    /\ NoSession \notin Session
    /\ Waiting \notin Session
    /\ NoSession # Waiting

ASSUME SwitchesAssumption ==
    /\ UpdateInserts \in BOOLEAN
    /\ Faulty \in BOOLEAN
    /\ Crashing \subseteq Proc
    /\ Requests \subseteq {"menu", "logout", "password"}

vars == <<accessorVars, cookie, granted, born, loggedOut>>

Init ==
    /\ AccessorInit
    /\ cookie = {}
    /\ granted = [i \in Id |-> 0]
    /\ born = [i \in Id |-> 0]
    /\ loggedOut = [i \in Id |-> 0]

StoreNext ==
    \/ \E t \in Task : BackendGet(t) \/ BackendGetFails(t)
    \/ \E w \in writes : BackendUpdate(w)

ProcessNext ==
    \/ \E p \in Proc, i \in Id : Evict(p, i)
    \/ \E p \in Proc : Crash(p)

Next ==
    \/ HandlerNext /\ UNCHANGED <<born, loggedOut>>
    \/ PortalNext /\ UNCHANGED granted
    \/ StoreNext /\ UNCHANGED <<cookie, granted, born, loggedOut>>
    \/ ProcessNext /\ UNCHANGED <<cookie, granted, born, loggedOut>>
    \/ Tick /\ UNCHANGED <<cookie, granted, born, loggedOut>>

Spec == Init /\ [][Next]_vars

(***************************************************************************)
(* Fairness: the store answers every call, with a result or an error, and  *)
(* a process runs the callbacks that are ready, the hooks and the password *)
(* module included.  Nothing obliges a browser, a broker or the clock.     *)
(***************************************************************************)
StoreAnswers(t) ==
    /\ \/ BackendGet(t)
       \/ BackendGetFails(t)
       \/ \E w \in writes : w.task = t /\ BackendUpdate(w)
    /\ UNCHANGED <<cookie, granted, born, loggedOut>>

HandlerResumes(t) ==
    /\ ServeFromStore(t) \/ NoSessionInStore(t) \/ RefreshNotReady(t)
    /\ UNCHANGED <<born, loggedOut>>

PortalResumes(t) ==
    /\ \/ GotSession(t) \/ DeleteFromMemory(t) \/ DeleteFromStore(t)
       \/ GotForDelete(t) \/ NothingToDelete(t)
       \/ PasswordChanged(t) \/ PasswordDone(t)
       \/ \E w \in writes : w.task = t /\ (Created(w) \/ Opened(w) \/ Saved(w))
    /\ UNCHANGED granted

Fairness ==
    /\ \A t \in Task : WF_vars(StoreAnswers(t))
    /\ \A t \in Handlers \X Slots : WF_vars(HandlerResumes(t))
    /\ \A t \in Portals \X Slots : WF_vars(PortalResumes(t))

FairSpec == Spec /\ Fairness

-----------------------------------------------------------------------------

TypeOK ==
    /\ AccessorTypeOK
    /\ cookie \in SUBSET Id
    /\ granted \in [Id -> Time]
    /\ born \in [Id -> Time]
    /\ loggedOut \in [Id -> Time]

(***************************************************************************)
(* A session reaches nobody else: the object that a cache or a request     *)
(* holds for an id is the session of that id.  retrieveSession() and the   *)
(* accessor fill their caches after an await, when other requests have     *)
(* been served.                                                            *)
(***************************************************************************)
OwnSession ==
    /\ \A p \in Proc, i \in Id :
         mem[p][i].obj # NoRef => heap[p][mem[p][i].obj].id = i
    /\ \A p \in Proc :
         last[p].obj # NoRef => heap[p][last[p].obj].id = last[p].id
    /\ \A t \in Task :
         /\ task[t].ref # NoRef => heap[t[1]][task[t].ref].id = task[t].id
         /\ task[t].ans \in Session => task[t].ans.id = task[t].id

(***************************************************************************)
(* The browser gets the cookie of a session when the store has it, with    *)
(* the attributes of the user: POST / awaits both updates before it        *)
(* answers.                                                                *)
(***************************************************************************)
CookieImpliesStored ==
    \A i \in cookie : store[i] # NoSession /\ store[i].data # "new"

(***************************************************************************)
(* When a logout is answered, the store has the session marked as expired  *)
(* and keeps it so.                                                        *)
(***************************************************************************)
LogoutTakesEffect ==
    \A i \in Id : loggedOut[i] # 0 => store[i].utime = 0

(***************************************************************************)
(* Every request is answered, whatever fails and whatever reload(),        *)
(* restarts and the other requests do meanwhile: each branch of            *)
(* retrieveSession(), of the middleware and of the routes settles.         *)
(***************************************************************************)
RequestsAnswered ==
    \A t \in Task : (task[t].pc # "idle") ~> (task[t].pc = "idle")

(***************************************************************************)
(* The handlers keep what the user was promised.  A session is granted     *)
(* access no later than its timeout, plus what the one-entry cache or a    *)
(* slow store adds; and after its logout no later than an answer of the    *)
(* store that is on its way (Latency), the memory it fills (MemTime) and   *)
(* the one-entry cache (Internal) keep it.                                 *)
(***************************************************************************)
Slack == IF Internal - 1 > Latency THEN Internal - 1 ELSE Latency

Promise ==
    INSTANCE SsoPromise WITH Lifetime <- Timeout + Slack,
                             Window <- Latency + MemTime + Internal - 2

PromiseKept == Promise!Spec

=============================================================================
