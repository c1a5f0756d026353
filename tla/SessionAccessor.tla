--------------------------- MODULE SessionAccessor ---------------------------
(***************************************************************************)
(* The session accessor of packages/session and what its users share: the  *)
(* session store, and in every process (handler or portal) the Session     *)
(* object with its in-memory cache.  A process is a Node.js event loop: it *)
(* runs one callback at a time and every callback is one action.  What     *)
(* makes the component hard is what happens between callbacks:             *)
(*                                                                         *)
(*   - get() and update() answer later, in any order;                      *)
(*   - the cache keeps references, not copies: two requests of a process   *)
(*     that found the same cache entry hold the same JavaScript object,    *)
(*     and one sees what the other assigns.  heap[p][o] is the object o of *)
(*     process p; caches, requests and pending updates hold references;    *)
(*   - update() writes the whole record, as it was when it was called.     *)
(*                                                                         *)
(* The module has the state and the steps of the accessor; the modules     *)
(* Handler and Portal have the callbacks that call it.                     *)
(***************************************************************************)
EXTENDS Integers, FiniteSets

CONSTANTS
    Handlers,        \* the handler processes
    Portals,         \* the portal processes
    Slots,           \* how many requests a process serves at a time
    Id,              \* session ids
    Obj,             \* references to session objects, in each process
    Timeout,         \* conf.timeout: lifetime of a session
    MemTime,         \* maxCacheTime of the in-memory cache
    Latency,         \* environment: longest time a get() of the store takes
    MaxClock,        \* bound on the clock
    UpdateInserts,   \* does the backend's update() create a missing row?
    Faulty,          \* may the store fail?
    Crashing,        \* the processes that may be restarted
    NoId, NoRef, NoSession, Waiting

Proc == Handlers \cup Portals

Task == Proc \X Slots

(***************************************************************************)
(* The portal marks a session as expired by setting _utime to 0, which     *)
(* works because the current time is larger than the timeout: the clock    *)
(* starts there.                                                           *)
(***************************************************************************)
Start == Timeout + 1

Time == Nat

(***************************************************************************)
(* data abstracts the attributes set by the user database: "new" before    *)
(* setSessionInfo, then "reset" when the password must be changed          *)
(* (_pwdMustChange) and "full" otherwise.                                  *)
(***************************************************************************)
Session ==
    [id : Id, utime : Time, lastSeen : Time, data : {"new", "reset", "full"}]

(***************************************************************************)
(* A task is one request being served.  pc says what it waits for: an      *)
(* answer of the store to a get ("get", or "delete" for the one made by    *)
(* deleteSession), a hook or a module of the portal ("loaded"), the answer *)
(* to an update ("create", "info", "save").  cur is FALSE when the handler *)
(* replaced its accessor after the task called get() on it.                *)
(***************************************************************************)
TaskState ==
    [kind : {"none", "access", "menu", "login", "logout", "password"},
     pc : {"idle", "get", "loaded", "delete", "create", "info", "save"},
     id : Id \cup {NoId}, ref : Obj \cup {NoRef}, since : Time,
     ans : Session \cup {NoSession, Waiting}, cur : BOOLEAN]

Idle ==
    [kind |-> "none", pc |-> "idle", id |-> NoId, ref |-> NoRef, since |-> 0,
     ans |-> NoSession, cur |-> TRUE]

(* A call of update() that has not answered; data is the record as it was  *)
(* serialised by the call, obj the object it was made from (NoRef when the *)
(* process that called it is gone).                                        *)
Write ==
    [task : Task, obj : Obj \cup {NoRef}, data : Session, applied : BOOLEAN,
     cur : BOOLEAN]

NoEntry == [obj |-> NoRef, until |-> 0]
NoLast == [id |-> NoId, obj |-> NoRef, time |-> 0]

VARIABLES
    clock,      \* the time, in seconds
    store,      \* the backend: the row of each session
    heap,       \* the session objects of each process
    mem,        \* the in-memory cache of each process
    last,       \* lastSessionId, lastSessionData, lastSessionTime (handlers)
    ready,      \* has the accessor of each process loaded its backend?
    task,       \* the requests being served
    writes,     \* the updates that have not answered
    cookie      \* the sessions whose cookie a browser holds

accessorVars == <<clock, store, heap, mem, last, ready, task, writes>>

AccessorTypeOK ==
    /\ clock \in Time
    /\ store \in [Id -> Session \cup {NoSession}]
    /\ heap \in [Proc -> [Obj -> Session \cup {NoSession}]]
    /\ mem \in [Proc -> [Id -> [obj : Obj \cup {NoRef}, until : Time]]]
    /\ last \in [Proc -> [id : Id \cup {NoId}, obj : Obj \cup {NoRef},
                          time : Time]]
    /\ ready \in [Proc -> BOOLEAN]
    /\ task \in [Task -> TaskState]
    /\ writes \in SUBSET Write

NoCells == [o \in Obj |-> NoSession]
EmptyCache == [i \in Id |-> NoEntry]

AccessorInit ==
    /\ clock = Start
    /\ store = [i \in Id |-> NoSession]
    /\ heap = [p \in Proc |-> NoCells]
    /\ mem = [p \in Proc |-> EmptyCache]
    /\ last = [p \in Proc |-> NoLast]
    /\ ready = [p \in Proc |-> TRUE]
    /\ task = [t \in Task |-> Idle]
    /\ writes = {}

-----------------------------------------------------------------------------
(* References *)

Held(p) ==
    {mem[p][i].obj : i \in Id} \cup {last[p].obj}
        \cup {task[<<p, s>>].ref : s \in Slots}
        \cup {w.obj : w \in {v \in writes : v.task[1] = p}}

(* A new object: which unused reference it gets makes no difference.       *)
CanAllocate(p) == Obj \ Held(p) # {}
NewObj(p) == CHOOSE o \in Obj : o \notin Held(p)

(* The objects of process p after a step that makes them cells: those that *)
(* nothing references any more are collected.                              *)
KeepHeld(p, cells) ==
    [o \in Obj |-> IF o \in Held(p)' THEN cells[o] ELSE NoSession]

Collect(p, cells) == heap' = [heap EXCEPT ![p] = KeepHeld(p, cells)]

-----------------------------------------------------------------------------
(* Session.get *)

Cached(p, i) == mem[p][i].obj # NoRef

CachePut(cache, i, o) ==
    [cache EXCEPT ![i] = [obj |-> o, until |-> clock + MemTime]]

(* Mutant of CacheDrop: the empty value of the other cache. *)
CacheDropWrongEmpty(cache, i) == [cache EXCEPT ![i] = NoLast]

CacheDrop(cache, i) == [cache EXCEPT ![i] = NoEntry]

(* The state of a task that called the backend's get.                      *)
Getting(k, where, i) ==
    [Idle EXCEPT !.kind = k, !.pc = where, !.id = i, !.since = clock,
                 !.ans = Waiting]

InGet(t) == task[t].pc \in {"get", "delete"}

(* The backend reads the row of a session: its answer is on its way.       *)
BackendGet(t) ==
    /\ InGet(t)
    /\ task[t].ans = Waiting
    /\ task' = [task EXCEPT ![t].ans = store[task[t].id]]
    /\ UNCHANGED <<clock, store, heap, mem, last, ready, writes>>

(* The backend rejects a get.                                              *)
BackendGetFails(t) ==
    /\ Faulty
    /\ InGet(t)
    /\ task[t].ans = Waiting
    /\ task' = [task EXCEPT ![t].ans = NoSession]
    /\ UNCHANGED <<clock, store, heap, mem, last, ready, writes>>

Answered(t) == InGet(t) /\ task[t].ans # Waiting

-----------------------------------------------------------------------------
(* Session.update *)

UpdateCall(t, o, s) ==
    [task |-> t, obj |-> o, data |-> s, applied |-> FALSE, cur |-> TRUE]

(* The store after it wrote the record s.  The file and Redis backends set *)
(* the value; the SQL ones run an UPDATE, which changes nothing when the   *)
(* row is missing.                                                         *)
FileWrite(s) == [store EXCEPT ![s.id] = s]
SqlWrite(s) == IF store[s.id] = NoSession THEN store ELSE FileWrite(s)

BackendUpdate(w) ==
    /\ ~w.applied
    /\ store' = IF UpdateInserts THEN FileWrite(w.data) ELSE SqlWrite(w.data)
    /\ writes' = IF w.obj = NoRef
                 THEN writes \ {w}
                 ELSE (writes \ {w}) \cup {[w EXCEPT !.applied = TRUE]}
    /\ UNCHANGED <<clock, heap, mem, last, ready, task>>

-----------------------------------------------------------------------------
(* What happens to every process *)

(* LimitedCache holds 100 sessions: entries of other sessions push one out. *)
Evict(p, i) ==
    /\ mem[p][i].obj # NoRef
    /\ mem' = [mem EXCEPT ![p] = CacheDrop(@, i)]
    /\ UNCHANGED <<clock, store, last, ready, task, writes>>
    /\ Collect(p, heap[p])

(* The process dies and is started again: its memory and its requests are  *)
(* lost, and each of its updates reaches the store or not.                 *)
Restart(p) ==
    /\ mem' = [mem EXCEPT ![p] = EmptyCache]
    /\ last' = [last EXCEPT ![p] = NoLast]
    /\ ready' = [ready EXCEPT ![p] = TRUE]
    /\ heap' = [heap EXCEPT ![p] = NoCells]
    /\ task' = [t \in Task |-> IF t[1] = p THEN Idle ELSE task[t]]
    /\ \E sent \in SUBSET {w \in writes : w.task[1] = p /\ ~w.applied} :
         writes' = {w \in writes : w.task[1] # p}
                     \cup {[w EXCEPT !.obj = NoRef] : w \in sent}
    /\ UNCHANGED <<clock, store>>

Crash(p) == p \in Crashing /\ Restart(p)

(* Time passes.  No get of the store takes longer than Latency; a cache    *)
(* entry is gone when its time has come.                                   *)
Tick ==
    /\ clock < MaxClock
    /\ \A t \in Task : InGet(t) => clock < task[t].since + Latency
    /\ clock' = clock + 1
    /\ mem' = [p \in Proc |-> [i \in Id |->
                 IF mem[p][i].until <= clock' THEN NoEntry ELSE mem[p][i]]]
    /\ UNCHANGED <<store, last, ready, task, writes>>
    /\ heap' = [p \in Proc |-> KeepHeld(p, heap[p])]

=============================================================================
