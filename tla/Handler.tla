------------------------------- MODULE Handler -------------------------------
(***************************************************************************)
(* The handler: the access control function run() of                       *)
(* packages/handler/src/handlerMain.ts, with the session retrieval that it *)
(* rests on, localUnlog() and the part of reload() that replaces the       *)
(* session accessor.                                                       *)
(*                                                                         *)
(* The handler has a cache of one session (last) above the accessor's, and *)
(* writes _lastSeen back to the store when timeoutActivity is configured.  *)
(***************************************************************************)
EXTENDS SessionAccessor

CONSTANTS
    Internal,          \* handlerInternalCache: life of the one-entry cache
    TimeoutActivity,   \* conf.timeoutActivity, 0 when it is not set
    RefreshDelay       \* the 60 s between two writes of _lastSeen

VARIABLES
    granted     \* history: when access was last granted to each session

-----------------------------------------------------------------------------
(* retrieveSession *)

Inactive(s, now) ==
    /\ TimeoutActivity # 0
    /\ s.lastSeen # 0
    /\ now - s.lastSeen > TimeoutActivity

(* Mutant of Expired: only the inactivity is looked at. *)
ExpiredByInactivityOnly(s, now) == Inactive(s, now)

Expired(s, now) == now - s.utime > Timeout \/ Inactive(s, now)

RefreshDue(s, now) ==
    /\ TimeoutActivity # 0
    /\ s.lastSeen # 0
    /\ now - s.lastSeen > RefreshDelay

(* Mutant of InInternalCache: the one-entry cache never expires. *)
InInternalCacheForever(h, i) == last[h].id = i /\ last[h].obj # NoRef

InInternalCache(h, i) ==
    /\ last[h].id = i
    /\ last[h].obj # NoRef
    /\ clock - last[h].time < Internal

(* The end of run(), once a session is there: the rule of the virtual host *)
(* accepts it, refuses it (forbidden() then calls localUnlog()), or cannot *)
(* be evaluated (503).  cells and cache are the objects and the cache of h *)
(* at that point, entry is its one-entry cache.                            *)
Decide(h, entry, cells, cache) ==
    LET i == cells[entry.obj].id
    IN  \/ /\ granted' = [granted EXCEPT ![i] = clock]
           /\ last' = [last EXCEPT ![h] = entry]
           /\ mem' = [mem EXCEPT ![h] = cache]
        \/ /\ last' = [last EXCEPT ![h] = NoLast]
           /\ mem' = [mem EXCEPT ![h] = CacheDrop(cache, i)]
           /\ UNCHANGED granted
        \/ /\ last' = [last EXCEPT ![h] = entry]
           /\ mem' = [mem EXCEPT ![h] = cache]
           /\ UNCHANGED granted

(* Mutant of Serve: the id that another request left in the one-entry      *)
(* cache while this one waited is kept.                                    *)
ServeKeepingId(t, i, o, now, cells, cache) ==
    LET kept == IF last[t[1]].id = NoId THEN i ELSE last[t[1]].id
    IN  /\ ~Expired(cells[o], now)
        /\ UNCHANGED writes
        /\ Decide(t[1], [id |-> kept, obj |-> o, time |-> now], cells, cache)
        /\ Collect(t[1], cells)

(* The session o was found, in the cache or in the store: it is refused    *)
(* when it expired at now, the time retrieveSession() was called; else     *)
(* _lastSeen is updated when it is old, with an update() nobody waits for. *)
Serve(t, i, o, now, cells, cache) ==
    LET h == t[1]
        due == RefreshDue(cells[o], now)
        seen == IF due THEN [cells EXCEPT ![o].lastSeen = now] ELSE cells
    IN  /\ ~Expired(cells[o], now)
        /\ due => ready[h]
        /\ writes' = IF due THEN writes \cup {UpdateCall(t, o, seen[o])}
                            ELSE writes
        /\ Decide(h, [id |-> i, obj |-> o, time |-> now], seen, cache)
        /\ Collect(h, seen)

(* A request whose session is in the one-entry cache: no test of its age.  *)
ServeFromInternalCache(t, i) ==
    LET h == t[1]
    IN  /\ task[t] = Idle
        /\ InInternalCache(h, i)
        /\ Decide(h, last[h], heap[h], mem[h])
        /\ UNCHANGED <<clock, store, ready, task, writes, cookie>>
        /\ Collect(h, heap[h])

(* A request whose session is in the accessor's memory.                    *)
ServeFromMemory(t, i) ==
    LET h == t[1]
        o == mem[h][i].obj
    IN  /\ task[t] = Idle
        /\ ~InInternalCache(h, i)
        /\ ready[h]
        /\ Cached(h, i)
        /\ UNCHANGED <<clock, store, ready, task, cookie>>
        /\ \/ Serve(t, i, o, clock, heap[h], mem[h])
           \/ /\ Expired(heap[h][o], clock)
              /\ last' = [last EXCEPT ![h] = NoLast]
              /\ UNCHANGED <<mem, writes, granted>>
              /\ Collect(h, heap[h])

(* A request while the accessor that reload() made has no backend yet:     *)
(* get() rejects and the browser goes to the portal.                       *)
NotReady(h, i) ==
    /\ ~InInternalCache(h, i)
    /\ ~ready[h]
    /\ last' = [last EXCEPT ![h] = NoLast]
    /\ UNCHANGED <<clock, store, mem, ready, task, writes, cookie, granted>>
    /\ Collect(h, heap[h])

(* A request whose session is in no cache: the store is asked.             *)
AskStore(t, i) ==
    LET h == t[1]
    IN  /\ task[t] = Idle
        /\ ~InInternalCache(h, i)
        /\ ready[h]
        /\ ~Cached(h, i)
        /\ last' = [last EXCEPT ![h] = NoLast]
        /\ task' = [task EXCEPT ![t] = Getting("access", "get", i)]
        /\ UNCHANGED <<clock, store, mem, ready, writes, cookie, granted>>
        /\ Collect(h, heap[h])

(* The store answered: the accessor caches the session, then the request   *)
(* goes on.  An accessor that reload() replaced caches it to no avail.     *)
ServeFromStore(t) ==
    LET h == t[1]
        i == task[t].id
        now == task[t].since
        o == NewObj(h)
        cells == [heap[h] EXCEPT ![o] = task[t].ans]
        cache == IF task[t].cur THEN CachePut(mem[h], i, o) ELSE mem[h]
    IN  /\ h \in Handlers
        /\ Answered(t)
        /\ task[t].ans # NoSession
        /\ CanAllocate(h)
        /\ task' = [task EXCEPT ![t] = Idle]
        /\ UNCHANGED <<clock, store, ready, cookie>>
        /\ \/ Serve(t, i, o, now, cells, cache)
           \/ /\ Expired(cells[o], now)
              /\ mem' = [mem EXCEPT ![h] = cache]
              /\ UNCHANGED <<last, writes, granted>>
              /\ Collect(h, cells)

(* Mutant of NoSessionInStore: the store is asked again, for ever. *)
NoSessionInStoreRetry(t) ==
    /\ t[1] \in Handlers
    /\ Answered(t)
    /\ task[t].ans = NoSession
    /\ task' = [task EXCEPT ![t].ans = Waiting]
    /\ UNCHANGED <<clock, store, heap, mem, last, ready, writes, cookie, granted>>

(* The session is not in the store, or the store failed: to the portal.    *)
NoSessionInStore(t) ==
    /\ t[1] \in Handlers
    /\ Answered(t)
    /\ task[t].ans = NoSession
    /\ task' = [task EXCEPT ![t] = Idle]
    /\ UNCHANGED <<clock, store, heap, mem, last, ready, writes, cookie, granted>>

-----------------------------------------------------------------------------
(* The update of _lastSeen *)

(* It answers: the accessor caches the object.                             *)
Refreshed(w) ==
    LET h == w.task[1]
    IN  /\ h \in Handlers
        /\ w.applied
        /\ writes' = writes \ {w}
        /\ mem' = IF w.cur
                  THEN [mem EXCEPT ![h] = CachePut(@, w.data.id, w.obj)]
                  ELSE mem
        /\ UNCHANGED <<clock, store, last, ready, task, cookie, granted>>
        /\ Collect(h, heap[h])

(* It fails: nobody handles the rejection and Node.js ends the process.    *)
RefreshFails(w) ==
    /\ Faulty
    /\ w.task[1] \in Handlers
    /\ w.obj # NoRef
    /\ Restart(w.task[1])
    /\ UNCHANGED <<cookie, granted>>

(* The same when the session came from an accessor that was replaced by    *)
(* one that has no backend yet: update() rejects.                          *)
RefreshNotReady(t) ==
    /\ t[1] \in Handlers
    /\ Answered(t)
    /\ task[t].ans # NoSession
    /\ ~Expired(task[t].ans, task[t].since)
    /\ RefreshDue(task[t].ans, task[t].since)
    /\ ~ready[t[1]]
    /\ Restart(t[1])
    /\ UNCHANGED <<cookie, granted>>

-----------------------------------------------------------------------------
(* localUnlog, skip and reload *)

(* An "unlog" or "delSession" message for session i.                       *)
LocalUnlog(h, i) ==
    /\ last' = [last EXCEPT ![h] = NoLast]
    /\ mem' = [mem EXCEPT ![h] = CacheDrop(@, i)]
    /\ UNCHANGED <<clock, store, ready, task, writes, cookie, granted>>
    /\ Collect(h, heap[h])

(* A request for a location whose rule is "skip".                          *)
Skip(h) ==
    /\ last' = [last EXCEPT ![h] = NoLast]
    /\ UNCHANGED <<clock, store, mem, ready, task, writes, cookie, granted>>
    /\ Collect(h, heap[h])

(* reload() makes a new accessor, which loads its backend; what was called *)
(* on the old one ends on it, and the one-entry cache stays.               *)
Reload(h) ==
    /\ ready' = [ready EXCEPT ![h] = FALSE]
    /\ mem' = [mem EXCEPT ![h] = EmptyCache]
    /\ task' = [t \in Task |->
                  IF t[1] = h /\ InGet(t) THEN [task[t] EXCEPT !.cur = FALSE]
                                          ELSE task[t]]
    /\ writes' = {IF w.task[1] = h THEN [w EXCEPT !.cur = FALSE] ELSE w
                    : w \in writes}
    /\ UNCHANGED <<clock, store, last, cookie, granted>>
    /\ Collect(h, heap[h])

BackendReady(h) ==
    /\ ~ready[h]
    /\ ready' = [ready EXCEPT ![h] = TRUE]
    /\ UNCHANGED <<clock, store, heap, mem, last, task, writes, cookie, granted>>

HandlerNext ==
    \/ \E h \in Handlers, s \in Slots, i \in cookie :
         \/ ServeFromInternalCache(<<h, s>>, i)
         \/ ServeFromMemory(<<h, s>>, i)
         \/ AskStore(<<h, s>>, i)
    \/ \E h \in Handlers, s \in Slots :
         \/ ServeFromStore(<<h, s>>)
         \/ NoSessionInStore(<<h, s>>)
         \/ RefreshNotReady(<<h, s>>)
    \/ \E h \in Handlers, i \in cookie : NotReady(h, i)
    \/ \E w \in writes : Refreshed(w) \/ RefreshFails(w)
    \/ \E h \in Handlers, i \in Id : LocalUnlog(h, i)
    \/ \E h \in Handlers : Skip(h) \/ Reload(h) \/ BackendReady(h)

=============================================================================
