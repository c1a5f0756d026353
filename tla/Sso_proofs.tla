----------------------------- MODULE Sso_proofs -----------------------------
(***************************************************************************)
(* Proofs about Sso, for every set of processes, sessions and requests and *)
(* every value of the delays: type correctness, OwnSession,                *)
(* CookieImpliesStored, LogoutTakesEffect and the refinement of SsoPromise *)
(* (PromiseKept).                                                          *)
(*                                                                         *)
(* TypeOK and OwnSession are not inductive.  A cache or a request that     *)
(* holds a reference must hold one to a session, and to the session of its *)
(* id; this is kept because an object that is referenced is never          *)
(* collected or reused, and because a step that changes an object leaves   *)
(* its id.  This is IInv, the first part of the module.                    *)
(*                                                                         *)
(* The second part looks at the module from the sessions: what a step may  *)
(* do to records, requests, updates and caches (Effect and the effects of  *)
(* a login, a write of the store and the clock), one lemma for each action *)
(* of the processes.  The other invariants are about those effects only:   *)
(*   LifeInv    every record is one of a session that was created, with    *)
(*              the time of its creation unless a logout marked it;        *)
(*   OpenInv    until its cookie is given, a session is its login's alone, *)
(*              and the store has it filled before;                        *)
(*   ExpireInv  after the cookie every update that is on its way marks the *)
(*              session as expired (where only logins and logouts write);  *)
(*   WindowInv  after a logout, the caches and the answers on their way    *)
(*              are as old as the logout, or know it.                      *)
(***************************************************************************)
EXTENDS Sso, TLAPS

(* o is an object of process p, in the heap h, and is session i.           *)
Good(h, p, o, i) == o \in Obj /\ h[p][o] \in Session /\ h[p][o].id = i

StoreOwn == \A i \in Id : store[i] \in Session => store[i].id = i

MemOwn ==
    \A p \in Proc, i \in Id :
      mem[p][i].obj # NoRef => Good(heap, p, mem[p][i].obj, i)

LastOwn ==
    \A p \in Proc :
      last[p].obj # NoRef => Good(heap, p, last[p].obj, last[p].id)

RefOwn ==
    \A t \in Task :
      task[t].ref # NoRef => Good(heap, t[1], task[t].ref, task[t].id)

AnsOwn ==
    \A t \in Task : task[t].ans \in Session => task[t].ans.id = task[t].id

WriteOwn ==
    \A w \in writes :
      w.obj # NoRef => Good(heap, w.task[1], w.obj, w.data.id)

Own == StoreOwn /\ MemOwn /\ LastOwn /\ RefOwn /\ AnsOwn /\ WriteOwn

(* What a request waits for tells what it holds.                           *)
PcOK ==
    /\ \A t \in Task :
         /\ task[t].pc # "idle" => task[t].id \in Id
         /\ task[t].pc \in {"loaded", "create", "info", "save"}
              => task[t].ref # NoRef
    /\ \A w \in writes : w.applied => w.obj # NoRef

IInv == TypeOK /\ Own /\ PcOK


Cells == [Obj -> Session \cup {NoSession}]
Entry == [obj : Obj \cup {NoRef}, until : Time]
Cache == [Id -> Entry]
Last == [id : Id \cup {NoId}, obj : Obj \cup {NoRef}, time : Time]

-----------------------------------------------------------------------------
(***************************************************************************)
(* What a step may do with references and objects.  An object that stays   *)
(* referenced stays the object of its session; a reference that a step     *)
(* stores was there before, or is one to the right session.                *)
(***************************************************************************)
HeapStep ==
    \A p \in Proc, o \in Obj :
      (o \in Held(p) /\ o \in Held(p)' /\ heap[p][o] \in Session)
        => heap'[p][o] \in Session /\ heap'[p][o].id = heap[p][o].id

MemStep ==
    \A p \in Proc, i \in Id :
      \/ mem'[p][i].obj = NoRef
      \/ mem'[p][i].obj = mem[p][i].obj
      \/ Good(heap', p, mem'[p][i].obj, i)

LastStep ==
    \A p \in Proc :
      \/ last'[p].obj = NoRef
      \/ last'[p] = last[p]
      \/ Good(heap', p, last'[p].obj, last'[p].id)

RefStep ==
    \A t \in Task :
      \/ task'[t].ref = NoRef
      \/ task'[t].ref = task[t].ref /\ task'[t].id = task[t].id
      \/ Good(heap', t[1], task'[t].ref, task'[t].id)

WriteStep ==
    \A w \in writes' :
      \/ w.obj = NoRef
      \/ \E v \in writes : v.obj = w.obj /\ v.task = w.task /\ v.data = w.data
      \/ Good(heap', w.task[1], w.obj, w.data.id)

(* What a cache, a request or a pending update references is held.         *)
LEMMA HeldRefs ==
    ASSUME TypeOK
    PROVE  /\ \A p \in Proc, i \in Id : mem[p][i].obj \in Held(p)
           /\ \A p \in Proc : last[p].obj \in Held(p)
           /\ \A t \in Task : task[t].ref \in Held(t[1])
           /\ \A w \in writes : w.obj \in Held(w.task[1])
<1>1. \A t \in Task : t[1] \in Proc /\ t[2] \in Slots /\ t = <<t[1], t[2]>>
  BY DEF Task
<1>. QED
  BY <1>1 DEF Held

(* The same after the step.                                                *)
LEMMA HeldNext ==
    ASSUME TypeOK'
    PROVE  /\ \A p \in Proc, i \in Id : mem'[p][i].obj \in Held(p)'
           /\ \A p \in Proc : last'[p].obj \in Held(p)'
           /\ \A t \in Task : task'[t].ref \in Held(t[1])'
           /\ \A w \in writes' : w.obj \in Held(w.task[1])'
<1>1. \A t \in Task : t[1] \in Proc /\ t[2] \in Slots /\ t = <<t[1], t[2]>>
  BY DEF Task
<1>. QED
  BY <1>1 DEF Held

(* A step made of such changes keeps every reference right.                *)
LEMMA OwnStep ==
    ASSUME TypeOK, TypeOK', Own, StoreOwn', AnsOwn',
           HeapStep, MemStep, LastStep, RefStep, WriteStep
    PROVE  Own'
<1>. USE NamesAssumption
<1>1. /\ \A p \in Proc, i \in Id : mem'[p][i].obj \in Held(p)'
      /\ \A p \in Proc : last'[p].obj \in Held(p)'
      /\ \A t \in Task : task'[t].ref \in Held(t[1])'
      /\ \A w \in writes' : w.obj \in Held(w.task[1])'
  BY HeldNext
<1>2. ASSUME NEW p \in Proc, NEW o, NEW i, Good(heap, p, o, i),
             o \in Held(p), o \in Held(p)'
      PROVE  Good(heap', p, o, i)
  BY <1>2 DEF HeapStep, Good
<1>3. MemOwn'
  <2>. SUFFICES ASSUME NEW p \in Proc, NEW i \in Id, mem'[p][i].obj # NoRef,
                       mem'[p][i].obj = mem[p][i].obj
                PROVE  Good(heap', p, mem'[p][i].obj, i)
    BY DEF MemOwn, MemStep
  <2>. QED
    BY <1>1, <1>2, HeldRefs DEF Own, MemOwn
<1>4. LastOwn'
  <2>. SUFFICES ASSUME NEW p \in Proc, last'[p].obj # NoRef,
                       last'[p] = last[p]
                PROVE  Good(heap', p, last'[p].obj, last'[p].id)
    BY DEF LastOwn, LastStep
  <2>. QED
    BY <1>1, <1>2, HeldRefs DEF Own, LastOwn
<1>5. RefOwn'
  <2>. SUFFICES ASSUME NEW t \in Task, task'[t].ref # NoRef,
                       task'[t].ref = task[t].ref, task'[t].id = task[t].id
                PROVE  Good(heap', t[1], task'[t].ref, task'[t].id)
    BY DEF RefOwn, RefStep
  <2>. t[1] \in Proc
    BY DEF Task
  <2>. QED
    BY <1>1, <1>2, HeldRefs DEF Own, RefOwn
<1>6. WriteOwn'
  <2>. SUFFICES ASSUME NEW w \in writes', w.obj # NoRef, NEW v \in writes,
                       v.obj = w.obj, v.task = w.task, v.data = w.data
                PROVE  Good(heap', w.task[1], w.obj, w.data.id)
    BY DEF WriteOwn, WriteStep
  <2>. w.task[1] \in Proc
    BY DEF TypeOK, AccessorTypeOK, Write, Task
  <2>. QED
    BY <1>1, <1>2, HeldRefs DEF Own, WriteOwn
<1>. QED
  BY <1>3, <1>4, <1>5, <1>6 DEF Own

-----------------------------------------------------------------------------
(***************************************************************************)
(* A callback of process p that leaves the objects cells: it replaces its  *)
(* cache, its one-entry cache and states of its requests, and makes or     *)
(* ends updates.                                                           *)
(***************************************************************************)
Fits(cells, o, i) == o \in Obj /\ cells[o] \in Session /\ cells[o].id = i

SameIds(p, cells) ==
    /\ cells \in Cells
    /\ \A o \in Obj : (o \in Held(p) /\ heap[p][o] \in Session)
                        => cells[o] \in Session /\ cells[o].id = heap[p][o].id

CacheFits(p, cells, c) ==
    /\ c \in Cache
    /\ \A i \in Id : \/ c[i].obj = NoRef
                     \/ c[i].obj = mem[p][i].obj
                     \/ Fits(cells, c[i].obj, i)

LastFits(p, cells, e) ==
    /\ e \in Last
    /\ e.obj = NoRef \/ e = last[p] \/ Fits(cells, e.obj, e.id)

TaskFits(t, cells, r) ==
    /\ r \in TaskState
    /\ \/ r.ref = NoRef
       \/ r.ref = task[t].ref /\ r.id = task[t].id
       \/ Fits(cells, r.ref, r.id)
    /\ r.ans \in Session => r.ans.id = r.id
    /\ r.pc # "idle" => r.id \in Id
    /\ r.pc \in {"loaded", "create", "info", "save"} => r.ref # NoRef

WriteFits(p, cells, w) ==
    /\ w \in Write
    /\ w.applied => w.obj # NoRef
    /\ \/ \E v \in writes : v.obj = w.obj /\ v.task = w.task /\ v.data = w.data
       \/ w.task[1] = p /\ Fits(cells, w.obj, w.data.id)

HistoryOK ==
    /\ cookie \in SUBSET Id
    /\ granted \in [Id -> Time]
    /\ born \in [Id -> Time]
    /\ loggedOut \in [Id -> Time]

(* Collecting what nothing references keeps the objects that are.          *)
LEMMA CollectStep ==
    ASSUME TypeOK, NEW p \in Proc, NEW cells, SameIds(p, cells),
           Collect(p, cells)
    PROVE  /\ heap' \in [Proc -> Cells]
           /\ HeapStep
           /\ \A o \in Obj : o \in Held(p)' => heap'[p][o] = cells[o]
<1>1. heap \in [Proc -> Cells]
  BY DEF TypeOK, AccessorTypeOK, Cells
<1>2. KeepHeld(p, cells) \in Cells
  BY DEF KeepHeld, Cells, SameIds
<1>3. heap' = [heap EXCEPT ![p] = KeepHeld(p, cells)]
  BY DEF Collect
<1>4. \A o \in Obj : o \in Held(p)' => heap'[p][o] = cells[o]
  BY <1>1, <1>3 DEF KeepHeld
<1>5. HeapStep
  <2>. SUFFICES ASSUME NEW q \in Proc, NEW o \in Obj, o \in Held(q),
                       o \in Held(q)', heap[q][o] \in Session
                PROVE  heap'[q][o] \in Session /\ heap'[q][o].id = heap[q][o].id
    BY DEF HeapStep
  <2>1. CASE q = p
    BY <2>1, <1>4 DEF SameIds
  <2>2. CASE q # p
    BY <2>2, <1>1, <1>3
  <2>. QED
    BY <2>1, <2>2
<1>. QED
  BY <1>1, <1>2, <1>3, <1>4, <1>5

(* Such a callback keeps the invariant.                                    *)
LEMMA ProcessStep ==
    ASSUME IInv, NEW p \in Proc, NEW cells, SameIds(p, cells),
           Collect(p, cells),
           NEW c, CacheFits(p, cells, c), mem' = [mem EXCEPT ![p] = c],
           NEW e, LastFits(p, cells, e), last' = [last EXCEPT ![p] = e],
           task' \in [Task -> TaskState],
           \A t \in Task : \/ task'[t] = task[t]
                           \/ t[1] = p /\ TaskFits(t, cells, task'[t]),
           \A w \in writes' : w \in writes \/ WriteFits(p, cells, w),
           ready' \in [Proc -> BOOLEAN],
           UNCHANGED <<clock, store>>, HistoryOK'
    PROVE  IInv'
<1>. USE NamesAssumption
<1>0. TypeOK /\ Own /\ PcOK
  BY DEF IInv
<1>1. /\ heap' \in [Proc -> Cells]
      /\ HeapStep
      /\ \A o \in Obj : o \in Held(p)' => heap'[p][o] = cells[o]
  BY <1>0, CollectStep
<1>2. mem \in [Proc -> Cache] /\ last \in [Proc -> Last]
  BY <1>0 DEF TypeOK, AccessorTypeOK, Cache, Entry, Last
<1>3. mem' \in [Proc -> Cache] /\ last' \in [Proc -> Last]
  BY <1>2 DEF CacheFits, LastFits
<1>4. writes' \in SUBSET Write
  BY <1>0 DEF TypeOK, AccessorTypeOK, WriteFits
<1>5. TypeOK'
  BY <1>0, <1>1, <1>3, <1>4
  DEF TypeOK, AccessorTypeOK, HistoryOK, Cells, Cache, Entry, Last
<1>6. /\ \A q \in Proc, i \in Id : mem'[q][i].obj \in Held(q)'
      /\ \A q \in Proc : last'[q].obj \in Held(q)'
      /\ \A t \in Task : task'[t].ref \in Held(t[1])'
      /\ \A w \in writes' : w.obj \in Held(w.task[1])'
  BY <1>5, HeldNext
<1>7. ASSUME NEW o, NEW i, Fits(cells, o, i), o \in Held(p)'
      PROVE  Good(heap', p, o, i)
  BY <1>7, <1>1 DEF Fits, Good
<1>8. MemStep
  BY <1>2, <1>6, <1>7 DEF MemStep, CacheFits
<1>9. LastStep
  BY <1>2, <1>6, <1>7 DEF LastStep, LastFits
<1>10. RefStep
  BY <1>6, <1>7 DEF RefStep, TaskFits
<1>11. WriteStep
  BY <1>6, <1>7 DEF WriteStep, WriteFits
<1>12. StoreOwn'
  BY <1>0 DEF Own, StoreOwn
<1>13. AnsOwn'
  BY <1>0 DEF Own, AnsOwn, TaskFits
<1>14. PcOK'
  BY <1>0 DEF PcOK, TaskFits, WriteFits
<1>. QED
  BY <1>0, <1>1, <1>5, <1>8, <1>9, <1>10, <1>11, <1>12, <1>13, <1>14, OwnStep
  DEF IInv

(* A callback that changes no object and no cache: the store answers, or   *)
(* a request starts to wait for it or ends without it.                     *)
LEMMA QuietStep ==
    ASSUME IInv, UNCHANGED <<clock, heap, mem, last>>,
           store' \in [Id -> Session \cup {NoSession}], StoreOwn',
           task' \in [Task -> TaskState],
           \A t \in Task : \/ task'[t] = task[t]
                           \/ TaskFits(t, heap[t[1]], task'[t]),
           \A w \in writes' :
             w \in writes \/ WriteFits(w.task[1], heap[w.task[1]], w),
           ready' \in [Proc -> BOOLEAN], HistoryOK'
    PROVE  IInv'
<1>. USE NamesAssumption
<1>0. TypeOK /\ Own /\ PcOK
  BY DEF IInv
<1>1. writes' \in SUBSET Write
  BY <1>0 DEF TypeOK, AccessorTypeOK, WriteFits
<1>2. TypeOK'
  BY <1>0, <1>1 DEF TypeOK, AccessorTypeOK, HistoryOK
<1>3. HeapStep /\ MemStep /\ LastStep
  BY DEF HeapStep, MemStep, LastStep
<1>4. RefStep
  BY DEF RefStep, TaskFits, Fits, Good
<1>5. WriteStep
  BY DEF WriteStep, WriteFits, Fits, Good
<1>6. AnsOwn'
  BY <1>0 DEF Own, AnsOwn, TaskFits
<1>7. PcOK'
  BY <1>0 DEF PcOK, TaskFits, WriteFits
<1>. QED
  BY <1>0, <1>2, <1>3, <1>4, <1>5, <1>6, <1>7, OwnStep DEF IInv

-----------------------------------------------------------------------------
(* Facts about the operators the steps are made of *)

(* NewObj is an object that nothing references.                            *)
LEMMA NewObjIsFree ==
    ASSUME NEW p, CanAllocate(p)
    PROVE  NewObj(p) \in Obj /\ NewObj(p) \notin Held(p)
BY DEF CanAllocate, NewObj

(* The heap itself, and the heap with a new object, keep the ids.          *)
LEMMA SameHeap ==
    ASSUME IInv, NEW p \in Proc
    PROVE  SameIds(p, heap[p])
BY DEF IInv, TypeOK, AccessorTypeOK, SameIds, Cells

(* A session put in a new object is the session of its own id.             *)
LEMMA NewCell ==
    ASSUME IInv, NEW p \in Proc, CanAllocate(p), NEW s \in Session
    PROVE  /\ SameIds(p, [heap[p] EXCEPT ![NewObj(p)] = s])
           /\ Fits([heap[p] EXCEPT ![NewObj(p)] = s], NewObj(p), s.id)
<1>1. heap[p] \in Cells
  BY DEF IInv, TypeOK, AccessorTypeOK, Cells
<1>. QED
  BY <1>1, NewObjIsFree DEF SameIds, Fits, Cells

(* Changing an object, but not its id, keeps the ids.                      *)
LEMMA ChangedCell ==
    ASSUME IInv, NEW p \in Proc, NEW o, NEW i, Good(heap, p, o, i),
           NEW s \in Session, s.id = i
    PROVE  /\ SameIds(p, [heap[p] EXCEPT ![o] = s])
           /\ Fits([heap[p] EXCEPT ![o] = s], o, i)
<1>1. heap[p] \in Cells
  BY DEF IInv, TypeOK, AccessorTypeOK, Cells
<1>. QED
  BY <1>1 DEF SameIds, Fits, Cells, Good

(* The state of a request that has ended.                                  *)
LEMMA IdleFits ==
    ASSUME NEW t, NEW cells
    PROVE  TaskFits(t, cells, Idle)
<1>1. Idle \in TaskState
  BY DEF Idle, TaskState, Time
<1>. QED
  BY <1>1, NamesAssumption DEF Idle, TaskFits

(* The state of a request that asked the store.                            *)
LEMMA GettingFits ==
    ASSUME IInv, NEW t, NEW cells, NEW i \in Id,
           NEW k \in {"access", "menu", "logout", "password"},
           NEW where \in {"get", "delete"}
    PROVE  TaskFits(t, cells, Getting(k, where, i))
<1>1. clock \in Time
  BY DEF IInv, TypeOK, AccessorTypeOK
<1>2. Getting(k, where, i) \in TaskState
  BY <1>1 DEF Getting, Idle, TaskState, Time
<1>. QED
  BY <1>2, NamesAssumption DEF Getting, Idle, TaskFits

(* The caches as they are.                                                 *)
LEMMA SameCache ==
    ASSUME IInv, NEW p \in Proc, NEW cells
    PROVE  CacheFits(p, cells, mem[p]) /\ LastFits(p, cells, last[p])
BY DEF IInv, TypeOK, AccessorTypeOK, CacheFits, LastFits, Cache, Entry, Last

(* The empty one-entry cache.                                              *)
LEMMA NoLastFits ==
    ASSUME NEW p, NEW cells
    PROVE  LastFits(p, cells, NoLast)
BY DEF NoLast, LastFits, Last, Time

(* A cache without one of its entries.                                     *)
LEMMA DropFits ==
    ASSUME NEW p, NEW cells, NEW c, CacheFits(p, cells, c), NEW i
    PROVE  CacheFits(p, cells, CacheDrop(c, i))
BY DEF CacheFits, CacheDrop, NoEntry, Cache, Entry, Time

(* A cache with a session put under its own id.                            *)
LEMMA PutFits ==
    ASSUME IInv, NEW p, NEW cells, NEW c, CacheFits(p, cells, c),
           NEW o, NEW i \in Id, Fits(cells, o, i)
    PROVE  CacheFits(p, cells, CachePut(c, i, o))
<1>1. clock + MemTime \in Time
  BY TimesAssumption DEF IInv, TypeOK, AccessorTypeOK, Time
<1>. QED
  BY <1>1 DEF CacheFits, CachePut, Cache, Entry, Fits

-----------------------------------------------------------------------------
(* The steps of the handler *)

(* The end of run() leaves caches that fit.                                *)
LEMMA DecideStep ==
    ASSUME IInv, NEW h \in Proc, NEW cells \in Cells,
           NEW e, LastFits(h, cells, e), Fits(cells, e.obj, e.id),
           NEW c, CacheFits(h, cells, c), Decide(h, e, cells, c)
    PROVE  /\ granted' \in [Id -> Time]
           /\ \E c2 : CacheFits(h, cells, c2) /\ mem' = [mem EXCEPT ![h] = c2]
           /\ \E e2 : LastFits(h, cells, e2) /\ last' = [last EXCEPT ![h] = e2]
<1>1. /\ cells[e.obj].id \in Id
      /\ clock \in Time
      /\ granted \in [Id -> Time]
  BY DEF Fits, Session, IInv, TypeOK, AccessorTypeOK
<1>2. CacheFits(h, cells, CacheDrop(c, cells[e.obj].id))
  BY DropFits
<1>3. LastFits(h, cells, NoLast)
  BY NoLastFits
<1>. QED
  BY <1>1, <1>2, <1>3 DEF Decide

(* Serving the session that was found keeps the invariant.                 *)
LEMMA ServeStep ==
    ASSUME IInv, NEW t \in Task, NEW i \in Id, NEW o, NEW now \in Time,
           NEW cells, SameIds(t[1], cells), Fits(cells, o, i),
           NEW c, CacheFits(t[1], cells, c),
           Serve(t, i, o, now, cells, c),
           task' = task \/ task' = [task EXCEPT ![t] = Idle],
           UNCHANGED <<clock, store, ready, cookie, born, loggedOut>>
    PROVE  IInv'
<1>. DEFINE h == t[1]
            due == RefreshDue(cells[o], now)
            seen == IF due THEN [cells EXCEPT ![o].lastSeen = now] ELSE cells
            e == [id |-> i, obj |-> o, time |-> now]
<1>1. h \in Proc
  BY DEF Task
<1>2. cells \in Cells /\ o \in Obj /\ cells[o] \in Session /\ cells[o].id = i
  BY DEF SameIds, Fits
<1>3. [cells[o] EXCEPT !.lastSeen = now] \in Session
  BY <1>2 DEF Session
<1>4. /\ seen \in Cells
      /\ seen[o] \in Session
      /\ seen[o].id = i
      /\ \A x \in Obj : cells[x] \in Session
                          => seen[x] \in Session /\ seen[x].id = cells[x].id
  BY <1>2, <1>3 DEF Cells, Session
<1>. HIDE DEF seen
<1>5. SameIds(h, seen) /\ CacheFits(h, seen, c)
  BY <1>2, <1>4 DEF SameIds, CacheFits, Fits
<1>6. Fits(seen, o, i) /\ LastFits(h, seen, e)
  BY <1>2, <1>4 DEF Fits, LastFits, Last
<1>7. Decide(h, e, seen, c) /\ Collect(h, seen)
  BY DEF Serve, seen
<1>8. /\ granted' \in [Id -> Time]
      /\ \E c2 : CacheFits(h, seen, c2) /\ mem' = [mem EXCEPT ![h] = c2]
      /\ \E e2 : LastFits(h, seen, e2) /\ last' = [last EXCEPT ![h] = e2]
  BY <1>1, <1>4, <1>5, <1>6, <1>7, DecideStep
<1>9. WriteFits(h, seen, UpdateCall(t, o, seen[o]))
  BY <1>2, <1>4, <1>6 DEF WriteFits, UpdateCall, Write
<1>10. \A w \in writes' : w \in writes \/ WriteFits(h, seen, w)
  BY <1>9 DEF Serve, seen
<1>11. /\ task' \in [Task -> TaskState]
       /\ \A u \in Task : \/ task'[u] = task[u]
                          \/ u[1] = h /\ TaskFits(u, seen, task'[u])
  <2>1. TaskFits(t, seen, Idle) /\ task \in [Task -> TaskState]
    BY IdleFits DEF IInv, TypeOK, AccessorTypeOK
  <2>. QED
    BY <2>1 DEF TaskFits
<1>12. ready' \in [Proc -> BOOLEAN] /\ HistoryOK'
  BY <1>8 DEF IInv, TypeOK, AccessorTypeOK, HistoryOK
<1>. QED
  BY <1>1, <1>5, <1>7, <1>8, <1>10, <1>11, <1>12, ProcessStep

(* A callback of process p that only replaces its cache, its one-entry     *)
(* cache and the state of a request.                                       *)
LEMMA CacheStep ==
    ASSUME IInv, NEW p \in Proc, NEW cells, SameIds(p, cells),
           Collect(p, cells),
           NEW c, CacheFits(p, cells, c), mem' = [mem EXCEPT ![p] = c],
           NEW e, LastFits(p, cells, e), last' = [last EXCEPT ![p] = e],
           \/ task' = task
           \/ \E t \in Task :
                /\ t[1] = p
                /\ \E r : TaskFits(t, cells, r) /\ task' = [task EXCEPT ![t] = r],
           UNCHANGED <<clock, store, ready, writes>>, HistoryOK'
    PROVE  IInv'
<1>1. task \in [Task -> TaskState] /\ ready \in [Proc -> BOOLEAN]
  BY DEF IInv, TypeOK, AccessorTypeOK
<1>2. /\ task' \in [Task -> TaskState]
      /\ \A u \in Task : \/ task'[u] = task[u]
                         \/ u[1] = p /\ TaskFits(u, cells, task'[u])
  BY <1>1 DEF TaskFits
<1>. QED
  BY <1>1, <1>2, ProcessStep

(* A request served from the one-entry cache.                              *)
LEMMA InternalCacheStep ==
    ASSUME IInv, NEW t \in Task, NEW i, ServeFromInternalCache(t, i),
           UNCHANGED <<born, loggedOut>>
    PROVE  IInv'
<1>. DEFINE h == t[1]
<1>1. h \in Proc
  BY DEF Task
<1>2. heap[h] \in Cells
  BY <1>1 DEF IInv, TypeOK, AccessorTypeOK, Cells
<1>3. Fits(heap[h], last[h].obj, last[h].id)
  BY <1>1 DEF ServeFromInternalCache, InInternalCache, IInv, Own, LastOwn, Good,
              Fits
<1>4. SameIds(h, heap[h]) /\ CacheFits(h, heap[h], mem[h])
        /\ LastFits(h, heap[h], last[h])
  BY <1>1, SameHeap, SameCache
<1>5. Decide(h, last[h], heap[h], mem[h]) /\ Collect(h, heap[h])
  BY DEF ServeFromInternalCache
<1>6. UNCHANGED <<clock, store, ready, task, writes, cookie>>
  BY DEF ServeFromInternalCache
<1>7. /\ granted' \in [Id -> Time]
      /\ \E c2 : CacheFits(h, heap[h], c2) /\ mem' = [mem EXCEPT ![h] = c2]
      /\ \E e2 : LastFits(h, heap[h], e2) /\ last' = [last EXCEPT ![h] = e2]
  BY <1>1, <1>2, <1>3, <1>4, <1>5, DecideStep
<1>8. HistoryOK'
  BY <1>6, <1>7 DEF HistoryOK, IInv, TypeOK
<1>. QED
  BY <1>1, <1>4, <1>5, <1>6, <1>7, <1>8, CacheStep

(* A request served from the accessor's memory, or refused there.          *)
LEMMA MemoryStep ==
    ASSUME IInv, NEW t \in Task, NEW i \in Id, ServeFromMemory(t, i),
           UNCHANGED <<born, loggedOut>>
    PROVE  IInv'
<1>. DEFINE h == t[1]
            o == mem[h][i].obj
<1>1. h \in Proc
  BY DEF Task
<1>2. Fits(heap[h], o, i)
  BY <1>1 DEF ServeFromMemory, Cached, IInv, Own, MemOwn, Good, Fits
<1>3. SameIds(h, heap[h]) /\ CacheFits(h, heap[h], mem[h])
        /\ LastFits(h, heap[h], NoLast)
  BY <1>1, SameHeap, SameCache, NoLastFits
<1>4. clock \in Time
  BY DEF IInv, TypeOK, AccessorTypeOK
<1>5. UNCHANGED <<clock, store, ready, task, cookie>>
  BY DEF ServeFromMemory
<1>6. CASE Serve(t, i, o, clock, heap[h], mem[h])
  BY <1>2, <1>3, <1>4, <1>5, <1>6, ServeStep
<1>7. CASE /\ last' = [last EXCEPT ![h] = NoLast]
           /\ UNCHANGED <<mem, writes, granted>>
           /\ Collect(h, heap[h])
  <2>1. mem' = [mem EXCEPT ![h] = mem[h]]
    BY <1>7 DEF IInv, TypeOK, AccessorTypeOK
  <2>2. HistoryOK'
    BY <1>5, <1>7 DEF HistoryOK, IInv, TypeOK
  <2>. QED
    BY <1>1, <1>3, <1>5, <1>7, <2>1, <2>2, CacheStep
<1>. QED
  BY <1>6, <1>7 DEF ServeFromMemory

(* NotReady and Skip: the one-entry cache is emptied.                      *)
LEMMA EmptyLastStep ==
    ASSUME IInv, NEW h \in Proc, last' = [last EXCEPT ![h] = NoLast],
           UNCHANGED <<clock, store, mem, ready, task, writes>>, HistoryOK',
           Collect(h, heap[h])
    PROVE  IInv'
<1>1. mem' = [mem EXCEPT ![h] = mem[h]]
  BY DEF IInv, TypeOK, AccessorTypeOK
<1>2. SameIds(h, heap[h]) /\ CacheFits(h, heap[h], mem[h])
        /\ LastFits(h, heap[h], NoLast)
  BY SameHeap, SameCache, NoLastFits
<1>. QED
  BY <1>1, <1>2, CacheStep

(* A request that asks the store.                                          *)
LEMMA AskStoreStep ==
    ASSUME IInv, NEW t \in Task, NEW i \in Id, AskStore(t, i),
           UNCHANGED <<born, loggedOut>>
    PROVE  IInv'
<1>. DEFINE h == t[1]
<1>1. h \in Proc
  BY DEF Task
<1>2. mem' = [mem EXCEPT ![h] = mem[h]]
  BY DEF AskStore, IInv, TypeOK, AccessorTypeOK
<1>3. SameIds(h, heap[h]) /\ CacheFits(h, heap[h], mem[h])
        /\ LastFits(h, heap[h], NoLast)
  BY <1>1, SameHeap, SameCache, NoLastFits
<1>4. TaskFits(t, heap[h], Getting("access", "get", i))
  BY GettingFits
<1>5. HistoryOK'
  BY DEF AskStore, HistoryOK, IInv, TypeOK
<1>. QED
  BY <1>1, <1>2, <1>3, <1>4, <1>5, CacheStep DEF AskStore

(* The answer of the store, served or refused.                             *)
LEMMA FromStoreStep ==
    ASSUME IInv, NEW t \in Task, ServeFromStore(t), UNCHANGED <<born, loggedOut>>
    PROVE  IInv'
<1>. DEFINE h == t[1]
            i == task[t].id
            now == task[t].since
            o == NewObj(h)
            cells == [heap[h] EXCEPT ![o] = task[t].ans]
            cache == IF task[t].cur THEN CachePut(mem[h], i, o) ELSE mem[h]
<1>1. h \in Proc
  BY DEF Task
<1>2. task[t] \in TaskState
  BY DEF IInv, TypeOK, AccessorTypeOK
<1>3. /\ task[t].ans \in Session
      /\ now \in Time
      /\ i \in Id
      /\ task[t].ans.id = i
  BY <1>2 DEF ServeFromStore, Answered, InGet, TaskState, IInv, PcOK, Own, AnsOwn
<1>4. CanAllocate(h) /\ task' = [task EXCEPT ![t] = Idle]
        /\ UNCHANGED <<clock, store, ready, cookie>>
  BY DEF ServeFromStore
<1>5. SameIds(h, cells) /\ Fits(cells, o, i)
  BY <1>1, <1>3, <1>4, NewCell
<1>6. CacheFits(h, cells, cache)
  BY <1>1, <1>3, <1>5, SameCache, PutFits
<1>. HIDE DEF cells, cache, o
<1>7. CASE Serve(t, i, o, now, cells, cache)
  BY <1>3, <1>4, <1>5, <1>6, <1>7, ServeStep
<1>8. CASE /\ mem' = [mem EXCEPT ![h] = cache]
           /\ UNCHANGED <<last, writes, granted>>
           /\ Collect(h, cells)
  <2>1. last' = [last EXCEPT ![h] = last[h]] /\ LastFits(h, cells, last[h])
    BY <1>1, <1>8, SameCache DEF IInv, TypeOK, AccessorTypeOK
  <2>2. TaskFits(t, cells, Idle)
    BY IdleFits
  <2>3. HistoryOK'
    BY <1>4, <1>8 DEF HistoryOK, IInv, TypeOK
  <2>. QED
    BY <1>1, <1>4, <1>5, <1>6, <1>8, <2>1, <2>2, <2>3, CacheStep
<1>. QED
  BY <1>7, <1>8 DEF ServeFromStore, o, cells, cache

(* A request ends, or starts to wait for the store, and nothing else       *)
(* changes but the histories.                                              *)
LEMMA TaskOnlyStep ==
    ASSUME IInv, NEW t \in Task, NEW r, TaskFits(t, heap[t[1]], r),
           task' = [task EXCEPT ![t] = r],
           UNCHANGED <<clock, store, heap, mem, last, ready, writes>>, HistoryOK'
    PROVE  IInv'
<1>1. /\ task \in [Task -> TaskState] /\ ready \in [Proc -> BOOLEAN]
      /\ store \in [Id -> Session \cup {NoSession}] /\ StoreOwn
  BY DEF IInv, TypeOK, AccessorTypeOK, Own
<1>2. StoreOwn'
  BY <1>1 DEF StoreOwn
<1>3. /\ task' \in [Task -> TaskState]
      /\ \A u \in Task : \/ task'[u] = task[u]
                         \/ TaskFits(u, heap[u[1]], task'[u])
  BY <1>1 DEF TaskFits
<1>. QED
  BY <1>1, <1>2, <1>3, QuietStep

(* An update answered: its object is cached.                               *)
LEMMA RefreshedStep ==
    ASSUME IInv, NEW w \in writes, Refreshed(w), UNCHANGED <<born, loggedOut>>
    PROVE  IInv'
<1>. DEFINE h == w.task[1]
            c == IF w.cur THEN CachePut(mem[h], w.data.id, w.obj) ELSE mem[h]
<1>1. w \in Write
  BY DEF IInv, TypeOK, AccessorTypeOK
<1>2. h \in Proc /\ w.data.id \in Id
  BY <1>1 DEF Write, Task, Session
<1>3. Fits(heap[h], w.obj, w.data.id)
  BY DEF Refreshed, IInv, PcOK, Own, WriteOwn, Good, Fits
<1>4. SameIds(h, heap[h]) /\ CacheFits(h, heap[h], c)
  BY <1>2, <1>3, SameHeap, SameCache, PutFits
<1>5. mem' = [mem EXCEPT ![h] = c]
  BY DEF Refreshed, IInv, TypeOK, AccessorTypeOK
<1>6. last' = [last EXCEPT ![h] = last[h]] /\ LastFits(h, heap[h], last[h])
  BY <1>2, SameCache DEF Refreshed, IInv, TypeOK, AccessorTypeOK
<1>7. /\ task' \in [Task -> TaskState] /\ task' = task
      /\ ready' \in [Proc -> BOOLEAN] /\ UNCHANGED <<clock, store>>
      /\ HistoryOK' /\ Collect(h, heap[h])
  BY DEF Refreshed, HistoryOK, IInv, TypeOK, AccessorTypeOK
<1>8. \A v \in writes' : v \in writes
  BY DEF Refreshed
<1>. HIDE DEF c
<1>. QED
  BY <1>2, <1>4, <1>5, <1>6, <1>7, <1>8, ProcessStep

(* An "unlog" message drops the session from both caches.                  *)
LEMMA LocalUnlogStep ==
    ASSUME IInv, NEW h \in Proc, NEW i, LocalUnlog(h, i),
           UNCHANGED <<born, loggedOut>>
    PROVE  IInv'
<1>1. SameIds(h, heap[h]) /\ CacheFits(h, heap[h], CacheDrop(mem[h], i))
        /\ LastFits(h, heap[h], NoLast)
  BY SameHeap, SameCache, DropFits, NoLastFits
<1>2. mem' = [mem EXCEPT ![h] = CacheDrop(mem[h], i)]
  BY DEF LocalUnlog, IInv, TypeOK, AccessorTypeOK
<1>3. HistoryOK'
  BY DEF LocalUnlog, HistoryOK, IInv, TypeOK
<1>. QED
  BY <1>1, <1>2, <1>3, CacheStep DEF LocalUnlog

(* reload() replaces the accessor.                                         *)
LEMMA ReloadStep ==
    ASSUME IInv, NEW h \in Proc, Reload(h), UNCHANGED <<born, loggedOut>>
    PROVE  IInv'
<1>1. EmptyCache \in Cache /\ CacheFits(h, heap[h], EmptyCache)
  BY DEF EmptyCache, Cache, Entry, NoEntry, Time, CacheFits
<1>2. SameIds(h, heap[h]) /\ LastFits(h, heap[h], last[h])
  BY SameHeap, SameCache
<1>3. last' = [last EXCEPT ![h] = last[h]]
  BY DEF Reload, IInv, TypeOK, AccessorTypeOK
<1>4. /\ task' \in [Task -> TaskState]
      /\ \A t \in Task : \/ task'[t] = task[t]
                         \/ t[1] = h /\ TaskFits(t, heap[h], task'[t])
  <2>1. ASSUME NEW t \in Task
        PROVE  /\ [task[t] EXCEPT !.cur = FALSE] \in TaskState
               /\ TaskFits(t, heap[h], [task[t] EXCEPT !.cur = FALSE])
    <3>1. /\ task[t] \in TaskState
          /\ task[t].ans \in Session => task[t].ans.id = task[t].id
          /\ task[t].pc # "idle" => task[t].id \in Id
          /\ task[t].pc \in {"loaded", "create", "info", "save"}
               => task[t].ref # NoRef
      BY DEF IInv, TypeOK, AccessorTypeOK, Own, AnsOwn, PcOK
    <3>2. [task[t] EXCEPT !.cur = FALSE] \in TaskState
      BY <3>1 DEF TaskState
    <3>. QED
      BY <3>1, <3>2 DEF TaskFits, TaskState
  <2>2. task \in [Task -> TaskState]
    BY DEF IInv, TypeOK, AccessorTypeOK
  <2>. QED
    BY <2>1, <2>2 DEF Reload
<1>5. \A w \in writes' : w \in writes \/ WriteFits(h, heap[h], w)
  <2>1. ASSUME NEW v \in writes
        PROVE  WriteFits(h, heap[h], [v EXCEPT !.cur = FALSE])
    <3>1. v \in Write /\ (v.applied => v.obj # NoRef)
      BY DEF IInv, TypeOK, AccessorTypeOK, PcOK
    <3>2. [v EXCEPT !.cur = FALSE] \in Write
      BY <3>1 DEF Write
    <3>. QED
      BY <3>1, <3>2 DEF WriteFits, Write
  <2>. QED
    BY <2>1 DEF Reload
<1>6. /\ mem' = [mem EXCEPT ![h] = EmptyCache]
      /\ ready' \in [Proc -> BOOLEAN] /\ UNCHANGED <<clock, store>>
      /\ HistoryOK' /\ Collect(h, heap[h])
  BY DEF Reload, HistoryOK, IInv, TypeOK, AccessorTypeOK
<1>. QED
  BY <1>1, <1>2, <1>3, <1>4, <1>5, <1>6, ProcessStep

(* The new accessor has its backend.                                       *)
LEMMA BackendReadyStep ==
    ASSUME IInv, NEW h \in Proc, BackendReady(h), UNCHANGED <<born, loggedOut>>
    PROVE  IInv'
<1>1. /\ store \in [Id -> Session \cup {NoSession}] /\ StoreOwn
      /\ task \in [Task -> TaskState] /\ ready' \in [Proc -> BOOLEAN]
      /\ HistoryOK'
  BY DEF BackendReady, IInv, TypeOK, AccessorTypeOK, Own, HistoryOK
<1>2. StoreOwn'
  BY <1>1 DEF StoreOwn, BackendReady
<1>. QED
  BY <1>1, <1>2, QuietStep DEF BackendReady

(* The end of a process.                                                   *)
LEMMA RestartStep ==
    ASSUME IInv, NEW p \in Proc, Restart(p), HistoryOK'
    PROVE  IInv'
<1>. USE NamesAssumption
<1>0. TypeOK /\ Own /\ PcOK
  BY DEF IInv
<1>1. Idle \in TaskState
  BY DEF Idle, TaskState, Time
<1>2. /\ NoLast \in Last /\ EmptyCache \in Cache /\ NoCells \in Cells
      /\ mem \in [Proc -> Cache] /\ last \in [Proc -> Last]
      /\ heap \in [Proc -> Cells]
  BY <1>0 DEF NoLast, Last, EmptyCache, Cache, NoEntry, Entry, NoCells, Cells,
              Time, TypeOK, AccessorTypeOK
<1>3. \A w \in writes' :
        \/ w \in writes /\ w.task[1] # p
        \/ /\ w \in Write /\ w.obj = NoRef /\ ~w.applied
  <2>1. ASSUME NEW w \in writes, ~w.applied
        PROVE  /\ [w EXCEPT !.obj = NoRef] \in Write
               /\ [w EXCEPT !.obj = NoRef].obj = NoRef
               /\ ~[w EXCEPT !.obj = NoRef].applied
    <3>1. w \in Write
      BY <1>0 DEF TypeOK, AccessorTypeOK
    <3>. QED
      BY <2>1, <3>1 DEF Write
  <2>2. PICK sent \in SUBSET {w \in writes : w.task[1] = p /\ ~w.applied} :
          writes' = {w \in writes : w.task[1] # p}
                      \cup {[w EXCEPT !.obj = NoRef] : w \in sent}
    BY DEF Restart
  <2>. SUFFICES ASSUME NEW v \in sent, NEW u,
                       u = [v EXCEPT !.obj = NoRef]
                PROVE  u \in Write /\ u.obj = NoRef /\ ~u.applied
    BY <2>2
  <2>. QED
    BY <2>1
<1>4. TypeOK'
  <2>1. writes' \in SUBSET Write
    BY <1>0, <1>3 DEF TypeOK, AccessorTypeOK
  <2>2. task' \in [Task -> TaskState]
    BY <1>0, <1>1 DEF Restart, TypeOK, AccessorTypeOK
  <2>. QED
    BY <1>0, <1>2, <2>1, <2>2
    DEF Restart, TypeOK, AccessorTypeOK, HistoryOK, Cache, Entry, Last, Cells
<1>5. HeapStep
  <2>. SUFFICES ASSUME NEW o \in Obj, o \in Held(p)'
                PROVE  FALSE
    BY <1>2 DEF HeapStep, Restart
  <2>1. \A s \in Slots : <<p, s>> \in Task
    BY DEF Task
  <2>2. \A w \in writes' : w.task[1] = p => w.obj = NoRef
    BY <1>3
  <2>. QED
    BY <1>2, <2>1, <2>2
    DEF Held, Restart, EmptyCache, NoEntry, NoLast, Idle
<1>6. MemStep /\ LastStep
  BY <1>2 DEF MemStep, LastStep, Restart, EmptyCache, NoEntry, NoLast
<1>7. RefStep
  BY DEF RefStep, Restart, Idle
<1>8. WriteStep
  BY <1>3 DEF WriteStep
<1>9. StoreOwn' /\ AnsOwn'
  BY <1>0 DEF Own, StoreOwn, AnsOwn, Restart, Idle
<1>10. PcOK'
  BY <1>0, <1>3 DEF PcOK, Restart, Idle
<1>. QED
  BY <1>0, <1>4, <1>5, <1>6, <1>7, <1>8, <1>9, <1>10, OwnStep DEF IInv

(* A step of the handler keeps the invariant.                              *)
LEMMA HandlerStep ==
    ASSUME IInv, HandlerNext, UNCHANGED <<born, loggedOut>>
    PROVE  IInv'
<1>0. /\ cookie \in SUBSET Id
      /\ \A h \in Handlers : h \in Proc
      /\ \A h \in Handlers, s \in Slots : <<h, s>> \in Task
  BY DEF IInv, TypeOK, Proc, Task
<1>. DEFINE Kept == UNCHANGED <<cookie, granted, born, loggedOut>>
<1>1. Kept => HistoryOK'
  BY DEF HistoryOK, IInv, TypeOK
<1>2. ASSUME NEW h \in Handlers, NEW s \in Slots, NEW i \in cookie,
             \/ ServeFromInternalCache(<<h, s>>, i)
             \/ ServeFromMemory(<<h, s>>, i)
             \/ AskStore(<<h, s>>, i)
      PROVE  IInv'
  BY <1>0, <1>2, InternalCacheStep, MemoryStep, AskStoreStep
<1>3. ASSUME NEW h \in Handlers, NEW s \in Slots, ServeFromStore(<<h, s>>)
      PROVE  IInv'
  BY <1>0, <1>3, FromStoreStep
<1>4. ASSUME NEW t \in Task, NoSessionInStore(t)
      PROVE  IInv'
  <2>1. TaskFits(t, heap[t[1]], Idle)
    BY IdleFits
  <2>2. /\ task' = [task EXCEPT ![t] = Idle]
        /\ UNCHANGED <<clock, store, heap, mem, last, ready, writes>>
        /\ HistoryOK'
    BY <1>1, <1>4 DEF NoSessionInStore
  <2>. QED
    BY <2>1, <2>2, TaskOnlyStep
<1>5. ASSUME NEW t \in Task, RefreshNotReady(t)
      PROVE  IInv'
  <2>1. Restart(t[1]) /\ HistoryOK' /\ t[1] \in Proc
    BY <1>1, <1>5 DEF RefreshNotReady, Proc
  <2>. QED
    BY <2>1, RestartStep
<1>6. ASSUME NEW h \in Handlers, NEW i, NotReady(h, i)
      PROVE  IInv'
  <2>1. /\ last' = [last EXCEPT ![h] = NoLast]
        /\ UNCHANGED <<clock, store, mem, ready, task, writes>>
        /\ HistoryOK'
        /\ Collect(h, heap[h])
    BY <1>1, <1>6 DEF NotReady
  <2>. QED
    BY <1>0, <2>1, EmptyLastStep
<1>7. ASSUME NEW w \in writes, Refreshed(w)
      PROVE  IInv'
  BY <1>7, RefreshedStep
<1>8. ASSUME NEW w \in writes, RefreshFails(w)
      PROVE  IInv'
  <2>1. Restart(w.task[1]) /\ HistoryOK' /\ w.task[1] \in Proc
    BY <1>1, <1>8 DEF RefreshFails, Proc
  <2>. QED
    BY <2>1, RestartStep
<1>9. ASSUME NEW h \in Handlers, Skip(h)
      PROVE  IInv'
  <2>1. /\ last' = [last EXCEPT ![h] = NoLast]
        /\ UNCHANGED <<clock, store, mem, ready, task, writes>>
        /\ HistoryOK'
        /\ Collect(h, heap[h])
    BY <1>1, <1>9 DEF Skip
  <2>. QED
    BY <1>0, <2>1, EmptyLastStep
<1>10. ASSUME NEW h \in Handlers, NEW i \in Id, LocalUnlog(h, i)
       PROVE  IInv'
  BY <1>0, <1>10, LocalUnlogStep
<1>11. ASSUME NEW h \in Handlers, Reload(h) \/ BackendReady(h)
       PROVE  IInv'
  BY <1>0, <1>11, ReloadStep, BackendReadyStep
<1>. QED
  BY <1>0, <1>2, <1>3, <1>4, <1>5, <1>6, <1>7, <1>8, <1>9, <1>10, <1>11
  DEF HandlerNext

-----------------------------------------------------------------------------
(* The steps of the portal *)

(* A callback of the portal: it replaces the state of one request, and may *)
(* fill the cache and make or end updates.                                 *)
LEMMA PortalTaskStep ==
    ASSUME IInv, NEW t \in Task, NEW cells, SameIds(t[1], cells),
           Collect(t[1], cells),
           NEW r, TaskFits(t, cells, r), task' = [task EXCEPT ![t] = r],
           \/ mem' = mem
           \/ \E i \in Id : \E o :
                Fits(cells, o, i) /\ mem' = [mem EXCEPT ![t[1]] = CachePut(@, i, o)],
           \A w \in writes' : w \in writes \/ WriteFits(t[1], cells, w),
           UNCHANGED <<clock, store, last, ready>>, HistoryOK'
    PROVE  IInv'
<1>. DEFINE p == t[1]
<1>1. p \in Proc
  BY DEF Task
<1>2. /\ mem \in [Proc -> Cache] /\ last \in [Proc -> Last]
      /\ ready \in [Proc -> BOOLEAN] /\ task \in [Task -> TaskState]
  BY DEF IInv, TypeOK, AccessorTypeOK, Cache, Entry, Last
<1>3. CacheFits(p, cells, mem[p]) /\ LastFits(p, cells, last[p])
  BY <1>1, SameCache
<1>4. \E c : CacheFits(p, cells, c) /\ mem' = [mem EXCEPT ![p] = c]
  <2>1. CASE mem' = mem
    BY <1>2, <1>3, <2>1
  <2>2. CASE \E i \in Id : \E o :
                Fits(cells, o, i) /\ mem' = [mem EXCEPT ![p] = CachePut(@, i, o)]
    BY <1>3, <2>2, PutFits
  <2>. QED
    BY <2>1, <2>2
<1>5. last' = [last EXCEPT ![p] = last[p]]
  BY <1>2
<1>6. /\ task' \in [Task -> TaskState]
      /\ \A u \in Task : \/ task'[u] = task[u]
                         \/ u[1] = p /\ TaskFits(u, cells, task'[u])
  BY <1>2 DEF TaskFits
<1>. QED
  BY <1>1, <1>2, <1>3, <1>4, <1>5, <1>6, ProcessStep

(* A request that keeps its object, or is given one, fits.                 *)
LEMMA HoldingFits ==
    ASSUME NEW t, NEW cells, NEW o, NEW i \in Id, Fits(cells, o, i),
           NEW k \in {"none", "access", "menu", "login", "logout", "password"},
           NEW where \in {"loaded", "create", "info", "save"}
    PROVE  TaskFits(t, cells, [Idle EXCEPT !.kind = k, !.pc = where,
                                           !.id = i, !.ref = o])
<1>. USE NamesAssumption
<1>. DEFINE r == [Idle EXCEPT !.kind = k, !.pc = where, !.id = i, !.ref = o]
<1>1. r \in TaskState
  BY DEF Idle, TaskState, Time, Fits
<1>2. r.ref = o /\ r.id = i /\ r.ans = NoSession
  BY DEF Idle
<1>. QED
  BY <1>1, <1>2 DEF TaskFits, Fits

(* An update of the object of a request fits.                              *)
LEMMA CallFits ==
    ASSUME NEW t \in Task, NEW cells, NEW o, NEW i, Fits(cells, o, i),
           NEW s \in Session, s.id = i
    PROVE  WriteFits(t[1], cells, UpdateCall(t, o, s))
BY NamesAssumption DEF WriteFits, UpdateCall, Write, Fits

(* A login creates a session under a fresh id.                             *)
LEMMA LoginStep ==
    ASSUME IInv, NEW t \in Task, NEW i \in Id, Login(t, i), UNCHANGED granted
    PROVE  IInv'
<1>. DEFINE p == t[1]
            o == NewObj(p)
            s == [id |-> i, utime |-> clock, lastSeen |-> clock, data |-> "new"]
            cells == [heap[p] EXCEPT ![o] = s]
            r == [Idle EXCEPT !.kind = "login", !.pc = "create", !.id = i,
                              !.ref = o]
<1>1. p \in Proc /\ clock \in Time
  BY DEF Task, IInv, TypeOK, AccessorTypeOK
<1>2. s \in Session /\ s.id = i
  BY <1>1 DEF Session
<1>3. SameIds(p, cells) /\ Fits(cells, o, i)
  BY <1>1, <1>2, NewCell DEF Login
<1>4. Collect(p, cells) /\ task' = [task EXCEPT ![t] = r]
        /\ writes' = writes \cup {UpdateCall(t, o, s)}
        /\ UNCHANGED <<clock, store, mem, last, ready>>
  BY DEF Login
<1>5. HistoryOK'
  BY SMTT(30), <1>1 DEF Login, HistoryOK, IInv, TypeOK
<1>. HIDE DEF cells, o, s
<1>6. TaskFits(t, cells, r)
  BY <1>3, HoldingFits
<1>7. WriteFits(p, cells, UpdateCall(t, o, s))
  BY <1>2, <1>3, CallFits
<1>. HIDE DEF r
<1>. QED
  BY <1>3, <1>4, <1>5, <1>6, <1>7, PortalTaskStep

(* An update that is pending has the object of its session.                *)
LEMMA PendingFits ==
    ASSUME IInv, NEW w \in writes, w.obj # NoRef
    PROVE  /\ w.task \in Task /\ w.task[1] \in Proc /\ w.data.id \in Id
           /\ Good(heap, w.task[1], w.obj, w.data.id)
           /\ Fits(heap[w.task[1]], w.obj, w.data.id)
<1>1. w \in Write
  BY DEF IInv, TypeOK, AccessorTypeOK
<1>. QED
  BY <1>1 DEF Write, Task, Session, IInv, Own, WriteOwn, Good, Fits

(* The first update of a login answered: the session is filled.            *)
LEMMA CreatedStep ==
    ASSUME IInv, NEW w \in writes, Created(w), UNCHANGED granted
    PROVE  IInv'
<1>. USE NamesAssumption
<1>. DEFINE t == w.task
            p == t[1]
            i == w.data.id
            o == w.obj
            r == [task[t] EXCEPT !.pc = "info"]
<1>1. w.obj # NoRef
  BY DEF Created, IInv, PcOK
<1>2. /\ t \in Task /\ p \in Proc /\ i \in Id
      /\ Good(heap, p, o, i)
      /\ clock \in Time
  BY <1>1, PendingFits DEF IInv, TypeOK, AccessorTypeOK
<1>3. PICK d \in {"reset", "full"} :
        LET s == [heap[p][w.obj] EXCEPT !.data = d, !.lastSeen = clock]
        IN  /\ writes' = (writes \ {w}) \cup {UpdateCall(t, w.obj, s)}
            /\ Collect(p, [heap[p] EXCEPT ![w.obj] = s])
  BY DEF Created
<1>. DEFINE s == [heap[p][w.obj] EXCEPT !.data = d, !.lastSeen = clock]
            cells == [heap[p] EXCEPT ![o] = s]
<1>4. /\ writes' = (writes \ {w}) \cup {UpdateCall(t, o, s)}
      /\ Collect(p, cells)
  BY <1>3
<1>5. s \in Session /\ s.id = i
  BY <1>2 DEF Good, Session
<1>. HIDE DEF s
<1>6. SameIds(p, cells) /\ Fits(cells, o, i)
  BY <1>2, <1>5, ChangedCell
<1>. HIDE DEF cells
<1>7. /\ task[t] \in TaskState /\ task[t].ref # NoRef /\ task[t].id \in Id
      /\ task[t].ans \in Session => task[t].ans.id = task[t].id
  BY <1>2 DEF Created, IInv, TypeOK, AccessorTypeOK, PcOK, Own, AnsOwn
<1>8. TaskFits(t, cells, r)
  BY <1>7 DEF TaskFits, TaskState
<1>9. WriteFits(p, cells, UpdateCall(t, o, s))
  BY <1>2, <1>5, <1>6, CallFits
<1>10. /\ task' = [task EXCEPT ![t] = r]
       /\ mem' = [mem EXCEPT ![p] = CachePut(mem[p], i, o)]
       /\ UNCHANGED <<clock, store, last, ready>>
       /\ HistoryOK'
  BY DEF Created, HistoryOK, IInv, TypeOK, AccessorTypeOK
<1>. QED
  BY <1>2, <1>4, <1>6, <1>8, <1>9, <1>10, PortalTaskStep

(* The answer to a logout keeps the histories in their types.              *)
LEMMA ReportOK ==
    ASSUME IInv, NEW i, Report(i)
    PROVE  loggedOut' \in [Id -> Time]
BY DEF Report, IInv, TypeOK, AccessorTypeOK

(* The last update of a request answered: its object is cached, the        *)
(* request ends.                                                           *)
LEMMA SavedStep ==
    ASSUME IInv, NEW w \in writes, w.applied,
           mem' = [mem EXCEPT ![w.task[1]] = CachePut(@, w.data.id, w.obj)],
           task' = [task EXCEPT ![w.task] = Idle],
           writes' = writes \ {w},
           UNCHANGED <<clock, store, last, ready>>, HistoryOK',
           Collect(w.task[1], heap[w.task[1]])
    PROVE  IInv'
<1>. DEFINE p == w.task[1]
<1>1. /\ w.task \in Task /\ p \in Proc /\ w.data.id \in Id
      /\ Fits(heap[p], w.obj, w.data.id)
  BY PendingFits DEF IInv, PcOK
<1>2. SameIds(p, heap[p]) /\ TaskFits(w.task, heap[p], Idle)
  BY <1>1, SameHeap, IdleFits
<1>3. mem' = [mem EXCEPT ![p] = CachePut(mem[p], w.data.id, w.obj)]
  BY <1>1 DEF IInv, TypeOK, AccessorTypeOK
<1>. QED
  BY <1>1, <1>2, <1>3, PortalTaskStep

(* The second one answered: the cookie is given.                           *)
LEMMA OpenedStep ==
    ASSUME IInv, NEW w \in writes, Opened(w), UNCHANGED granted
    PROVE  IInv'
<1>1. w.data.id \in Id
  BY PendingFits DEF Opened, IInv, PcOK
<1>2. HistoryOK'
  BY <1>1 DEF Opened, HistoryOK, IInv, TypeOK
<1>. QED
  BY <1>2, SavedStep DEF Opened

(* The update of a logout or of a password change answered.                *)
LEMMA SaveStep ==
    ASSUME IInv, NEW w \in writes, Saved(w), UNCHANGED granted
    PROVE  IInv'
<1>1. HistoryOK'
  BY ReportOK DEF Saved, HistoryOK, IInv, TypeOK
<1>. QED
  BY <1>1, SavedStep DEF Saved

(* An update of the portal failed.                                         *)
LEMMA SaveFailsStep ==
    ASSUME IInv, NEW w \in writes, SaveFails(w), UNCHANGED granted
    PROVE  IInv'
<1>. DEFINE p == w.task[1]
<1>1. HistoryOK'
  BY ReportOK DEF SaveFails, HistoryOK, IInv, TypeOK
<1>2. w.task \in Task /\ p \in Proc
  BY PendingFits DEF SaveFails
<1>3. SameIds(p, heap[p]) /\ TaskFits(w.task, heap[p], Idle)
  BY <1>2, SameHeap, IdleFits
<1>. QED
  BY <1>1, <1>2, <1>3, PortalTaskStep DEF SaveFails

(* A request is given its session, or ends.                                *)
LEMMA LoadedFits ==
    ASSUME NEW t \in Task,
           NEW k \in {"none", "access", "menu", "login", "logout", "password"},
           NEW i \in Id, NEW o, NEW s, NEW cells, Fits(cells, o, i),
           Loaded(t, k, i, o, s)
    PROVE  \E r : TaskFits(t, cells, r) /\ task' = [task EXCEPT ![t] = r]
<1>1. TaskFits(t, cells, Idle)
  BY IdleFits
<1>2. TaskFits(t, cells, [Idle EXCEPT !.kind = k, !.pc = "loaded", !.id = i,
                                      !.ref = o])
  BY ZenonT(60), HoldingFits
<1>. QED
  BY <1>1, <1>2 DEF Loaded

(* The middleware finds the session in the memory.                         *)
LEMMA EnterFromMemoryStep ==
    ASSUME IInv, NEW t \in Task, NEW k \in Requests, NEW i \in Id,
           EnterFromMemory(t, k, i), UNCHANGED granted
    PROVE  IInv'
<1>. DEFINE p == t[1]
            o == mem[p][i].obj
<1>1. p \in Proc
  BY DEF Task
<1>2. Fits(heap[p], o, i)
  BY <1>1 DEF EnterFromMemory, Cached, IInv, Own, MemOwn, Good, Fits
<1>3. \E r : TaskFits(t, heap[p], r) /\ task' = [task EXCEPT ![t] = r]
  BY <1>2, LoadedFits, SwitchesAssumption DEF EnterFromMemory
<1>4. SameIds(p, heap[p])
  BY <1>1, SameHeap
<1>5. HistoryOK'
  BY DEF EnterFromMemory, HistoryOK, IInv, TypeOK
<1>. QED
  BY <1>3, <1>4, <1>5, PortalTaskStep DEF EnterFromMemory

(* The middleware asks the store.                                          *)
LEMMA EnterFromStoreStep ==
    ASSUME IInv, NEW t \in Task, NEW k \in Requests, NEW i \in Id,
           EnterFromStore(t, k, i), UNCHANGED granted
    PROVE  IInv'
<1>1. k \in {"access", "menu", "logout", "password"}
  BY SwitchesAssumption
<1>2. TaskFits(t, heap[t[1]], Getting(k, "get", i))
  BY <1>1, GettingFits
<1>3. HistoryOK'
  BY DEF EnterFromStore, HistoryOK, IInv, TypeOK
<1>. QED
  BY <1>2, <1>3, TaskOnlyStep DEF EnterFromStore

(* The store answered with a session: it becomes an object of the process. *)
LEMMA AnswerFits ==
    ASSUME IInv, NEW t \in Task, Answered(t), task[t].ans # NoSession
    PROVE  /\ t[1] \in Proc /\ task[t].id \in Id
           /\ task[t].ans \in Session /\ task[t].ans.id = task[t].id
<1>1. task[t] \in TaskState /\ t[1] \in Proc
  BY DEF IInv, TypeOK, AccessorTypeOK, Task
<1>. QED
  BY <1>1 DEF Answered, InGet, TaskState, IInv, PcOK, Own, AnsOwn

(* The store answered the middleware.                                      *)
LEMMA GotSessionStep ==
    ASSUME IInv, NEW t \in Task, GotSession(t), UNCHANGED granted
    PROVE  IInv'
<1>. DEFINE p == t[1]
            i == task[t].id
            o == NewObj(p)
            s == task[t].ans
            k == task[t].kind
            cells == [heap[p] EXCEPT ![o] = s]
<1>1. HistoryOK'
  BY DEF GotSession, HistoryOK, IInv, TypeOK
<1>2. UNCHANGED <<clock, store, last, ready, writes>> /\ Answered(t)
  BY DEF GotSession
<1>3. CASE s = NoSession
  <2>1. TaskFits(t, heap[p], Idle)
    BY IdleFits
  <2>2. task' = [task EXCEPT ![t] = Idle] /\ UNCHANGED <<heap, mem>>
    BY <1>3 DEF GotSession
  <2>. QED
    BY <1>1, <1>2, <2>1, <2>2, TaskOnlyStep
<1>4. CASE s # NoSession
  <2>1. p \in Proc /\ i \in Id /\ s \in Session /\ s.id = i
    BY <1>2, <1>4, AnswerFits
  <2>2. k \in {"none", "access", "menu", "login", "logout", "password"}
    BY DEF IInv, TypeOK, AccessorTypeOK, TaskState
  <2>3. /\ CanAllocate(p)
        /\ Loaded(t, k, i, o, s)
        /\ mem' = [mem EXCEPT ![p] = CachePut(mem[p], i, o)]
        /\ Collect(p, cells)
    BY <1>4 DEF GotSession, IInv, TypeOK, AccessorTypeOK
  <2>4. SameIds(p, cells) /\ Fits(cells, o, i)
    BY <2>1, <2>3, NewCell
  <2>. HIDE DEF cells, o
  <2>5. \E r : TaskFits(t, cells, r) /\ task' = [task EXCEPT ![t] = r]
    BY <2>1, <2>2, <2>3, <2>4, LoadedFits
  <2>. QED
    BY <1>1, <1>2, <2>1, <2>3, <2>4, <2>5, PortalTaskStep
<1>. QED
  BY <1>3, <1>4

(* deleteSession marks the object o of session i as expired and writes it. *)
LEMMA MarkExpiredStep ==
    ASSUME IInv, NEW t \in Task, NEW i \in Id, NEW o, NEW s \in Session,
           s.id = i, NEW cells,
           SameIds(t[1], [cells EXCEPT ![o] = [s EXCEPT !.utime = 0]]),
           Fits([cells EXCEPT ![o] = [s EXCEPT !.utime = 0]], o, i),
           MarkExpired(t, i, o, s, cells),
           \/ mem' = mem
           \/ mem' = [mem EXCEPT ![t[1]] = CachePut(mem[t[1]], i, o)],
           UNCHANGED <<clock, store, last, ready, born, cookie, loggedOut, granted>>
    PROVE  IInv'
<1>. DEFINE dead == [s EXCEPT !.utime = 0]
            now == [cells EXCEPT ![o] = dead]
            r == [Idle EXCEPT !.kind = "logout", !.pc = "save", !.id = i,
                              !.ref = o]
<1>1. dead \in Session /\ dead.id = i
  BY DEF Session, Time
<1>2. /\ task' = [task EXCEPT ![t] = r]
      /\ writes' = writes \cup {UpdateCall(t, o, dead)}
      /\ Collect(t[1], now)
  BY DEF MarkExpired
<1>3. SameIds(t[1], now) /\ Fits(now, o, i)
  OBVIOUS
<1>. HIDE DEF now, dead
<1>4. TaskFits(t, now, r)
  BY ZenonT(60), <1>3, HoldingFits
<1>5. WriteFits(t[1], now, UpdateCall(t, o, dead))
  BY <1>1, <1>3, CallFits
<1>6. HistoryOK'
  BY DEF HistoryOK, IInv, TypeOK
<1>7. \A w \in writes' : w \in writes \/ WriteFits(t[1], now, w)
  BY <1>2, <1>5
<1>8. \/ mem' = mem
      \/ \E j \in Id : \E x :
                Fits(now, x, j) /\ mem' = [mem EXCEPT ![t[1]] = CachePut(@, j, x)]
  BY <1>3
<1>. HIDE DEF r
<1>. QED
  BY <1>2, <1>3, <1>4, <1>6, <1>7, <1>8, PortalTaskStep

(* deleteSession finds the session in the memory.                          *)
LEMMA DeleteFromMemoryStep ==
    ASSUME IInv, NEW t \in Task, DeleteFromMemory(t), UNCHANGED granted
    PROVE  IInv'
<1>. DEFINE p == t[1]
            i == task[t].id
            o == mem[p][i].obj
            s == heap[p][o]
            dead == [s EXCEPT !.utime = 0]
<1>1. p \in Proc /\ i \in Id
  BY SMTT(30) DEF Task, DeleteFromMemory, IInv, PcOK
<1>2. Good(heap, p, o, i)
  BY <1>1 DEF DeleteFromMemory, Cached, IInv, Own, MemOwn
<1>3. s \in Session /\ s.id = i
  BY SMTT(30), <1>2 DEF Good
<1>4. dead \in Session /\ dead.id = i
  BY ZenonT(60), <1>3 DEF Session, Time
<1>5. SameIds(p, [heap[p] EXCEPT ![o] = dead])
        /\ Fits([heap[p] EXCEPT ![o] = dead], o, i)
  BY <1>1, <1>2, <1>4, ChangedCell
<1>. QED
  BY <1>1, <1>3, <1>5, MarkExpiredStep DEF DeleteFromMemory

(* deleteSession asks the store.                                           *)
LEMMA DeleteFromStoreStep ==
    ASSUME IInv, NEW t \in Task, DeleteFromStore(t), UNCHANGED granted
    PROVE  IInv'
<1>1. t[1] \in Proc /\ task[t].id \in Id
  BY DEF Task, DeleteFromStore, IInv, PcOK
<1>2. TaskFits(t, heap[t[1]], Getting("logout", "delete", task[t].id))
  BY <1>1, GettingFits
<1>3. SameIds(t[1], heap[t[1]])
  BY <1>1, SameHeap
<1>4. HistoryOK'
  BY DEF DeleteFromStore, HistoryOK, IInv, TypeOK
<1>. QED
  BY <1>2, <1>3, <1>4, PortalTaskStep DEF DeleteFromStore

(* The store answered deleteSession.                                       *)
LEMMA GotForDeleteStep ==
    ASSUME IInv, NEW t \in Task, GotForDelete(t), UNCHANGED granted
    PROVE  IInv'
<1>. DEFINE p == t[1]
            i == task[t].id
            o == NewObj(p)
            s == task[t].ans
            dead == [s EXCEPT !.utime = 0]
<1>1. p \in Proc /\ i \in Id /\ s \in Session /\ s.id = i
  BY AnswerFits DEF GotForDelete
<1>2. dead \in Session /\ dead.id = i
  BY <1>1 DEF Session, Time
<1>3. SameIds(p, [heap[p] EXCEPT ![o] = dead])
        /\ Fits([heap[p] EXCEPT ![o] = dead], o, i)
  BY <1>1, <1>2, NewCell DEF GotForDelete
<1>4. mem' = [mem EXCEPT ![p] = CachePut(mem[p], i, o)]
  BY DEF GotForDelete, IInv, TypeOK, AccessorTypeOK
<1>. QED
  BY <1>1, <1>3, <1>4, MarkExpiredStep DEF GotForDelete

(* deleteSession finds no session.                                         *)
LEMMA NothingToDeleteStep ==
    ASSUME IInv, NEW t \in Task, NothingToDelete(t), UNCHANGED granted
    PROVE  IInv'
<1>1. TaskFits(t, heap[t[1]], Idle)
  BY IdleFits
<1>2. HistoryOK'
  BY ReportOK DEF NothingToDelete, HistoryOK, IInv, TypeOK
<1>. QED
  BY <1>1, <1>2, TaskOnlyStep DEF NothingToDelete

(* The password module accepted the new password.                          *)
LEMMA PasswordChangedStep ==
    ASSUME IInv, NEW t \in Task, PasswordChanged(t), UNCHANGED granted
    PROVE  IInv'
<1>. DEFINE p == t[1]
            i == task[t].id
            o == task[t].ref
            s == [heap[p][o] EXCEPT !.data = "full", !.lastSeen = clock]
            cells == [heap[p] EXCEPT ![o] = s]
            r == [task[t] EXCEPT !.pc = "save"]
<1>1. /\ p \in Proc /\ i \in Id /\ clock \in Time
      /\ Good(heap, p, o, i)
      /\ task[t] \in TaskState /\ o # NoRef
      /\ task[t].ans \in Session => task[t].ans.id = i
  BY DEF Task, PasswordChanged, IInv, TypeOK, AccessorTypeOK, PcOK, Own, RefOwn,
         AnsOwn
<1>2. s \in Session /\ s.id = i
  BY <1>1 DEF Good, Session
<1>3. /\ task' = [task EXCEPT ![t] = r]
      /\ writes' = writes \cup {UpdateCall(t, o, s)}
      /\ Collect(p, cells)
      /\ UNCHANGED <<clock, store, mem, last, ready>>
  BY DEF PasswordChanged
<1>. HIDE DEF s
<1>4. SameIds(p, cells) /\ Fits(cells, o, i)
  BY <1>1, <1>2, ChangedCell
<1>. HIDE DEF cells
<1>5. TaskFits(t, cells, r)
  BY <1>1 DEF TaskFits, TaskState
<1>6. WriteFits(p, cells, UpdateCall(t, o, s))
  BY <1>2, <1>4, CallFits
<1>7. HistoryOK'
  BY DEF PasswordChanged, HistoryOK, IInv, TypeOK
<1>. QED
  BY <1>3, <1>4, <1>5, <1>6, <1>7, PortalTaskStep

(* The password module refused, or nothing had to be written.              *)
LEMMA PasswordDoneStep ==
    ASSUME IInv, NEW t \in Task, PasswordDone(t), UNCHANGED granted
    PROVE  IInv'
<1>1. t[1] \in Proc
  BY DEF Task
<1>2. SameIds(t[1], heap[t[1]]) /\ TaskFits(t, heap[t[1]], Idle)
  BY <1>1, SameHeap, IdleFits
<1>3. HistoryOK'
  BY DEF PasswordDone, HistoryOK, IInv, TypeOK
<1>. QED
  BY <1>2, <1>3, PortalTaskStep DEF PasswordDone

(* A step of the portal keeps the invariant.                               *)
LEMMA PortalStep ==
    ASSUME IInv, PortalNext, UNCHANGED granted
    PROVE  IInv'
<1>1. /\ cookie \in SUBSET Id
      /\ \A p \in Portals, s \in Slots : <<p, s>> \in Task
  BY DEF IInv, TypeOK, Proc, Task
<1>2. ASSUME NEW t \in Task, NEW i \in Id, Login(t, i)
      PROVE  IInv'
  BY <1>2, LoginStep
<1>3. ASSUME NEW t \in Task, NEW k \in Requests, NEW i \in Id,
             EnterFromMemory(t, k, i) \/ EnterFromStore(t, k, i)
      PROVE  IInv'
  BY <1>3, EnterFromMemoryStep, EnterFromStoreStep
<1>4. ASSUME NEW t \in Task,
             \/ GotSession(t)
             \/ PasswordChanged(t)
             \/ PasswordDone(t)
      PROVE  IInv'
  BY <1>4, GotSessionStep, PasswordChangedStep, PasswordDoneStep
<1>5. ASSUME NEW t \in Task,
             \/ DeleteFromMemory(t)
             \/ DeleteFromStore(t)
             \/ GotForDelete(t)
             \/ NothingToDelete(t)
      PROVE  IInv'
  BY <1>5, DeleteFromMemoryStep, DeleteFromStoreStep, GotForDeleteStep,
     NothingToDeleteStep
<1>6. ASSUME NEW w \in writes,
             Created(w) \/ Opened(w) \/ Saved(w) \/ SaveFails(w)
      PROVE  IInv'
  BY <1>6, CreatedStep, OpenedStep, SaveStep, SaveFailsStep
<1>. QED
  BY <1>1, <1>2, <1>3, <1>4, <1>5, <1>6 DEF PortalNext

-----------------------------------------------------------------------------
(* The steps of the store, and what happens to every process *)

(* The store reads or writes a row, or fails.                              *)
LEMMA StoreStep ==
    ASSUME IInv, StoreNext, UNCHANGED <<cookie, granted, born, loggedOut>>
    PROVE  IInv'
<1>. USE NamesAssumption
<1>0. /\ store \in [Id -> Session \cup {NoSession}] /\ StoreOwn
      /\ ready \in [Proc -> BOOLEAN] /\ task \in [Task -> TaskState]
      /\ HistoryOK'
  BY DEF IInv, TypeOK, AccessorTypeOK, Own, HistoryOK
<1>1. ASSUME NEW t \in Task, BackendGet(t) \/ BackendGetFails(t)
      PROVE  IInv'
  <2>1. PICK a \in {store[task[t].id], NoSession} :
          task' = [task EXCEPT ![t].ans = a]
    BY <1>1 DEF BackendGet, BackendGetFails
  <2>2. /\ UNCHANGED <<clock, store, heap, mem, last, ready, writes>>
        /\ InGet(t)
    BY <1>1 DEF BackendGet, BackendGetFails
  <2>3. /\ task[t] \in TaskState /\ task[t].id \in Id
        /\ task[t].pc \notin {"loaded", "create", "info", "save"}
    BY <2>2 DEF InGet, IInv, TypeOK, AccessorTypeOK, PcOK
  <2>4. /\ a \in Session \cup {NoSession}
        /\ a \in Session => a.id = task[t].id
    BY <1>0, <2>3 DEF StoreOwn
  <2>5. TaskFits(t, heap[t[1]], [task[t] EXCEPT !.ans = a])
    BY <2>3, <2>4 DEF TaskFits, TaskState
  <2>6. task' = [task EXCEPT ![t] = [task[t] EXCEPT !.ans = a]]
    BY <1>0, <2>1
  <2>. QED
    BY <1>0, <2>2, <2>5, <2>6, TaskOnlyStep
<1>2. ASSUME NEW w \in writes, BackendUpdate(w)
      PROVE  IInv'
  <2>1. w \in Write
    BY DEF IInv, TypeOK, AccessorTypeOK
  <2>2. w.data \in Session /\ w.data.id \in Id
    BY <2>1 DEF Write, Session
  <2>3. /\ store' \in [Id -> Session \cup {NoSession}]
        /\ StoreOwn'
    BY <1>0, <1>2, <2>2 DEF BackendUpdate, FileWrite, SqlWrite, StoreOwn
  <2>4. ASSUME w.obj # NoRef
        PROVE  WriteFits(w.task[1], heap[w.task[1]], [w EXCEPT !.applied = TRUE])
    BY <2>1, <2>4 DEF WriteFits, Write
  <2>5. \A v \in writes' : v \in writes \/ WriteFits(v.task[1], heap[v.task[1]], v)
    BY <1>2, <2>1, <2>4 DEF BackendUpdate, Write
  <2>6. UNCHANGED <<clock, heap, mem, last, ready, task>>
    BY <1>2 DEF BackendUpdate
  <2>. QED
    BY <1>0, <2>3, <2>5, <2>6, QuietStep
<1>. QED
  BY <1>1, <1>2 DEF StoreNext

(* A full cache pushes an entry out, or a process is restarted.            *)
LEMMA AnyProcessStep ==
    ASSUME IInv, ProcessNext, UNCHANGED <<cookie, granted, born, loggedOut>>
    PROVE  IInv'
<1>1. HistoryOK'
  BY DEF HistoryOK, IInv, TypeOK
<1>2. ASSUME NEW p \in Proc, NEW i \in Id, Evict(p, i)
      PROVE  IInv'
  <2>1. SameIds(p, heap[p]) /\ CacheFits(p, heap[p], CacheDrop(mem[p], i))
          /\ LastFits(p, heap[p], last[p])
    BY SameHeap, SameCache, DropFits
  <2>2. /\ mem' = [mem EXCEPT ![p] = CacheDrop(mem[p], i)]
        /\ last' = [last EXCEPT ![p] = last[p]]
        /\ UNCHANGED <<clock, store, ready, task, writes>>
        /\ Collect(p, heap[p])
    BY <1>2 DEF Evict, IInv, TypeOK, AccessorTypeOK
  <2>. QED
    BY <1>1, <2>1, <2>2, CacheStep
<1>3. ASSUME NEW p \in Proc, Crash(p)
      PROVE  IInv'
  BY <1>1, <1>3, RestartStep DEF Crash
<1>. QED
  BY <1>2, <1>3 DEF ProcessNext

(* Time passes: entries leave the caches, nothing comes.                   *)
LEMMA TickStep ==
    ASSUME IInv, Tick, UNCHANGED <<cookie, granted, born, loggedOut>>
    PROVE  IInv'
<1>. USE NamesAssumption
<1>0. TypeOK /\ Own /\ PcOK
  BY DEF IInv
<1>1. /\ heap \in [Proc -> Cells] /\ mem \in [Proc -> Cache]
      /\ clock' \in Time
  BY <1>0, TimesAssumption
  DEF TypeOK, AccessorTypeOK, Cells, Cache, Entry, Tick, Time
<1>2. heap' \in [Proc -> Cells] /\ mem' \in [Proc -> Cache]
  BY <1>1 DEF Tick, KeepHeld, Cells, Cache, NoEntry, Entry, Time
<1>3. TypeOK'
  BY <1>0, <1>1, <1>2
  DEF Tick, TypeOK, AccessorTypeOK, Cells, Cache, Entry
<1>4. HeapStep
  BY <1>1 DEF HeapStep, Tick, KeepHeld
<1>5. MemStep
  BY DEF MemStep, Tick, NoEntry
<1>6. LastStep /\ RefStep /\ WriteStep
  BY DEF LastStep, RefStep, WriteStep, Tick
<1>7. StoreOwn' /\ AnsOwn' /\ PcOK'
  BY <1>0 DEF Own, StoreOwn, AnsOwn, PcOK, Tick
<1>. QED
  BY <1>0, <1>3, <1>4, <1>5, <1>6, <1>7, OwnStep DEF IInv

-----------------------------------------------------------------------------
(* The theorems *)

(* The initial states satisfy the invariant.                               *)
LEMMA InitInv == Init => IInv
<1>. SUFFICES ASSUME Init PROVE IInv
  OBVIOUS
<1>. USE NamesAssumption
<1>1. TypeOK
  BY TimesAssumption
  DEF Init, AccessorInit, TypeOK, AccessorTypeOK, Start, Time, NoCells,
      EmptyCache, NoEntry, NoLast, Idle, TaskState
<1>2. Own
  BY DEF Init, AccessorInit, Own, StoreOwn, MemOwn, LastOwn, RefOwn, AnsOwn,
         WriteOwn, EmptyCache, NoEntry, NoLast, Idle
<1>3. PcOK
  BY DEF Init, AccessorInit, PcOK, Idle
<1>. QED
  BY <1>1, <1>2, <1>3 DEF IInv

(* Every step keeps it.                                                    *)
LEMMA NextInv == IInv /\ [Next]_vars => IInv'
<1>. SUFFICES ASSUME IInv, [Next]_vars PROVE IInv'
  OBVIOUS
<1>1. CASE Next
  BY <1>1, HandlerStep, PortalStep, StoreStep, AnyProcessStep, TickStep DEF Next
<1>2. CASE UNCHANGED vars
  BY <1>2 DEF vars, accessorVars, IInv, TypeOK, AccessorTypeOK, Own, StoreOwn,
              MemOwn, LastOwn, RefOwn, AnsOwn, WriteOwn, Good, PcOK
<1>. QED
  BY <1>1, <1>2

(* Type correctness: every variable keeps its type, for all processes,     *)
(* sessions, kinds of requests, delays and faults.                         *)
THEOREM TypeCorrect == Spec => []TypeOK
<1>1. IInv => TypeOK
  BY DEF IInv
<1>. QED
  BY <1>1, InitInv, NextInv, PTL DEF Spec

(* A session reaches nobody else: whatever the order in which requests,    *)
(* answers, reloads, restarts and evictions happen, what the accessor's    *)
(* cache, the handler's one-entry cache or a request holds under an id is  *)
(* the session of that id.                                                 *)
THEOREM SessionsStayApart == Spec => []OwnSession
<1>1. IInv => OwnSession
  BY DEF IInv, Own, MemOwn, LastOwn, RefOwn, AnsOwn, Good, OwnSession
<1>. QED
  BY <1>1, InitInv, NextInv, PTL DEF Spec

-----------------------------------------------------------------------------
(* Sessions, updates and caches: the invariants *)

(* A record is one of a session that was created, with the time of its     *)
(* creation unless a logout marked it.                                     *)
Sound(r) ==
    r \in Session => born[r.id] # 0 /\ r.utime \in {0, born[r.id]}

RecordsSound ==
    /\ \A i \in Id : Sound(store[i])
    /\ \A p \in Proc, o \in Obj : Sound(heap[p][o])
    /\ \A t \in Task : Sound(task[t].ans)
    /\ \A w \in writes : Sound(w.data)

TimesSound ==
    /\ Start <= clock
    /\ \A i \in Id : born[i] <= clock
    /\ \A p \in Proc :
         last[p].obj # NoRef => last[p].time <= born[last[p].id] + Timeout
    /\ \A t \in Task : InGet(t) =>
         /\ Start <= task[t].since
         /\ task[t].since <= clock
         /\ clock <= task[t].since + Latency

TasksSound ==
    \A t \in Task :
      /\ task[t].id \in Id => born[task[t].id] # 0
      /\ task[t].pc \in {"get", "loaded", "delete", "save"} => task[t].id \in cookie
      /\ task[t].kind = "logout" => task[t].id \in cookie
      /\ task[t].pc = "delete" => task[t].kind = "logout"
      /\ ~InGet(t) => task[t].ans = NoSession
      /\ t[1] \in Handlers => task[t].pc \in {"idle", "get"}

WritesSound ==
    \A w \in writes :
      /\ w.task[1] \in Handlers => w.data.id \in cookie
      /\ w.task[1] \in Portals /\ w.obj # NoRef =>
           /\ task[w.task].pc \in {"create", "info", "save"}
           /\ task[w.task].id = w.data.id
           /\ task[w.task].ref = w.obj
           /\ \A v \in writes : v.task = w.task /\ v.obj # NoRef => v = w

LifeInv ==
    /\ \A i \in cookie : born[i] # 0
    /\ RecordsSound /\ TimesSound /\ TasksSound /\ WritesSound

LoggingIn(t) == task[t].pc \in {"create", "info"}

LoginsApart ==
    \A t \in Task : LoggingIn(t) =>
      /\ task[t].id \notin cookie
      /\ \A u \in Task : u # t => task[u].id # task[t].id
      /\ \A w \in writes :
           w.data.id = task[t].id => w.task = t /\ w.obj # NoRef
      /\ \A p \in Proc, o \in Obj :
           heap[p][o] \in Session /\ heap[p][o].id = task[t].id
             => p = t[1] /\ o = task[t].ref

Filled(i) ==
    i \in cookie \/ \E t \in Task : task[t].pc = "info" /\ task[t].id = i

DataFilled ==
    /\ \A p \in Proc, o \in Obj :
         heap[p][o] \in Session /\ Filled(heap[p][o].id) => heap[p][o].data # "new"
    /\ \A t \in Task : task[t].ans \in Session => task[t].ans.data # "new"
    /\ \A w \in writes : Filled(w.data.id) => w.data.data # "new"

StoredInv ==
    /\ \A i \in cookie : store[i] \in Session /\ store[i].data # "new"
    /\ \A w \in writes :
         w.applied /\ Filled(w.data.id)
           => store[w.data.id] \in Session /\ store[w.data.id].data # "new"

OpenInv == LoginsApart /\ DataFilled /\ StoredInv

LogoutsLast ==
    /\ UpdateInserts
    /\ ~Faulty
    /\ TimeoutActivity = 0
    /\ "password" \notin Requests

ExpireInv ==
    /\ \A w \in writes : w.task[1] \in Portals
    /\ \A w \in writes : w.data.id \in cookie => w.data.utime = 0
    /\ \A w \in writes :
         w.applied /\ w.data.id \in cookie => store[w.data.id].utime = 0
    /\ \A i \in Id : loggedOut[i] # 0 => i \in cookie /\ store[i].utime = 0
    /\ \A t \in Task : InGet(t) => task[t].ans # NoSession
    /\ \A t \in Task : task[t].kind # "password"

MemTimes ==
    \A h \in Handlers, i \in Id :
      mem[h][i].obj # NoRef =>
        clock < mem[h][i].until /\ mem[h][i].until <= clock + MemTime

WindowInv ==
    /\ \A i \in Id : loggedOut[i] <= clock
    /\ \A h \in Handlers : last[h].obj # NoRef =>
         /\ last[h].time <= clock
         /\ loggedOut[last[h].id] # 0
              => last[h].time <= loggedOut[last[h].id] + Latency + MemTime - 1
    /\ \A h \in Handlers, i \in Id :
         mem[h][i].obj # NoRef /\ loggedOut[i] # 0 /\ heap[h][mem[h][i].obj].utime # 0
           => mem[h][i].until <= loggedOut[i] + Latency + MemTime
    /\ \A t \in Task :
         (/\ t[1] \in Handlers /\ InGet(t) /\ task[t].ans \in Session
          /\ task[t].ans.utime # 0 /\ loggedOut[task[t].id] # 0)
           => task[t].since <= loggedOut[task[t].id]

NoLogouts ==
    "logout" \notin Requests =>
    /\ \A i \in Id : loggedOut[i] = 0
    /\ \A t \in Task : task[t].kind # "logout"

-----------------------------------------------------------------------------
(* What a step does to records, requests, updates and caches *)

(* s is r, written again: its attributes may be filled, it may be marked.  *)
Touched(r, s) ==
    /\ r \in Session /\ s \in Session
    /\ s.id = r.id
    /\ s.utime \in {r.utime, 0}
    /\ s.data = "new" => r.data = "new"

(* s comes from the object o of process p, or from an answer to p.         *)
ComesFrom(p, o, s) ==
    \/ Touched(heap[p][o], s)
    \/ \E t \in Task : t[1] = p /\ InGet(t) /\ Touched(task[t].ans, s)

CellsFrom(p, cells) ==
    \A o \in Obj : cells[o] \in Session => ComesFrom(p, o, cells[o])

HeapEffect == \A p \in Proc : CellsFrom(p, heap'[p])

(* A request that waits for the store, or has its session, for an id whose *)
(* cookie was given.                                                       *)
GoesOn(t) ==
    /\ task[t].pc \notin {"create", "info", "save"}
    /\ task'[t].id \in cookie
    /\ task'[t].pc \in {"get", "loaded", "delete", "save"}
    /\ t[1] \in Handlers => task'[t].pc = "get"
    /\ task'[t].kind \in Requests \cup {"access", task[t].kind}
    /\ task'[t].pc = "delete" => task'[t].kind = "logout"
    /\ ~InGet(t)' => task'[t].ans = NoSession
    /\ InGet(t)' =>
         \/ task'[t].ans = Waiting /\ task'[t].since = clock
         \/ /\ InGet(t)
            /\ task'[t].id = task[t].id
            /\ task'[t].since = task[t].since
            /\ \/ task'[t].ans \in {task[t].ans, store[task[t].id]}
               \/ Faulty /\ task'[t].ans = NoSession

TaskEffect ==
    \A t \in Task : task'[t] = task[t] \/ task'[t] = Idle \/ GoesOn(t)

(* w is the update v, perhaps of a process that is gone.                   *)
Remains(v, w) ==
    /\ w.task = v.task
    /\ w.data = v.data
    /\ w.applied = v.applied
    /\ w.obj \in {v.obj, NoRef}
    /\ w.obj = NoRef => v.obj = NoRef \/ task'[v.task] = Idle
    /\ v.task[1] \in Portals /\ w.obj # NoRef
         => w = v /\ task'[v.task] = task[v.task]

(* A call of update() for an object of the process.                        *)
Called(c) ==
    /\ c \in Write
    /\ ~c.applied
    /\ c.obj # NoRef
    /\ c.data.id \in cookie
    /\ ComesFrom(c.task[1], c.obj, c.data)
    /\ c.task[1] \in Handlers => TimeoutActivity # 0
    /\ c.task[1] \in Portals =>
         /\ task[c.task].pc \notin {"create", "info", "save"}
         /\ task'[c.task].pc = "save"
         /\ task'[c.task].id = c.data.id
         /\ task'[c.task].ref = c.obj
         /\ c.data.utime = 0 \/ task[c.task].kind = "password"

WriteEffect ==
    /\ \A w \in writes' : (\E v \in writes : Remains(v, w)) \/ Called(w)
    /\ \A v, w \in writes' : v \notin writes /\ w \notin writes /\ v.task = w.task
                              /\ v.task[1] \in Portals /\ v.obj # NoRef /\ w.obj # NoRef => v = w

(* A step that begins no login, ends none and writes nothing in the store. *)
Ordinary ==
    /\ UNCHANGED <<store, born, cookie>>
    /\ HeapEffect /\ TaskEffect /\ WriteEffect

(* A handler accepted the session of e.id at e.time.                       *)
Accepted(h, e) ==
    /\ h \in Handlers
    /\ e.id \in Id
    /\ \/ /\ mem[h][e.id].obj # NoRef
          /\ e.time = clock
          /\ e.time - heap[h][mem[h][e.id].obj].utime <= Timeout
       \/ \E t \in Task :
            /\ t[1] = h /\ InGet(t) /\ task[t].id = e.id
            /\ task[t].ans \in Session
            /\ e.time = task[t].since
            /\ e.time - task[t].ans.utime <= Timeout

LastEffect ==
    \A p \in Proc :
      \/ last'[p].obj = NoRef
      \/ last'[p] = last[p]
      \/ Accepted(p, last'[p])

(* An entry of the accessor's memory is new when its object was written or *)
(* read from the store.                                                    *)
MemEffect ==
    \A p \in Proc, i \in Id :
      \/ mem'[p][i].obj = NoRef
      \/ mem'[p][i] = mem[p][i]
      \/ /\ mem'[p][i].until = clock + MemTime
         /\ p \in Handlers =>
              \/ \E w \in writes : w.task[1] \in Handlers
              \/ \E t \in Task :
                   /\ t[1] = p /\ InGet(t) /\ task[t].id = i
                   /\ task[t].ans \in Session
                   /\ heap'[p][mem'[p][i].obj].utime = task[t].ans.utime

(* Handlers change no birth in an object that is held.                     *)
BirthsKept ==
    \A h \in Handlers, o \in Obj :
      o \in Held(h) /\ o \in Held(h)' => heap'[h][o].utime = heap[h][o].utime

GrantEffect ==
    \/ granted' = granted
    \/ \E h \in Handlers, e \in [id : cookie, time : Time] :
         /\ \/ /\ last[h].obj # NoRef
               /\ e = [id |-> last[h].id, time |-> last[h].time]
               /\ clock - e.time < Internal
            \/ Accepted(h, e)
         /\ granted' = [granted EXCEPT ![e.id] = clock]

CacheEffect == LastEffect /\ MemEffect /\ BirthsKept

(* Why a logout was answered.                                              *)
ReportEffect ==
    \/ loggedOut' = loggedOut
    \/ \E i \in cookie, t \in Task :
         /\ Report(i)
         /\ task[t].kind = "logout"
         /\ \/ Faulty
            \/ InGet(t) /\ task[t].ans = NoSession
            \/ \E w \in writes : w.applied /\ w.data.id = i

Effect ==
    /\ UNCHANGED clock
    /\ UNCHANGED granted \/ UNCHANGED loggedOut
    /\ Ordinary /\ CacheEffect /\ GrantEffect /\ ReportEffect

-----------------------------------------------------------------------------
(* Callbacks of a process *)

(* Objects that are held have the births they had.                         *)
SameBirths(p, cells) ==
    p \in Handlers => \A o \in Obj : o \in Held(p) => cells[o].utime = heap[p][o].utime

(* The cache c has what it had, or less, and entries that are new.         *)
MemFrom(p, cells, c) ==
    \A j \in Id :
      \/ c[j].obj = NoRef
      \/ c[j] = mem[p][j]
      \/ /\ c[j].until = clock + MemTime
         /\ c[j].obj \in Obj
         /\ p \in Handlers =>
              \/ \E w \in writes : w.task[1] \in Handlers
              \/ \E t \in Task :
                   /\ t[1] = p /\ InGet(t) /\ task[t].id = j
                   /\ task[t].ans \in Session
                   /\ cells[c[j].obj].utime = task[t].ans.utime

LastFrom(p, e) == e.obj = NoRef \/ e = last[p] \/ Accepted(p, e)

(* Nothing changes in an object.                                           *)
LEMMA TouchedSame ==
    ASSUME NEW r \in Session
    PROVE  Touched(r, r)
BY DEF Touched

(* The objects as they are.                                                *)
LEMMA SameCells ==
    ASSUME IInv, NEW p \in Proc
    PROVE  /\ heap[p] \in Cells
           /\ CellsFrom(p, heap[p])
           /\ SameBirths(p, heap[p])
<1>1. heap[p] \in Cells
  BY DEF IInv, TypeOK, AccessorTypeOK, Cells
<1>2. CellsFrom(p, heap[p])
  BY TouchedSame DEF CellsFrom, ComesFrom
<1>. QED
  BY <1>1, <1>2 DEF SameBirths

(* The objects with the answer that a request got in a new one.            *)
LEMMA AnswerCells ==
    ASSUME IInv, NEW t \in Task, InGet(t), CanAllocate(t[1]),
           NEW s, Touched(task[t].ans, s)
    PROVE  LET p == t[1]
               o == NewObj(p)
               cells == [heap[p] EXCEPT ![o] = s]
           IN  /\ cells \in Cells
               /\ CellsFrom(p, cells)
               /\ SameBirths(p, cells)
               /\ o \in Obj /\ cells[o] = s
<1>. DEFINE p == t[1]
            o == NewObj(p)
            cells == [heap[p] EXCEPT ![o] = s]
<1>1. p \in Proc
  BY DEF Task
<1>2. heap[p] \in Cells /\ CellsFrom(p, heap[p])
  BY <1>1, SameCells
<1>3. o \in Obj /\ o \notin Held(p)
  BY NewObjIsFree
<1>4. s \in Session
  BY DEF Touched
<1>. HIDE DEF o
<1>5. cells \in Cells /\ cells[o] = s
  BY <1>2, <1>3, <1>4 DEF Cells
<1>6. ComesFrom(p, o, s)
  BY DEF ComesFrom
<1>7. CellsFrom(p, cells)
  BY <1>2, <1>3, <1>6 DEF CellsFrom, Cells
<1>8. SameBirths(p, cells)
  BY <1>2, <1>3 DEF SameBirths, Cells
<1>. QED
  BY <1>3, <1>5, <1>7, <1>8 DEF o

(* The objects with one that was changed.                                  *)
LEMMA TouchedCells ==
    ASSUME IInv, NEW p \in Proc, NEW o \in Obj, NEW s, Touched(heap[p][o], s),
           p \in Handlers => s.utime = heap[p][o].utime
    PROVE  /\ [heap[p] EXCEPT ![o] = s] \in Cells
           /\ CellsFrom(p, [heap[p] EXCEPT ![o] = s])
           /\ SameBirths(p, [heap[p] EXCEPT ![o] = s])
<1>1. heap[p] \in Cells /\ CellsFrom(p, heap[p])
  BY SameCells
<1>2. ComesFrom(p, o, s) /\ s \in Session
  BY DEF ComesFrom, Touched
<1>. QED
  BY <1>1, <1>2 DEF CellsFrom, SameBirths, Cells

(* What a callback of process p leaves behind.                             *)
LEMMA CallbackEffect ==
    ASSUME IInv, IInv', NEW p \in Proc,
           NEW cells \in Cells, CellsFrom(p, cells), SameBirths(p, cells),
           Collect(p, cells),
           NEW c, MemFrom(p, cells, c), mem' = [mem EXCEPT ![p] = c],
           NEW e, LastFrom(p, e), last' = [last EXCEPT ![p] = e]
    PROVE  HeapEffect /\ CacheEffect
<1>. USE NamesAssumption
<1>1. /\ heap \in [Proc -> Cells] /\ heap' \in [Proc -> Cells]
      /\ mem \in [Proc -> Cache] /\ last \in [Proc -> Last]
  BY DEF IInv, TypeOK, AccessorTypeOK, Cells, Cache, Entry, Last
<1>2. heap' = [heap EXCEPT ![p] = KeepHeld(p, cells)]
  BY DEF Collect
<1>3. \A o \in Obj : heap'[p][o] = IF o \in Held(p)' THEN cells[o] ELSE NoSession
  BY <1>1, <1>2 DEF KeepHeld
<1>4. \A q \in Proc : q # p => heap'[q] = heap[q]
  BY <1>1, <1>2
<1>5. HeapEffect
  <2>. SUFFICES ASSUME NEW q \in Proc
                PROVE  CellsFrom(q, heap'[q])
    BY DEF HeapEffect
  <2>1. CASE q = p
    BY <1>3, <2>1 DEF CellsFrom
  <2>2. CASE q # p
    BY <1>4, <2>2, SameCells
  <2>. QED
    BY <2>1, <2>2
<1>6. BirthsKept
  BY <1>3, <1>4 DEF BirthsKept, SameBirths, Proc
<1>7. LastEffect
  BY <1>1 DEF LastEffect, LastFrom
<1>8. MemEffect
  <2>. SUFFICES ASSUME NEW q \in Proc, NEW j \in Id,
                       mem'[q][j].obj # NoRef, mem'[q][j] # mem[q][j]
                PROVE  /\ mem'[q][j].until = clock + MemTime
                       /\ q \in Handlers =>
                            \/ \E w \in writes : w.task[1] \in Handlers
                            \/ \E t \in Task :
                                 /\ t[1] = q /\ InGet(t) /\ task[t].id = j
                                 /\ task[t].ans \in Session
                                 /\ heap'[q][mem'[q][j].obj].utime = task[t].ans.utime
    BY DEF MemEffect
  <2>1. q = p /\ mem'[q][j] = c[j]
    BY <1>1
  <2>2. mem'[p][j].obj \in Held(p)'
    BY HeldNext DEF IInv
  <2>3. c[j].obj \in Obj => heap'[p][c[j].obj] = cells[c[j].obj]
    BY <1>3, <2>1, <2>2
  <2>. QED
    BY <2>1, <2>3 DEF MemFrom
<1>. QED
  BY <1>5, <1>6, <1>7, <1>8 DEF CacheEffect

-----------------------------------------------------------------------------
(* The steps of the handler *)

(* No request changes, and the updates are those that were.                *)
LEMMA TaskStays ==
    ASSUME UNCHANGED task
    PROVE  TaskEffect
BY DEF TaskEffect

LEMMA WritesStay ==
    ASSUME UNCHANGED <<writes, task>>
    PROVE  WriteEffect
BY DEF WriteEffect, Remains

(* A request of a handler changes: the updates of portals are untouched.   *)
LEMMA HandlerTaskEffect ==
    ASSUME IInv, NEW t \in Task, t[1] \in Handlers,
           NEW r, r = Idle \/ r = task[t] \/ GoesOn(t),
           task' = [task EXCEPT ![t] = r],
           NEW c, writes' \subseteq writes \cup {c}, c \in writes' => c \in writes \/ Called(c)
    PROVE  TaskEffect /\ WriteEffect
<1>1. task \in [Task -> TaskState] /\ writes \in SUBSET Write
  BY DEF IInv, TypeOK, AccessorTypeOK
<1>2. \A u \in Task : u # t => task'[u] = task[u]
  BY <1>1
<1>3. TaskEffect
  BY <1>1, <1>2 DEF TaskEffect
<1>4. \A v \in writes : Remains(v, v)
  BY <1>1, <1>2, NamesAssumption DEF Remains, Write
<1>. QED
  BY <1>3, <1>4 DEF WriteEffect

(* The end of run().                                                       *)
LEMMA DecideEffect ==
    ASSUME IInv, NEW h \in Handlers, NEW cells \in Cells,
           NEW e \in Last, e.obj # NoRef, e.id \in cookie, cells[e.obj].id = e.id,
           \/ /\ last[h] = e
              /\ clock - e.time < Internal
           \/ Accepted(h, e),
           NEW c \in Cache, MemFrom(h, cells, c), Decide(h, e, cells, c)
    PROVE  /\ GrantEffect
           /\ \E c2 : MemFrom(h, cells, c2) /\ mem' = [mem EXCEPT ![h] = c2]
           /\ \E e2 : LastFrom(h, e2) /\ last' = [last EXCEPT ![h] = e2]
<1>1. LastFrom(h, e) /\ LastFrom(h, NoLast)
  BY DEF LastFrom, NoLast
<1>2. MemFrom(h, cells, CacheDrop(c, e.id))
  <2>. SUFFICES ASSUME NEW j \in Id
                PROVE  \/ CacheDrop(c, e.id)[j].obj = NoRef
                       \/ CacheDrop(c, e.id)[j] = c[j]
    BY DEF MemFrom
  <2>. QED
    BY DEF CacheDrop, NoEntry, Cache
<1>3. GrantEffect
  <2>1. CASE granted' = granted
    BY <2>1 DEF GrantEffect
  <2>2. CASE granted' = [granted EXCEPT ![e.id] = clock]
    <3>. DEFINE f == [id |-> e.id, time |-> e.time]
    <3>1. f \in [id : cookie, time : Time] /\ f.id = e.id /\ f.time = e.time
      BY DEF Last
    <3>2. Accepted(h, e) => Accepted(h, f)
      BY <3>1 DEF Accepted
    <3>. HIDE DEF f
    <3>3. last[h] = e => f = [id |-> last[h].id, time |-> last[h].time]
      BY DEF f
    <3>. QED
      BY <2>2, <3>1, <3>2, <3>3 DEF GrantEffect
  <2>. QED
    BY <2>1, <2>2 DEF Decide
<1>. QED
  BY <1>1, <1>2, <1>3 DEF Decide

(* Nobody is logged out by a handler, and births and cookies stay.         *)
HandlerKeeps == UNCHANGED <<clock, store, cookie, born, loggedOut>>

(* A callback of a handler that grants nothing and writes nothing.         *)
LEMMA HandlerCallback ==
    ASSUME IInv, IInv', NEW h \in Handlers,
           NEW cells \in Cells, CellsFrom(h, cells), SameBirths(h, cells),
           Collect(h, cells),
           NEW c, MemFrom(h, cells, c), mem' = [mem EXCEPT ![h] = c],
           NEW e, LastFrom(h, e), last' = [last EXCEPT ![h] = e],
           TaskEffect, WriteEffect, GrantEffect, HandlerKeeps
    PROVE  Effect
<1>1. h \in Proc
  BY DEF Proc
<1>2. HeapEffect /\ CacheEffect
  BY <1>1, CallbackEffect
<1>. QED
  BY <1>2 DEF Effect, Ordinary, ReportEffect, HandlerKeeps

(* The session that was found is served.                                   *)
LEMMA ServeEffect ==
    ASSUME IInv, IInv', NEW t \in Task, t[1] \in Handlers, NEW i \in cookie,
           NEW o, NEW now \in Time,
           NEW cells \in Cells, CellsFrom(t[1], cells), SameBirths(t[1], cells),
           Fits(cells, o, i),
           Accepted(t[1], [id |-> i, obj |-> o, time |-> now]),
           NEW c \in Cache, MemFrom(t[1], cells, c),
           Serve(t, i, o, now, cells, c),
           NEW r, r = Idle \/ r = task[t], task' = [task EXCEPT ![t] = r],
           HandlerKeeps
    PROVE  Effect
<1>. USE NamesAssumption
<1>. DEFINE h == t[1]
            due == RefreshDue(cells[o], now)
            seen == IF due THEN [cells EXCEPT ![o].lastSeen = now] ELSE cells
            e == [id |-> i, obj |-> o, time |-> now]
            call == UpdateCall(t, o, seen[o])
<1>1. i \in Id /\ o \in Obj /\ cells[o] \in Session /\ cells[o].id = i
  BY DEF Fits, IInv, TypeOK
<1>2. [cells[o] EXCEPT !.lastSeen = now] \in Session
  BY <1>1 DEF Session
<1>3. /\ seen \in Cells
      /\ \A x \in Obj : cells[x] \in Session => Touched(cells[x], seen[x])
      /\ \A x \in Obj : seen[x] \in Session => cells[x] \in Session
      /\ \A x \in Obj : cells[x] \in Session => seen[x].utime = cells[x].utime
      /\ \A x \in Obj : cells[x] \notin Session => seen[x] = cells[x]
  BY <1>1, <1>2 DEF Cells, Touched, Session
<1>4. seen[o] \in Session /\ seen[o].id = i
  BY <1>1, <1>3 DEF Touched
<1>5. Decide(h, e, seen, c) /\ Collect(h, seen)
      /\ writes' = IF due THEN writes \cup {call} ELSE writes
  BY DEF Serve
<1>6. due => TimeoutActivity # 0
  BY DEF RefreshDue
<1>. HIDE DEF seen, due
<1>7. CellsFrom(h, seen)
  <2>. SUFFICES ASSUME NEW x \in Obj, seen[x] \in Session
                PROVE  ComesFrom(h, x, seen[x])
    BY DEF CellsFrom
  <2>1. ComesFrom(h, x, cells[x]) /\ Touched(cells[x], seen[x])
    BY <1>3 DEF CellsFrom
  <2>. QED
    BY <2>1 DEF ComesFrom, Touched
<1>8. SameBirths(h, seen) /\ MemFrom(h, seen, c)
  <2>1. \A x \in Obj : seen[x].utime = cells[x].utime
    BY <1>3
  <2>. QED
    BY <2>1 DEF SameBirths, MemFrom
<1>9. /\ e \in Last /\ e.obj # NoRef /\ e.id \in cookie /\ seen[e.obj].id = e.id
  BY <1>1, <1>4 DEF Last
<1>10. /\ GrantEffect
       /\ \E c2 : MemFrom(h, seen, c2) /\ mem' = [mem EXCEPT ![h] = c2]
       /\ \E e2 : LastFrom(h, e2) /\ last' = [last EXCEPT ![h] = e2]
  BY <1>3, <1>5, <1>8, <1>9, DecideEffect
<1>11. due => Called(call)
  <2>1. call \in Write /\ ~call.applied /\ call.obj = o /\ call.data = seen[o]
          /\ call.task = t
    BY <1>1, <1>4 DEF UpdateCall, Write
  <2>2. ComesFrom(h, o, seen[o])
    BY <1>1, <1>4, <1>7 DEF CellsFrom
  <2>. QED
    BY <1>1, <1>4, <1>6, <2>1, <2>2 DEF Called
<1>12. TaskEffect /\ WriteEffect
  <2>. HIDE DEF call
  <2>1. writes' \subseteq writes \cup {call}
          /\ (call \in writes' => call \in writes \/ Called(call))
    BY <1>5, <1>11
  <2>. QED
    BY <2>1, HandlerTaskEffect
<1>. QED
  BY <1>3, <1>5, <1>7, <1>8, <1>10, <1>12, HandlerCallback

(* From the one-entry cache.                                               *)
LEMMA InternalCacheEffect ==
    ASSUME IInv, IInv', NEW t \in Task, t[1] \in Handlers, NEW i \in cookie,
           ServeFromInternalCache(t, i), UNCHANGED <<born, loggedOut>>
    PROVE  Effect
<1>. DEFINE h == t[1]
<1>1. h \in Proc
  BY DEF Task
<1>2. /\ mem \in [Proc -> Cache] /\ last[h] \in Last /\ last[h].obj # NoRef
      /\ last[h].id = i /\ clock - last[h].time < Internal
      /\ heap[h][last[h].obj].id = last[h].id
  BY <1>1 DEF ServeFromInternalCache, InInternalCache, IInv, Own, LastOwn, Good,
              TypeOK, AccessorTypeOK, Cache, Entry, Last
<1>3. heap[h] \in Cells /\ CellsFrom(h, heap[h]) /\ SameBirths(h, heap[h])
  BY <1>1, SameCells
<1>4. MemFrom(h, heap[h], mem[h]) /\ mem[h] \in Cache
  BY <1>1, <1>2 DEF MemFrom
<1>5. Decide(h, last[h], heap[h], mem[h]) /\ Collect(h, heap[h]) /\ HandlerKeeps
        /\ UNCHANGED <<task, writes>>
  BY DEF ServeFromInternalCache, HandlerKeeps
<1>6. /\ GrantEffect
      /\ \E c2 : MemFrom(h, heap[h], c2) /\ mem' = [mem EXCEPT ![h] = c2]
      /\ \E e2 : LastFrom(h, e2) /\ last' = [last EXCEPT ![h] = e2]
  BY <1>2, <1>3, <1>4, <1>5, DecideEffect
<1>. QED
  BY <1>3, <1>5, <1>6, TaskStays, WritesStay, HandlerCallback

(* A session that has not expired.                                         *)
LEMMA FreshSession ==
    ASSUME NEW s \in Session, NEW now \in Time, ~Expired(s, now)
    PROVE  now - s.utime <= Timeout
<1>1. s.utime \in Nat /\ now \in Nat /\ Timeout \in Nat
  BY TimesAssumption DEF Session, Time
<1>2. ~(now - s.utime > Timeout)
  BY DEF Expired
<1>. QED
  BY <1>1, <1>2

(* From the memory.                                                        *)
LEMMA MemoryEffect ==
    ASSUME IInv, IInv', NEW t \in Task, t[1] \in Handlers, NEW i \in cookie,
           ServeFromMemory(t, i), UNCHANGED <<born, loggedOut>>
    PROVE  Effect
<1>. DEFINE h == t[1]
            o == mem[h][i].obj
<1>1. h \in Proc /\ i \in Id /\ clock \in Time /\ mem \in [Proc -> Cache]
      /\ task \in [Task -> TaskState]
  BY DEF Task, IInv, TypeOK, AccessorTypeOK, Cache, Entry
<1>2. o # NoRef /\ Fits(heap[h], o, i)
  BY <1>1 DEF ServeFromMemory, Cached, IInv, Own, MemOwn, Good, Fits
<1>3. heap[h] \in Cells /\ CellsFrom(h, heap[h]) /\ SameBirths(h, heap[h])
  BY <1>1, SameCells
<1>4. MemFrom(h, heap[h], mem[h]) /\ mem[h] \in Cache
  BY <1>1 DEF MemFrom
<1>5. UNCHANGED task /\ HandlerKeeps
  BY DEF ServeFromMemory, HandlerKeeps
<1>6. CASE Serve(t, i, o, clock, heap[h], mem[h])
  <2>1. ~Expired(heap[h][o], clock)
    BY <1>6 DEF Serve
  <2>2. clock - heap[h][o].utime <= Timeout
    BY <1>1, <1>2, <2>1, FreshSession DEF Fits
  <2>3. Accepted(h, [id |-> i, obj |-> o, time |-> clock])
    BY <1>1, <1>2, <2>2 DEF Accepted
  <2>4. task' = [task EXCEPT ![t] = task[t]]
    BY <1>1, <1>5
  <2>. QED
    BY <1>1, <1>2, <1>3, <1>4, <1>5, <1>6, <2>3, <2>4, ServeEffect
<1>7. CASE /\ last' = [last EXCEPT ![h] = NoLast]
           /\ UNCHANGED <<mem, writes, granted>>
           /\ Collect(h, heap[h])
  <2>1. mem' = [mem EXCEPT ![h] = mem[h]] /\ LastFrom(h, NoLast)
    BY <1>1, <1>7 DEF LastFrom, NoLast
  <2>. QED
    BY <1>3, <1>4, <1>5, <1>7, <2>1, TaskStays, WritesStay, HandlerCallback
    DEF GrantEffect
<1>. QED
  BY <1>6, <1>7 DEF ServeFromMemory

(* A request that asks the store.                                          *)
LEMMA AskStoreEffect ==
    ASSUME IInv, IInv', NEW t \in Task, t[1] \in Handlers, NEW i \in cookie,
           AskStore(t, i), UNCHANGED <<born, loggedOut>>
    PROVE  Effect
<1>. DEFINE h == t[1]
            r == Getting("access", "get", i)
<1>1. h \in Proc /\ mem \in [Proc -> Cache] /\ task \in [Task -> TaskState]
  BY DEF Task, IInv, TypeOK, AccessorTypeOK, Cache, Entry
<1>2. heap[h] \in Cells /\ CellsFrom(h, heap[h]) /\ SameBirths(h, heap[h])
  BY <1>1, SameCells
<1>3. mem' = [mem EXCEPT ![h] = mem[h]] /\ MemFrom(h, heap[h], mem[h])
  BY <1>1 DEF AskStore, MemFrom
<1>4. last' = [last EXCEPT ![h] = NoLast] /\ LastFrom(h, NoLast)
  BY DEF AskStore, LastFrom, NoLast
<1>5. task' = [task EXCEPT ![t] = r] /\ UNCHANGED writes /\ HandlerKeeps
        /\ Collect(h, heap[h]) /\ GrantEffect
  BY DEF AskStore, HandlerKeeps, GrantEffect
<1>6. task'[t] = r /\ task[t] = Idle
  BY <1>1, <1>5 DEF AskStore
<1>7. GoesOn(t)
  BY <1>6 DEF GoesOn, Getting, Idle, InGet
<1>. HIDE DEF r
<1>8. TaskEffect /\ WriteEffect
  BY <1>5, <1>7, HandlerTaskEffect
<1>. QED
  BY <1>2, <1>3, <1>4, <1>5, <1>8, HandlerCallback

(* The answer of the store, served or refused.                             *)
LEMMA FromStoreEffect ==
    ASSUME IInv, IInv', TasksSound, NEW t \in Task, t[1] \in Handlers,
           ServeFromStore(t), UNCHANGED <<born, loggedOut>>
    PROVE  Effect
<1>. DEFINE h == t[1]
            i == task[t].id
            now == task[t].since
            o == NewObj(h)
            cells == [heap[h] EXCEPT ![o] = task[t].ans]
            cache == IF task[t].cur THEN CachePut(mem[h], i, o) ELSE mem[h]
<1>1. /\ h \in Proc /\ mem \in [Proc -> Cache] /\ task[t] \in TaskState
      /\ last \in [Proc -> Last]
  BY DEF Task, IInv, TypeOK, AccessorTypeOK, Cache, Entry, Last
<1>2. InGet(t) /\ CanAllocate(h) /\ task' = [task EXCEPT ![t] = Idle]
        /\ UNCHANGED <<clock, store, ready, cookie>> /\ HandlerKeeps
  BY DEF ServeFromStore, Answered, HandlerKeeps
<1>3. task[t].ans \in Session /\ task[t].ans.id = i /\ i \in Id
  BY AnswerFits DEF ServeFromStore
<1>4. i \in cookie
  BY <1>2 DEF InGet, TasksSound
<1>5. now \in Time
  BY <1>1 DEF TaskState
<1>6. Touched(task[t].ans, task[t].ans)
  BY <1>3, TouchedSame
<1>7. /\ cells \in Cells
      /\ CellsFrom(h, cells)
      /\ SameBirths(h, cells)
      /\ o \in Obj /\ cells[o] = task[t].ans
  BY <1>2, <1>6, AnswerCells
<1>. HIDE DEF cells, o
<1>8. Fits(cells, o, i)
  BY <1>3, <1>7 DEF Fits
<1>9. CacheFits(h, cells, cache)
  BY <1>1, <1>3, <1>8, SameCache, PutFits
<1>10. cache \in Cache
  BY <1>9 DEF CacheFits
<1>11. MemFrom(h, cells, cache)
  <2>. SUFFICES ASSUME NEW j \in Id, cache[j] # mem[h][j]
                PROVE  /\ cache[j].until = clock + MemTime
                       /\ cache[j].obj \in Obj
                       /\ j = i
                       /\ cells[cache[j].obj].utime = task[t].ans.utime
    BY <1>2, <1>3 DEF MemFrom
  <2>1. cache = [mem[h] EXCEPT ![i] = [obj |-> o, until |-> clock + MemTime]]
    BY DEF CachePut
  <2>2. mem[h] \in Cache
    BY <1>1
  <2>3. j = i /\ cache[j] = [obj |-> o, until |-> clock + MemTime]
    BY <1>3, <2>1, <2>2 DEF Cache
  <2>. QED
    BY <1>7, <2>3
<1>. HIDE DEF cache
<1>12. CASE Serve(t, i, o, now, cells, cache)
  <2>1. ~Expired(cells[o], now)
    BY <1>12 DEF Serve
  <2>2. now - task[t].ans.utime <= Timeout
    BY <1>3, <1>5, <1>7, <2>1, FreshSession
  <2>3. Accepted(h, [id |-> i, obj |-> o, time |-> now])
    BY <1>2, <1>3, <2>2 DEF Accepted
  <2>. QED
    BY <1>2, <1>4, <1>5, <1>7, <1>8, <1>10, <1>11, <1>12, <2>3, ServeEffect
<1>13. CASE /\ mem' = [mem EXCEPT ![h] = cache]
            /\ UNCHANGED <<last, writes, granted>>
            /\ Collect(h, cells)
  <2>1. last' = [last EXCEPT ![h] = last[h]] /\ LastFrom(h, last[h])
    BY <1>1, <1>13 DEF LastFrom
  <2>2. TaskEffect /\ WriteEffect
    BY <1>2, <1>13, HandlerTaskEffect
  <2>3. GrantEffect
    BY <1>13 DEF GrantEffect
  <2>. QED
    BY <1>2, <1>7, <1>11, <1>13, <2>1, <2>2, <2>3, HandlerCallback
<1>. QED
  BY <1>12, <1>13 DEF ServeFromStore, o, cells, cache

(* No object and no cache changes.                                         *)
LEMMA SameCaches ==
    ASSUME IInv, UNCHANGED <<heap, mem, last>>
    PROVE  HeapEffect /\ CacheEffect
<1>1. HeapEffect
  BY SameCells DEF HeapEffect
<1>. QED
  BY <1>1 DEF CacheEffect, LastEffect, MemEffect, BirthsKept

(* No session in the store.                                                *)
LEMMA NoSessionEffect ==
    ASSUME IInv, NEW t \in Task, NoSessionInStore(t), UNCHANGED <<born, loggedOut>>
    PROVE  Effect
<1>1. TaskEffect /\ WriteEffect
  BY HandlerTaskEffect DEF NoSessionInStore
<1>2. HeapEffect /\ CacheEffect
  BY SameCaches DEF NoSessionInStore
<1>. QED
  BY <1>1, <1>2 DEF NoSessionInStore, Effect, Ordinary, GrantEffect, ReportEffect

(* The updates are some of those that were.                                *)
LEMMA FewerWrites ==
    ASSUME UNCHANGED task, writes' \subseteq writes
    PROVE  TaskEffect /\ WriteEffect
BY DEF TaskEffect, WriteEffect, Remains

(* The end of a process.                                                   *)
LEMMA RestartEffect ==
    ASSUME IInv, NEW p \in Proc, Restart(p),
           UNCHANGED <<cookie, granted, born, loggedOut>>
    PROVE  Effect
<1>. USE NamesAssumption
<1>1. /\ mem \in [Proc -> Cache] /\ last \in [Proc -> Last]
      /\ heap \in [Proc -> Cells] /\ task \in [Task -> TaskState]
      /\ writes \in SUBSET Write
  BY DEF IInv, TypeOK, AccessorTypeOK, Cache, Entry, Last, Cells
<1>2. \A q \in Proc :
        /\ q # p => heap'[q] = heap[q] /\ mem'[q] = mem[q] /\ last'[q] = last[q]
        /\ q = p => heap'[q] = NoCells /\ mem'[q] = EmptyCache /\ last'[q] = NoLast
  BY <1>1 DEF Restart
<1>3. \A t \in Task : task'[t] = IF t[1] = p THEN Idle ELSE task[t]
  BY DEF Restart
<1>4. PICK sent \in SUBSET {w \in writes : w.task[1] = p /\ ~w.applied} :
        writes' = {w \in writes : w.task[1] # p}
                    \cup {[w EXCEPT !.obj = NoRef] : w \in sent}
  BY DEF Restart
<1>5. HeapEffect
  <2>. SUFFICES ASSUME NEW q \in Proc PROVE CellsFrom(q, heap'[q])
    BY DEF HeapEffect
  <2>1. CASE q = p
    BY <1>2, <2>1 DEF CellsFrom, NoCells
  <2>2. CASE q # p
    BY <1>2, <2>2, SameCells
  <2>. QED
    BY <2>1, <2>2
<1>6. TaskEffect
  BY <1>3 DEF TaskEffect
<1>7. \A v \in sent : LET w == [v EXCEPT !.obj = NoRef]
                      IN  Remains(v, w) /\ w.obj = NoRef /\ w.task = v.task
  <2>. SUFFICES ASSUME NEW v \in sent, NEW w, w = [v EXCEPT !.obj = NoRef]
                PROVE  Remains(v, w) /\ w.obj = NoRef /\ w.task = v.task
    OBVIOUS
  <2>1. v \in Write /\ v.task \in Task /\ v.task[1] = p
    BY <1>1 DEF Write
  <2>2. w.task = v.task /\ w.data = v.data /\ w.applied = v.applied /\ w.obj = NoRef
    BY <2>1 DEF Write
  <2>. QED
    BY <1>3, <2>1, <2>2 DEF Remains
<1>8. \A w \in writes : w.task[1] # p => Remains(w, w)
  BY <1>1, <1>3 DEF Remains, Write
<1>9. WriteEffect
  <2>1. \A w \in writes' : \/ w \in writes /\ w.task[1] # p
                           \/ w.obj = NoRef /\ \E v \in writes : Remains(v, w)
    <3>. SUFFICES ASSUME NEW v \in sent, NEW w, w = [v EXCEPT !.obj = NoRef]
                  PROVE  w.obj = NoRef /\ v \in writes /\ Remains(v, w)
      BY <1>4
    <3>. QED
      BY <1>7
  <2>. QED
    BY <1>8, <2>1 DEF WriteEffect
<1>10. LastEffect /\ MemEffect
  BY <1>2 DEF LastEffect, MemEffect, NoLast, EmptyCache, NoEntry
<1>11. BirthsKept
  <2>. SUFFICES ASSUME p \in Handlers, NEW o \in Obj, o \in Held(p)'
                PROVE  FALSE
    BY <1>2 DEF BirthsKept, Proc
  <2>1. \A s \in Slots : task'[<<p, s>>].ref = NoRef
    BY <1>3 DEF Task, Idle
  <2>2. \A w \in writes' : w.task[1] = p => w.obj = NoRef
    <3>. SUFFICES ASSUME NEW v \in sent, NEW w, w = [v EXCEPT !.obj = NoRef]
                  PROVE  w.obj = NoRef
      BY <1>4
    <3>. QED
      BY <1>7
  <2>3. last'[p].obj = NoRef /\ \A i \in Id : mem'[p][i].obj = NoRef
    BY <1>2 DEF EmptyCache, NoEntry, NoLast
  <2>. QED
    BY <2>1, <2>2, <2>3 DEF Held
<1>. QED
  BY <1>5, <1>6, <1>9, <1>10, <1>11
  DEF Effect, Ordinary, CacheEffect, GrantEffect, ReportEffect, Restart

(* The caches of a handler lose entries.                                   *)
LEMMA DroppedEffect ==
    ASSUME IInv, IInv', NEW h \in Handlers, Collect(h, heap[h]),
           NEW c, mem' = [mem EXCEPT ![h] = c],
           \A j \in Id : c[j].obj = NoRef \/ c[j] = mem[h][j],
           last' = last \/ last' = [last EXCEPT ![h] = NoLast],
           TaskEffect, WriteEffect, HandlerKeeps, UNCHANGED granted
    PROVE  Effect
<1>1. h \in Proc /\ last \in [Proc -> Last]
  BY DEF Proc, IInv, TypeOK, AccessorTypeOK, Last
<1>2. heap[h] \in Cells /\ CellsFrom(h, heap[h]) /\ SameBirths(h, heap[h])
  BY <1>1, SameCells
<1>3. MemFrom(h, heap[h], c)
  BY DEF MemFrom
<1>4. \E e : LastFrom(h, e) /\ last' = [last EXCEPT ![h] = e]
  <2>1. LastFrom(h, NoLast) /\ LastFrom(h, last[h])
    BY DEF LastFrom, NoLast
  <2>2. last = [last EXCEPT ![h] = last[h]]
    BY <1>1
  <2>. QED
    BY <2>1, <2>2
<1>. QED
  BY <1>2, <1>3, <1>4, HandlerCallback DEF GrantEffect

(* The update of _lastSeen answered.                                       *)
LEMMA RefreshedEffect ==
    ASSUME IInv, IInv', NEW w \in writes, Refreshed(w), UNCHANGED <<born, loggedOut>>
    PROVE  Effect
<1>. DEFINE h == w.task[1]
            c == IF w.cur THEN CachePut(mem[h], w.data.id, w.obj) ELSE mem[h]
<1>1. /\ h \in Handlers /\ h \in Proc /\ mem \in [Proc -> Cache]
      /\ last \in [Proc -> Last]
  BY DEF Refreshed, Proc, IInv, TypeOK, AccessorTypeOK, Cache, Entry, Last
<1>2. w.obj \in Obj /\ w.data.id \in Id
  BY PendingFits DEF Refreshed, IInv, PcOK, Fits
<1>3. heap[h] \in Cells /\ CellsFrom(h, heap[h]) /\ SameBirths(h, heap[h])
  BY <1>1, SameCells
<1>4. mem' = [mem EXCEPT ![h] = c]
  BY <1>1 DEF Refreshed
<1>5. MemFrom(h, heap[h], c)
  <2>. SUFFICES ASSUME NEW j \in Id, c[j] # mem[h][j]
                PROVE  c[j].until = clock + MemTime /\ c[j].obj \in Obj
    BY <1>1 DEF MemFrom
  <2>1. c = [mem[h] EXCEPT ![w.data.id] = [obj |-> w.obj, until |-> clock + MemTime]]
    BY DEF CachePut
  <2>2. mem[h] \in Cache
    BY <1>1
  <2>. QED
    BY <1>2, <2>1, <2>2 DEF Cache
<1>6. last' = [last EXCEPT ![h] = last[h]] /\ LastFrom(h, last[h])
  BY <1>1 DEF Refreshed, LastFrom
<1>7. TaskEffect /\ WriteEffect
  BY FewerWrites DEF Refreshed
<1>8. HandlerKeeps /\ GrantEffect /\ Collect(h, heap[h])
  BY DEF Refreshed, HandlerKeeps, GrantEffect
<1>. HIDE DEF c
<1>. QED
  BY <1>1, <1>3, <1>4, <1>5, <1>6, <1>7, <1>8, HandlerCallback

(* reload() replaces the accessor.                                         *)
LEMMA ReloadEffect ==
    ASSUME IInv, IInv', TasksSound, NEW h \in Handlers, Reload(h),
           UNCHANGED <<born, loggedOut>>
    PROVE  Effect
<1>. USE NamesAssumption
<1>1. task \in [Task -> TaskState] /\ writes \in SUBSET Write
  BY DEF IInv, TypeOK, AccessorTypeOK
<1>2. TaskEffect
  <2>. SUFFICES ASSUME NEW t \in Task, t[1] = h, InGet(t),
                       task'[t] = [task[t] EXCEPT !.cur = FALSE]
                PROVE  GoesOn(t)
    BY DEF TaskEffect, Reload
  <2>1. /\ task'[t].id = task[t].id /\ task'[t].pc = task[t].pc
        /\ task'[t].kind = task[t].kind /\ task'[t].ans = task[t].ans
        /\ task'[t].since = task[t].since
    BY <1>1 DEF TaskState
  <2>. QED
    BY <2>1 DEF GoesOn, InGet, TasksSound
<1>3. \A v \in writes : v.task[1] # h => Remains(v, v)
  BY <1>1 DEF Remains, Reload, Write
<1>4. \A v \in writes : v.task[1] = h =>
        LET w == [v EXCEPT !.cur = FALSE] IN Remains(v, w) /\ w.task[1] = h
  <2>. SUFFICES ASSUME NEW v \in writes, v.task[1] = h,
                       NEW w, w = [v EXCEPT !.cur = FALSE]
                PROVE  Remains(v, w) /\ w.task[1] = h
    OBVIOUS
  <2>1. w.task = v.task /\ w.data = v.data /\ w.applied = v.applied /\ w.obj = v.obj
    BY <1>1 DEF Write
  <2>. QED
    BY <2>1 DEF Remains
<1>5. WriteEffect
  <2>1. \A w \in writes' : \/ w \in writes /\ w.task[1] # h
                           \/ w.task[1] = h /\ \E v \in writes : Remains(v, w)
    BY <1>4 DEF Reload
  <2>. QED
    BY <1>3, <2>1 DEF WriteEffect
<1>6. \A j \in Id : EmptyCache[j].obj = NoRef
  BY DEF EmptyCache, NoEntry
<1>. QED
  BY <1>2, <1>5, <1>6, DroppedEffect DEF Reload, HandlerKeeps

(* A step of the handler.                                                  *)
LEMMA HandlerEffect ==
    ASSUME IInv, IInv', TasksSound, HandlerNext, UNCHANGED <<born, loggedOut>>
    PROVE  Effect
<1>0. \A h \in Handlers : h \in Proc /\ \A s \in Slots : <<h, s>> \in Task
  BY DEF Proc, Task
<1>1. ASSUME NEW h \in Handlers, NEW s \in Slots, NEW i \in cookie,
             \/ ServeFromInternalCache(<<h, s>>, i)
             \/ ServeFromMemory(<<h, s>>, i)
             \/ AskStore(<<h, s>>, i)
      PROVE  Effect
  BY <1>0, <1>1, InternalCacheEffect, MemoryEffect, AskStoreEffect
<1>2. ASSUME NEW h \in Handlers, NEW s \in Slots,
             \/ ServeFromStore(<<h, s>>)
             \/ NoSessionInStore(<<h, s>>)
      PROVE  Effect
  BY <1>0, <1>2, FromStoreEffect, NoSessionEffect
<1>3. ASSUME NEW h \in Handlers, NEW s \in Slots, RefreshNotReady(<<h, s>>)
      PROVE  Effect
  BY <1>0, <1>3, RestartEffect DEF RefreshNotReady
<1>4. ASSUME NEW h \in Handlers,
             \/ Skip(h)
             \/ \E i \in Id : NotReady(h, i)
             \/ \E i \in Id : LocalUnlog(h, i)
      PROVE  Effect
  <2>1. mem \in [Proc -> Cache]
    BY DEF IInv, TypeOK, AccessorTypeOK, Cache, Entry
  <2>2. mem[h] \in Cache /\ mem = [mem EXCEPT ![h] = mem[h]]
    BY <1>0, <2>1
  <2>3. \A i, j \in Id : CacheDrop(mem[h], i)[j].obj = NoRef
                           \/ CacheDrop(mem[h], i)[j] = mem[h][j]
    BY <2>2 DEF CacheDrop, NoEntry, Cache
  <2>4. \E c : /\ mem' = [mem EXCEPT ![h] = c]
               /\ \A j \in Id : c[j].obj = NoRef \/ c[j] = mem[h][j]
    BY <1>0, <1>4, <2>1, <2>2, <2>3 DEF Skip, NotReady, LocalUnlog
  <2>5. /\ Collect(h, heap[h]) /\ UNCHANGED <<task, writes, granted>>
        /\ last' = [last EXCEPT ![h] = NoLast] /\ HandlerKeeps
    BY <1>4 DEF Skip, NotReady, LocalUnlog, HandlerKeeps
  <2>6. TaskEffect /\ WriteEffect
    BY <2>5, FewerWrites
  <2>. QED
    BY ZenonT(60), <2>4, <2>5, <2>6, DroppedEffect
<1>5. ASSUME NEW h \in Handlers, BackendReady(h)
      PROVE  Effect
  <2>1. HeapEffect /\ CacheEffect /\ TaskEffect /\ WriteEffect
    BY <1>5, SameCaches, FewerWrites DEF BackendReady
  <2>. QED
    BY <1>5, <2>1 DEF BackendReady, Effect, Ordinary, GrantEffect, ReportEffect
<1>6. ASSUME NEW w \in writes, RefreshFails(w)
      PROVE  Effect
  BY <1>0, <1>6, RestartEffect DEF RefreshFails
<1>7. cookie \subseteq Id
  BY DEF IInv, TypeOK
<1>. QED
  BY <1>1, <1>2, <1>3, <1>4, <1>5, <1>6, <1>7, RefreshedEffect, ReloadEffect
  DEF HandlerNext

-----------------------------------------------------------------------------
(* The steps of the portal *)

(* A request of the portal changes: an update it had ends, or it had none. *)
LEMMA PortalTaskEffect ==
    ASSUME IInv, NEW t \in Task, NEW r, r = Idle \/ r = task[t] \/ GoesOn(t),
           task' = [task EXCEPT ![t] = r],
           \A w \in writes : w.task = t /\ t[1] \in Portals /\ w.obj # NoRef
                               => w \notin writes',
           NEW c, writes' \subseteq writes \cup {c}, c \in writes' => c \in writes \/ Called(c)
    PROVE  TaskEffect /\ WriteEffect
<1>1. task \in [Task -> TaskState] /\ writes \in SUBSET Write
  BY DEF IInv, TypeOK, AccessorTypeOK
<1>2. \A u \in Task : u # t => task'[u] = task[u]
  BY <1>1
<1>3. TaskEffect
  BY <1>1, <1>2 DEF TaskEffect
<1>4. \A v \in writes : v \in writes' => Remains(v, v)
  BY <1>1, <1>2 DEF Remains, Write
<1>. QED
  BY <1>3, <1>4 DEF WriteEffect

(* A request that waits for no update has none: it may call one.           *)
LEMMA RequestEffect ==
    ASSUME IInv, LifeInv, NEW t \in Task, task[t].pc \notin {"create", "info", "save"},
           NEW r, r = Idle \/ GoesOn(t), task' = [task EXCEPT ![t] = r],
           writes' = writes \/ \E c : writes' = writes \cup {c} /\ Called(c)
    PROVE  TaskEffect /\ WriteEffect
<1>1. \A w \in writes : w.task = t /\ t[1] \in Portals => w.obj = NoRef
  BY DEF LifeInv, WritesSound
<1>2. \A w \in writes : w.task = t /\ t[1] \in Portals /\ w.obj # NoRef
                           => w \notin writes'
  BY <1>1
<1>3. \E c : writes' \subseteq writes \cup {c} /\ (c \in writes' => c \in writes \/ Called(c))
  <2>1. CASE writes' = writes
    BY <2>1
  <2>2. CASE \E c : writes' = writes \cup {c} /\ Called(c)
    BY <2>2
  <2>. QED
    BY <2>1, <2>2
<1>. QED
  BY <1>2, <1>3, PortalTaskEffect

(* Nothing is granted by a portal, and it opens nothing here.              *)
PortalKeeps == UNCHANGED <<clock, store, born, cookie, granted>>

(* What a callback of the portal leaves behind.                            *)
LEMMA PortalCallback ==
    ASSUME IInv, IInv', NEW p \in Portals,
           NEW cells \in Cells, CellsFrom(p, cells), Collect(p, cells),
           \/ mem' = mem
           \/ \E i \in Id, o \in Obj : mem' = [mem EXCEPT ![p] = CachePut(mem[p], i, o)],
           UNCHANGED last, TaskEffect, WriteEffect, ReportEffect, PortalKeeps
    PROVE  Effect
<1>. USE NamesAssumption
<1>1. /\ p \in Proc /\ mem \in [Proc -> Cache] /\ last \in [Proc -> Last]
      /\ p \notin Handlers
  BY DEF Proc, IInv, TypeOK, AccessorTypeOK, Cache, Entry, Last
<1>2. SameBirths(p, cells)
  BY <1>1 DEF SameBirths
<1>3. last' = [last EXCEPT ![p] = last[p]] /\ LastFrom(p, last[p])
  BY <1>1 DEF LastFrom
<1>4. \E c : MemFrom(p, cells, c) /\ mem' = [mem EXCEPT ![p] = c]
  <2>1. CASE mem' = mem
    <3>1. MemFrom(p, cells, mem[p]) /\ mem' = [mem EXCEPT ![p] = mem[p]]
      BY <1>1, <2>1 DEF MemFrom
    <3>. QED
      BY <3>1
  <2>2. CASE \E i \in Id, o \in Obj : mem' = [mem EXCEPT ![p] = CachePut(mem[p], i, o)]
    <3>1. PICK i \in Id, o \in Obj : mem' = [mem EXCEPT ![p] = CachePut(mem[p], i, o)]
      BY <2>2
    <3>. DEFINE c == CachePut(mem[p], i, o)
    <3>2. MemFrom(p, cells, c)
      BY <1>1 DEF MemFrom, CachePut, Cache
    <3>. QED
      BY <3>1, <3>2
  <2>. QED
    BY <2>1, <2>2
<1>5. HeapEffect /\ CacheEffect
  BY <1>1, <1>2, <1>3, <1>4, CallbackEffect
<1>. QED
  BY <1>5 DEF Effect, Ordinary, GrantEffect, PortalKeeps

(* A request that is given its session, or ends.                           *)
LEMMA LoadedEffect ==
    ASSUME IInv, NEW t \in Task, t[1] \in Portals, NEW k, k \in Requests \cup {task[t].kind},
           NEW i \in cookie, NEW o, NEW s, Loaded(t, k, i, o, s),
           task[t].pc \notin {"create", "info", "save"}
    PROVE  \E r : /\ r = Idle \/ GoesOn(t)
                  /\ task' = [task EXCEPT ![t] = r]
<1>. USE NamesAssumption
<1>. DEFINE r == [Idle EXCEPT !.kind = k, !.pc = "loaded", !.id = i, !.ref = o]
<1>1. task \in [Task -> TaskState]
  BY DEF IInv, TypeOK, AccessorTypeOK
<1>2. r.kind = k /\ r.pc = "loaded" /\ r.id = i /\ r.ans = NoSession
  BY DEF Idle
<1>3. task' = [task EXCEPT ![t] = Idle] \/ task' = [task EXCEPT ![t] = r]
  BY DEF Loaded
<1>. HIDE DEF r
<1>4. CASE task' = [task EXCEPT ![t] = Idle]
  BY <1>4
<1>5. CASE task' = [task EXCEPT ![t] = r]
  <2>1. task'[t] = r
    BY <1>1, <1>5
  <2>2. GoesOn(t)
    BY <1>2, <2>1 DEF GoesOn, InGet
  <2>. QED
    BY <1>5, <2>2
<1>. QED
  BY <1>3, <1>4, <1>5

(* The middleware finds the session in the memory.                         *)
LEMMA EnterFromMemoryEffect ==
    ASSUME IInv, IInv', LifeInv, NEW t \in Task, t[1] \in Portals,
           NEW k \in Requests, NEW i \in cookie,
           EnterFromMemory(t, k, i), UNCHANGED granted
    PROVE  Effect
<1>. DEFINE p == t[1]
<1>1. task[t].pc = "idle" /\ p \in Proc
  BY DEF EnterFromMemory, Idle, Task
<1>2. \E r : (r = Idle \/ GoesOn(t)) /\ task' = [task EXCEPT ![t] = r]
  BY <1>1, LoadedEffect DEF EnterFromMemory
<1>3. UNCHANGED writes
  BY DEF EnterFromMemory
<1>4. TaskEffect /\ WriteEffect
  BY <1>1, <1>2, <1>3, RequestEffect
<1>5. heap[p] \in Cells /\ CellsFrom(p, heap[p])
  BY <1>1, SameCells
<1>. QED
  BY <1>4, <1>5, PortalCallback DEF EnterFromMemory, PortalKeeps, ReportEffect

(* The middleware, or deleteSession, asks the store.                       *)
LEMMA GettingEffect ==
    ASSUME IInv, LifeInv, NEW t \in Task, t[1] \in Portals,
           task[t].pc \notin {"create", "info", "save"},
           NEW k \in Requests \cup {task[t].kind}, NEW where \in {"get", "delete"},
           where = "delete" => k = "logout",
           NEW i \in cookie,
           task' = [task EXCEPT ![t] = Getting(k, where, i)], UNCHANGED writes
    PROVE  TaskEffect /\ WriteEffect
<1>. USE NamesAssumption
<1>. DEFINE r == Getting(k, where, i)
<1>1. task \in [Task -> TaskState]
  BY DEF IInv, TypeOK, AccessorTypeOK
<1>2. task'[t] = r
  BY <1>1
<1>3. r.kind = k /\ r.pc = where /\ r.id = i /\ r.ans = Waiting /\ r.since = clock
  BY DEF Getting, Idle
<1>. HIDE DEF r
<1>4. GoesOn(t)
  BY <1>2, <1>3 DEF GoesOn, InGet
<1>. QED
  BY <1>4, RequestEffect DEF r

(* The middleware asks the store.                                          *)
LEMMA EnterFromStoreEffect ==
    ASSUME IInv, LifeInv, NEW t \in Task, t[1] \in Portals,
           NEW k \in Requests, NEW i \in cookie,
           EnterFromStore(t, k, i), UNCHANGED granted
    PROVE  Effect
<1>1. task[t].pc = "idle"
  BY DEF EnterFromStore, Idle
<1>2. TaskEffect /\ WriteEffect
  BY <1>1, GettingEffect DEF EnterFromStore
<1>3. HeapEffect /\ CacheEffect
  BY SameCaches DEF EnterFromStore
<1>. QED
  BY <1>2, <1>3 DEF EnterFromStore, Effect, Ordinary, GrantEffect, ReportEffect

(* deleteSession asks the store.                                           *)
LEMMA DeleteFromStoreEffect ==
    ASSUME IInv, IInv', LifeInv, NEW t \in Task, t[1] \in Portals,
           DeleteFromStore(t), UNCHANGED granted
    PROVE  Effect
<1>. DEFINE p == t[1]
<1>1. task[t].pc = "loaded" /\ task[t].kind = "logout" /\ p \in Proc
  BY DEF DeleteFromStore, Task
<1>2. task[t].id \in cookie
  BY <1>1 DEF LifeInv, TasksSound
<1>3. TaskEffect /\ WriteEffect
  BY <1>1, <1>2, GettingEffect DEF DeleteFromStore
<1>4. heap[p] \in Cells /\ CellsFrom(p, heap[p])
  BY <1>1, SameCells
<1>. QED
  BY <1>3, <1>4, PortalCallback DEF DeleteFromStore, PortalKeeps, ReportEffect

(* The store answered the middleware.                                      *)
LEMMA GotSessionEffect ==
    ASSUME IInv, IInv', LifeInv, NEW t \in Task, t[1] \in Portals,
           GotSession(t), UNCHANGED granted
    PROVE  Effect
<1>. DEFINE p == t[1]
            i == task[t].id
            o == NewObj(p)
            cells == [heap[p] EXCEPT ![o] = task[t].ans]
<1>1. task[t].pc = "get" /\ InGet(t) /\ UNCHANGED writes /\ Answered(t)
        /\ mem \in [Proc -> Cache] /\ p \in Proc
  BY DEF GotSession, InGet, Task, IInv, TypeOK, AccessorTypeOK, Cache, Entry
<1>2. i \in cookie /\ i \in Id
  BY <1>1 DEF LifeInv, TasksSound, IInv, TypeOK
<1>3. CASE task[t].ans = NoSession
  <2>1. task' = [task EXCEPT ![t] = Idle] /\ UNCHANGED <<heap, mem, last>>
    BY <1>3 DEF GotSession
  <2>2. TaskEffect /\ WriteEffect
    BY <1>1, <2>1, RequestEffect
  <2>3. HeapEffect /\ CacheEffect
    BY <2>1, SameCaches
  <2>. QED
    BY <2>2, <2>3 DEF GotSession, Effect, Ordinary, GrantEffect, ReportEffect
<1>4. CASE task[t].ans # NoSession
  <2>1. /\ CanAllocate(p)
        /\ Loaded(t, task[t].kind, i, o, task[t].ans)
        /\ mem' = [mem EXCEPT ![p] = CachePut(mem[p], i, o)]
        /\ Collect(p, cells)
    BY <1>1, <1>4 DEF GotSession
  <2>2. task[t].ans \in Session
    BY <1>1, <1>4, AnswerFits
  <2>3. Touched(task[t].ans, task[t].ans)
    BY <2>2, TouchedSame
  <2>4. cells \in Cells /\ CellsFrom(p, cells) /\ o \in Obj
    BY <1>1, <2>1, <2>3, AnswerCells
  <2>. HIDE DEF cells, o
  <2>5. \E r : (r = Idle \/ GoesOn(t)) /\ task' = [task EXCEPT ![t] = r]
    BY <1>1, <1>2, <2>1, LoadedEffect
  <2>6. TaskEffect /\ WriteEffect
    BY <1>1, <2>5, RequestEffect
  <2>7. ReportEffect /\ PortalKeeps /\ UNCHANGED last
    BY DEF GotSession, ReportEffect, PortalKeeps
  <2>. QED
    BY <1>2, <2>1, <2>4, <2>6, <2>7, PortalCallback
<1>. QED
  BY <1>3, <1>4

(* A request that changed the object o writes it.                          *)
LEMMA SavingEffect ==
    ASSUME IInv, IInv', LifeInv, NEW t \in Task, t[1] \in Portals,
           task[t].pc \notin {"create", "info", "save"},
           NEW o \in Obj, NEW s \in Session, s.id \in cookie,
           s.utime = 0 \/ task[t].kind = "password",
           NEW cells \in Cells, CellsFrom(t[1], cells), cells[o] = s,
           Collect(t[1], cells),
           NEW r, r.kind \in Requests \cup {task[t].kind}, r.pc = "save", r.id = s.id,
           r.ref = o, r.ans = NoSession,
           task' = [task EXCEPT ![t] = r],
           writes' = writes \cup {UpdateCall(t, o, s)},
           \/ mem' = mem
           \/ \E i \in Id, x \in Obj : mem' = [mem EXCEPT ![t[1]] = CachePut(mem[t[1]], i, x)],
           UNCHANGED <<last, loggedOut>>, PortalKeeps
    PROVE  Effect
<1>. USE NamesAssumption
<1>. DEFINE c == UpdateCall(t, o, s)
<1>1. task \in [Task -> TaskState]
  BY DEF IInv, TypeOK, AccessorTypeOK
<1>2. task'[t] = r
  BY <1>1
<1>3. GoesOn(t)
  BY <1>2 DEF GoesOn, InGet
<1>4. /\ c \in Write /\ ~c.applied /\ c.obj = o /\ c.data = s /\ c.task = t
  BY DEF UpdateCall, Write
<1>5. ComesFrom(t[1], o, s)
  BY DEF CellsFrom
<1>. HIDE DEF c
<1>6. Called(c)
  BY <1>2, <1>4, <1>5 DEF Called
<1>7. TaskEffect /\ WriteEffect
  <2>1. writes' = writes \cup {c}
    BY DEF c
  <2>. QED
    BY <1>3, <1>6, <2>1, RequestEffect
<1>. QED
  BY <1>7, PortalCallback DEF ReportEffect

(* deleteSession marks the object it found.                                *)
LEMMA DeleteFromMemoryEffect ==
    ASSUME IInv, IInv', LifeInv, NEW t \in Task, t[1] \in Portals,
           DeleteFromMemory(t), UNCHANGED granted
    PROVE  Effect
<1>. USE NamesAssumption
<1>. DEFINE p == t[1]
            i == task[t].id
            o == mem[p][i].obj
            s == [heap[p][o] EXCEPT !.utime = 0]
            cells == [heap[p] EXCEPT ![o] = s]
            r == [Idle EXCEPT !.kind = "logout", !.pc = "save", !.id = i, !.ref = o]
<1>1. task[t].pc = "loaded" /\ task[t].kind = "logout" /\ p \in Proc
  BY DEF DeleteFromMemory, Task
<1>2. i \in cookie /\ i \in Id
  BY <1>1 DEF LifeInv, TasksSound, IInv, TypeOK
<1>3. o \in Obj /\ heap[p][o] \in Session /\ heap[p][o].id = i
  BY ZenonT(60), <1>1, <1>2 DEF DeleteFromMemory, Cached, IInv, Own, MemOwn, Good
<1>4. s \in Session /\ s.id = i /\ s.utime = 0 /\ Touched(heap[p][o], s)
  BY ZenonT(60), <1>3 DEF Session, Time, Touched
<1>5. /\ task' = [task EXCEPT ![t] = r]
      /\ writes' = writes \cup {UpdateCall(t, o, s)}
      /\ Collect(p, cells)
      /\ UNCHANGED <<mem, last, loggedOut>> /\ PortalKeeps
  BY DEF DeleteFromMemory, MarkExpired, PortalKeeps
<1>6. r.kind = "logout" /\ r.pc = "save" /\ r.id = i /\ r.ref = o /\ r.ans = NoSession
  BY DEF Idle
<1>. HIDE DEF s, r
<1>7. p \notin Handlers
  BY SMTT(30)
<1>8. cells \in Cells /\ CellsFrom(p, cells)
  BY <1>1, <1>3, <1>4, <1>7, TouchedCells
<1>9. cells[o] = s
  BY <1>1, <1>3, SameCells DEF Cells
<1>. HIDE DEF cells, o, i
<1>. QED
  BY ZenonT(60), <1>1, <1>2, <1>3, <1>4, <1>5, <1>6, <1>8, <1>9, SavingEffect

(* deleteSession marks the session the store answered.                     *)
LEMMA GotForDeleteEffect ==
    ASSUME IInv, IInv', LifeInv, NEW t \in Task, t[1] \in Portals,
           GotForDelete(t), UNCHANGED granted
    PROVE  Effect
<1>. USE NamesAssumption
<1>. DEFINE p == t[1]
            i == task[t].id
            o == NewObj(p)
            s == [task[t].ans EXCEPT !.utime = 0]
            cells == [heap[p] EXCEPT ![o] = s]
            r == [Idle EXCEPT !.kind = "logout", !.pc = "save", !.id = i, !.ref = o]
<1>1. task[t].pc = "delete" /\ p \in Proc /\ InGet(t) /\ CanAllocate(p) /\ Answered(t)
        /\ task[t].ans # NoSession
  BY DEF GotForDelete, Task, InGet
<1>2. i \in cookie /\ i \in Id /\ task[t].kind = "logout"
  BY <1>1 DEF LifeInv, TasksSound, IInv, TypeOK
<1>3. task[t].ans \in Session /\ task[t].ans.id = i
  BY <1>1, AnswerFits
<1>4. s \in Session /\ s.id = i /\ s.utime = 0 /\ Touched(task[t].ans, s)
  BY <1>3 DEF Session, Time, Touched
<1>5. /\ task' = [task EXCEPT ![t] = r]
      /\ writes' = writes \cup {UpdateCall(t, o, s)}
      /\ Collect(p, cells)
      /\ UNCHANGED <<last, loggedOut>> /\ PortalKeeps
  BY DEF GotForDelete, MarkExpired, PortalKeeps
<1>6. mem' = [mem EXCEPT ![p] = CachePut(mem[p], i, o)]
  BY <1>1 DEF GotForDelete, IInv, TypeOK, AccessorTypeOK
<1>7. r.kind = "logout" /\ r.pc = "save" /\ r.id = i /\ r.ref = o /\ r.ans = NoSession
  BY DEF Idle
<1>. HIDE DEF s, r
<1>8. cells \in Cells /\ CellsFrom(p, cells) /\ o \in Obj /\ cells[o] = s
  BY <1>1, <1>4, AnswerCells
<1>. HIDE DEF cells, o, i
<1>. QED
  BY ZenonT(60), <1>1, <1>2, <1>4, <1>5, <1>6, <1>7, <1>8, SavingEffect

(* deleteSession finds no session.                                         *)
LEMMA NothingToDeleteEffect ==
    ASSUME IInv, LifeInv, NEW t \in Task, t[1] \in Portals,
           NothingToDelete(t), UNCHANGED granted
    PROVE  Effect
<1>1. task[t].pc = "delete" /\ InGet(t) /\ task[t].ans = NoSession
  BY DEF NothingToDelete, InGet
<1>2. task[t].id \in cookie /\ task[t].kind = "logout"
  BY <1>1 DEF LifeInv, TasksSound
<1>3. TaskEffect /\ WriteEffect
  BY <1>1, RequestEffect DEF NothingToDelete
<1>4. HeapEffect /\ CacheEffect
  BY SameCaches DEF NothingToDelete
<1>5. ReportEffect
  BY <1>1, <1>2 DEF NothingToDelete, ReportEffect
<1>. QED
  BY <1>3, <1>4, <1>5 DEF NothingToDelete, Effect, Ordinary, GrantEffect

(* The password module accepted the new password.                          *)
LEMMA PasswordChangedEffect ==
    ASSUME IInv, IInv', LifeInv, NEW t \in Task, t[1] \in Portals,
           PasswordChanged(t), UNCHANGED granted
    PROVE  Effect
<1>. USE NamesAssumption
<1>. DEFINE p == t[1]
            o == task[t].ref
            s == [heap[p][o] EXCEPT !.data = "full", !.lastSeen = clock]
            cells == [heap[p] EXCEPT ![o] = s]
            r == [task[t] EXCEPT !.pc = "save"]
<1>1. /\ task[t].pc = "loaded" /\ task[t].kind = "password" /\ p \in Proc
      /\ task[t] \in TaskState /\ clock \in Time
  BY DEF PasswordChanged, Task, IInv, TypeOK, AccessorTypeOK
<1>2. task[t].id \in cookie /\ task[t].ans = NoSession
  BY <1>1 DEF LifeInv, TasksSound, InGet
<1>3. o \in Obj /\ heap[p][o] \in Session /\ heap[p][o].id = task[t].id
  BY <1>1 DEF IInv, Own, RefOwn, PcOK, Good
<1>4. s \in Session /\ s.id = task[t].id /\ Touched(heap[p][o], s)
  BY <1>1, <1>3 DEF Session, Touched
<1>5. /\ task' = [task EXCEPT ![t] = r]
      /\ writes' = writes \cup {UpdateCall(t, o, s)}
      /\ Collect(p, cells)
      /\ UNCHANGED <<mem, last, loggedOut>> /\ PortalKeeps
  BY DEF PasswordChanged, PortalKeeps
<1>6. r.kind = task[t].kind /\ r.pc = "save" /\ r.id = task[t].id /\ r.ref = o
        /\ r.ans = NoSession
  BY <1>1, <1>2 DEF TaskState
<1>. HIDE DEF s, r
<1>7. cells \in Cells /\ CellsFrom(p, cells)
  BY <1>1, <1>3, <1>4, TouchedCells
<1>8. cells[o] = s
  BY <1>1, <1>3, SameCells DEF Cells
<1>. HIDE DEF cells, o
<1>. QED
  BY ZenonT(60), <1>1, <1>2, <1>3, <1>4, <1>5, <1>6, <1>7, <1>8, SavingEffect

(* The password module refused.                                            *)
LEMMA PasswordDoneEffect ==
    ASSUME IInv, IInv', LifeInv, NEW t \in Task, t[1] \in Portals,
           PasswordDone(t), UNCHANGED granted
    PROVE  Effect
<1>. DEFINE p == t[1]
<1>1. task[t].pc = "loaded" /\ p \in Proc
  BY DEF PasswordDone, Task
<1>2. task' = [task EXCEPT ![t] = Idle] /\ UNCHANGED writes
  BY DEF PasswordDone
<1>3. TaskEffect /\ WriteEffect
  BY <1>1, <1>2, RequestEffect
<1>4. heap[p] \in Cells /\ CellsFrom(p, heap[p])
  BY <1>1, SameCells
<1>. QED
  BY <1>3, <1>4, PortalCallback DEF PasswordDone, PortalKeeps, ReportEffect

(* An update of a portal ends, and its request with it.                    *)
LEMMA EndedEffect ==
    ASSUME IInv, LifeInv, NEW w \in writes, w.obj # NoRef, w.task[1] \in Portals,
           task' = [task EXCEPT ![w.task] = Idle],
           writes' = writes \ {w}
    PROVE  /\ TaskEffect /\ WriteEffect
           /\ task[w.task].id = w.data.id
<1>1. w.task \in Task
  BY DEF IInv, TypeOK, AccessorTypeOK, Write
<1>2. /\ \A v \in writes : v.task = w.task /\ v.obj # NoRef => v = w
      /\ task[w.task].id = w.data.id
  BY DEF LifeInv, WritesSound
<1>3. \A v \in writes : v.task = w.task /\ w.task[1] \in Portals /\ v.obj # NoRef
                          => v \notin writes'
  BY <1>2
<1>. QED
  BY <1>1, <1>2, <1>3, PortalTaskEffect

(* The update of a logout or of a password change answered.                *)
LEMMA SavedEffect ==
    ASSUME IInv, IInv', LifeInv, NEW w \in writes, Saved(w), UNCHANGED granted
    PROVE  Effect
<1>. DEFINE t == w.task
            p == t[1]
<1>1. w.obj # NoRef /\ w.applied
  BY DEF Saved, IInv, PcOK
<1>2. t \in Task /\ p \in Proc /\ w.data.id \in Id /\ w.obj \in Obj
  BY <1>1, PendingFits DEF Fits
<1>3. task[t].pc = "save" /\ p \in Portals
  BY <1>2 DEF Saved, LifeInv, TasksSound, Proc
<1>4. TaskEffect /\ WriteEffect /\ task[t].id = w.data.id
  BY <1>1, <1>3, EndedEffect DEF Saved
<1>5. w.data.id \in cookie
  BY <1>2, <1>3, <1>4 DEF LifeInv, TasksSound
<1>6. ReportEffect
  BY <1>1, <1>2, <1>5 DEF Saved, ReportEffect
<1>7. mem' = [mem EXCEPT ![p] = CachePut(mem[p], w.data.id, w.obj)]
  BY <1>2 DEF Saved, IInv, TypeOK, AccessorTypeOK
<1>8. heap[p] \in Cells /\ CellsFrom(p, heap[p])
  BY <1>2, SameCells
<1>9. Collect(p, heap[p]) /\ UNCHANGED last /\ PortalKeeps
  BY DEF Saved, PortalKeeps
<1>. QED
  BY <1>2, <1>3, <1>4, <1>6, <1>7, <1>8, <1>9, PortalCallback

(* An update of the portal failed.                                         *)
LEMMA SaveFailsEffect ==
    ASSUME IInv, IInv', LifeInv, NEW w \in writes, SaveFails(w), UNCHANGED granted
    PROVE  Effect
<1>. DEFINE t == w.task
            p == t[1]
<1>1. w.obj # NoRef /\ p \in Portals /\ Faulty
  BY DEF SaveFails
<1>2. t \in Task /\ p \in Proc
  BY <1>1, PendingFits
<1>3. TaskEffect /\ WriteEffect /\ task[t].id = w.data.id
  BY <1>1, EndedEffect DEF SaveFails
<1>4. ReportEffect
  BY <1>1, <1>2, <1>3 DEF SaveFails, ReportEffect, LifeInv, TasksSound
<1>5. heap[p] \in Cells /\ CellsFrom(p, heap[p])
  BY <1>2, SameCells
<1>6. Collect(p, heap[p]) /\ UNCHANGED <<mem, last>> /\ PortalKeeps
  BY DEF SaveFails, PortalKeeps
<1>. QED
  BY <1>1, <1>3, <1>4, <1>5, <1>6, PortalCallback

-----------------------------------------------------------------------------
(* The steps that begin a login, fill its session, end it, and those that  *)
(* write in the store or move the clock                                    *)

(* The objects are those that were, but for o of p, which is s.            *)
HeapBut(p, o, s) ==
    \A q \in Proc, x \in Obj :
      heap'[q][x] \in Session =>
        \/ q = p /\ x = o /\ heap'[q][x] = s
        \/ ~(q = p /\ x = o) /\ heap'[q][x] = heap[q][x]

MemBut(p) == \A q \in Proc : q # p => mem'[q] = mem[q]

TaskBut(t) == \A u \in Task : u # t => task'[u] = task[u]

LoginEffect(t, i, o, s, c) ==
    /\ t \in Task /\ t[1] \in Portals /\ i \in Id /\ o \in Obj
    /\ task[t] = Idle /\ born[i] = 0
    /\ s \in Session /\ s.id = i /\ s.utime = clock /\ s.data = "new"
    /\ c \in Write /\ c.task = t /\ c.obj = o /\ c.data = s /\ ~c.applied
    /\ HeapBut(t[1], o, s) /\ TaskBut(t)
    /\ task'[t].kind = "login" /\ task'[t].pc = "create" /\ task'[t].id = i
    /\ task'[t].ref = o /\ task'[t].ans = NoSession
    /\ writes' = writes \cup {c}
    /\ born' = [born EXCEPT ![i] = clock]
    /\ UNCHANGED <<clock, store, mem, last, cookie, granted, loggedOut>>

(* w is the only update of its request, a login.                           *)
LoginWrite(w) ==
    /\ w \in writes /\ w \in Write /\ w.applied /\ w.obj \in Obj
    /\ w.task[1] \in Portals
    /\ task[w.task].id = w.data.id /\ task[w.task].ref = w.obj
    /\ \A v \in writes : v.task = w.task /\ v.obj # NoRef => v = w

FillEffect(w, s, c) ==
    /\ LoginWrite(w) /\ task[w.task].pc = "create"
    /\ Touched(heap[w.task[1]][w.obj], s) /\ s.data # "new" /\ s.id = w.data.id
    /\ c \in Write /\ c.task = w.task /\ c.obj = w.obj /\ c.data = s /\ ~c.applied
    /\ HeapBut(w.task[1], w.obj, s) /\ MemBut(w.task[1]) /\ TaskBut(w.task)
    /\ task'[w.task] = [task[w.task] EXCEPT !.pc = "info"]
    /\ writes' = (writes \ {w}) \cup {c}
    /\ UNCHANGED <<clock, store, last, born, cookie, granted, loggedOut>>

OpenEffect(w) ==
    /\ LoginWrite(w) /\ task[w.task].pc = "info"
    /\ \A q \in Proc, x \in Obj :
         heap'[q][x] \in Session => heap'[q][x] = heap[q][x]
    /\ MemBut(w.task[1]) /\ TaskBut(w.task)
    /\ task'[w.task] = Idle
    /\ writes' = writes \ {w}
    /\ cookie' = cookie \cup {w.data.id}
    /\ UNCHANGED <<clock, store, last, born, granted, loggedOut>>

StoreEffect(w) ==
    /\ w \in writes /\ w \in Write /\ ~w.applied
    /\ \/ store' = [store EXCEPT ![w.data.id] = w.data]
       \/ ~UpdateInserts /\ store' = store
    /\ \A v \in writes' :
         \/ v \in writes /\ v # w
         \/ /\ v \in Write /\ v.applied
            /\ v.task = w.task /\ v.obj = w.obj /\ v.data = w.data
            /\ w.obj # NoRef
    /\ \A u, v \in writes' : u \notin writes /\ v \notin writes => u = v
    /\ UNCHANGED <<clock, heap, mem, last, task, born, cookie, granted, loggedOut>>

TickEffect ==
    /\ clock' = clock + 1
    /\ \A t \in Task : InGet(t) => clock < task[t].since + Latency
    /\ Ordinary /\ BirthsKept
    /\ \A p \in Proc, i \in Id :
         \/ mem'[p][i].obj = NoRef
         \/ mem'[p][i] = mem[p][i] /\ clock' < mem[p][i].until
    /\ UNCHANGED <<last, task, writes, granted, loggedOut>>

(* Collecting what is not held loses objects.                              *)
LEMMA CollectBut ==
    ASSUME IInv, NEW p \in Proc, NEW cells, Collect(p, cells)
    PROVE  /\ \A q \in Proc, x \in Obj :
                heap'[q][x] \in Session =>
                  \/ q # p /\ heap'[q][x] = heap[q][x]
                  \/ q = p /\ heap'[q][x] = cells[x]
           /\ \A q \in Proc : q # p => heap'[q] = heap[q]
<1>1. heap \in [Proc -> Cells]
  BY DEF IInv, TypeOK, AccessorTypeOK, Cells
<1>. QED
  BY <1>1, NamesAssumption DEF Collect, KeepHeld

(* The same when one object is changed.                                    *)
LEMMA CollectOne ==
    ASSUME IInv, NEW p \in Proc, NEW o \in Obj, NEW s,
           Collect(p, [heap[p] EXCEPT ![o] = s])
    PROVE  HeapBut(p, o, s)
<1>. DEFINE cells == [heap[p] EXCEPT ![o] = s]
<1>1. heap[p] \in Cells
  BY SameCells
<1>2. \A x \in Obj : cells[x] = IF x = o THEN s ELSE heap[p][x]
  BY <1>1 DEF Cells
<1>3. Collect(p, cells)
  OBVIOUS
<1>. HIDE DEF cells
<1>. QED
  BY <1>2, <1>3, CollectBut DEF HeapBut

(* A login.                                                                *)
LEMMA LoginHasEffect ==
    ASSUME IInv, NEW t \in Task, t[1] \in Portals, NEW i \in Id, Login(t, i),
           UNCHANGED granted
    PROVE  \E o, s, c : LoginEffect(t, i, o, s, c)
<1>. DEFINE p == t[1]
            o == NewObj(p)
            s == [id |-> i, utime |-> clock, lastSeen |-> clock, data |-> "new"]
            c == UpdateCall(t, o, s)
            r == [Idle EXCEPT !.kind = "login", !.pc = "create", !.id = i, !.ref = o]
<1>1. p \in Proc /\ clock \in Time /\ task \in [Task -> TaskState]
  BY DEF Task, IInv, TypeOK, AccessorTypeOK
<1>2. s \in Session /\ s.id = i /\ s.utime = clock /\ s.data = "new"
  BY <1>1 DEF Session
<1>3. o \in Obj
  BY NewObjIsFree DEF Login
<1>4. Collect(p, [heap[p] EXCEPT ![o] = s]) /\ task' = [task EXCEPT ![t] = r]
        /\ writes' = writes \cup {c} /\ task[t] = Idle /\ born[i] = 0
        /\ born' = [born EXCEPT ![i] = clock]
        /\ UNCHANGED <<clock, store, mem, last, cookie, loggedOut>>
  BY DEF Login
<1>5. r.kind = "login" /\ r.pc = "create" /\ r.id = i /\ r.ref = o /\ r.ans = NoSession
  BY DEF Idle
<1>. HIDE DEF s, o, r
<1>6. c \in Write /\ c.task = t /\ c.obj = o /\ c.data = s /\ ~c.applied
  BY <1>2, <1>3 DEF UpdateCall, Write
<1>. HIDE DEF c
<1>7. HeapBut(p, o, s)
  BY <1>1, <1>3, <1>4, CollectOne
<1>8. task'[t] = r /\ TaskBut(t)
  BY <1>1, <1>4 DEF TaskBut
<1>9. LoginEffect(t, i, o, s, c)
  BY <1>2, <1>3, <1>4, <1>5, <1>6, <1>7, <1>8 DEF LoginEffect
<1>. QED
  BY <1>9

(* An update of a login that answered.                                     *)
LEMMA LoginWrites ==
    ASSUME IInv, LifeInv, NEW w \in writes, w.applied,
           task[w.task].pc \in {"create", "info"}
    PROVE  /\ LoginWrite(w) /\ w.task \in Task /\ w.task[1] \in Proc
           /\ heap[w.task[1]][w.obj] \in Session
           /\ heap[w.task[1]][w.obj].id = w.data.id
<1>1. w.obj # NoRef
  BY DEF IInv, PcOK
<1>2. /\ w \in Write /\ w.task \in Task /\ w.task[1] \in Proc /\ w.obj \in Obj
      /\ heap[w.task[1]][w.obj] \in Session
      /\ heap[w.task[1]][w.obj].id = w.data.id
  BY <1>1, PendingFits DEF Fits, IInv, TypeOK, AccessorTypeOK
<1>3. w.task[1] \in Portals
  BY <1>2 DEF LifeInv, TasksSound, Proc
<1>4. /\ task[w.task].id = w.data.id /\ task[w.task].ref = w.obj
      /\ \A v \in writes : v.task = w.task /\ v.obj # NoRef => v = w
  BY <1>1, <1>3 DEF LifeInv, WritesSound
<1>. QED
  BY <1>2, <1>3, <1>4 DEF LoginWrite

(* The session of a login is filled.                                       *)
LEMMA CreatedHasEffect ==
    ASSUME IInv, LifeInv, NEW w \in writes, Created(w), UNCHANGED granted
    PROVE  \E s, c : FillEffect(w, s, c)
<1>. DEFINE t == w.task
            p == t[1]
            o == w.obj
<1>1. /\ LoginWrite(w) /\ t \in Task /\ p \in Proc
      /\ heap[p][o] \in Session /\ heap[p][o].id = w.data.id
      /\ task[t].pc = "create"
  BY LoginWrites DEF Created
<1>2. PICK d \in {"reset", "full"} :
        LET s == [heap[p][o] EXCEPT !.data = d, !.lastSeen = clock]
        IN  /\ writes' = (writes \ {w}) \cup {UpdateCall(t, o, s)}
            /\ Collect(p, [heap[p] EXCEPT ![o] = s])
  BY DEF Created
<1>. DEFINE s == [heap[p][o] EXCEPT !.data = d, !.lastSeen = clock]
            c == UpdateCall(t, o, s)
<1>3. writes' = (writes \ {w}) \cup {c} /\ Collect(p, [heap[p] EXCEPT ![o] = s])
  BY <1>2
<1>4. o \in Obj /\ clock \in Time /\ task \in [Task -> TaskState]
        /\ mem \in [Proc -> Cache]
  BY <1>1 DEF LoginWrite, IInv, TypeOK, AccessorTypeOK, Cache, Entry
<1>5. s \in Session /\ s.id = w.data.id /\ s.data # "new" /\ Touched(heap[p][o], s)
  BY <1>1, <1>4 DEF Session, Touched
<1>. HIDE DEF s
<1>6. c \in Write /\ c.task = t /\ c.obj = o /\ c.data = s /\ ~c.applied
  BY <1>1, <1>4, <1>5 DEF UpdateCall, Write
<1>. HIDE DEF c
<1>7. HeapBut(p, o, s)
  BY <1>1, <1>3, <1>4, CollectOne
<1>8. task'[t] = [task[t] EXCEPT !.pc = "info"] /\ TaskBut(t) /\ MemBut(p)
  BY <1>1, <1>4 DEF TaskBut, MemBut, Created
<1>9. FillEffect(w, s, c)
  BY <1>1, <1>3, <1>5, <1>6, <1>7, <1>8 DEF FillEffect, Created
<1>. QED
  BY <1>9

(* The cookie is given.                                                    *)
LEMMA OpenedHasEffect ==
    ASSUME IInv, LifeInv, NEW w \in writes, Opened(w), UNCHANGED granted
    PROVE  OpenEffect(w)
<1>. DEFINE t == w.task
            p == t[1]
<1>1. LoginWrite(w) /\ t \in Task /\ p \in Proc
  BY LoginWrites DEF Opened
<1>2. task \in [Task -> TaskState] /\ mem \in [Proc -> Cache]
  BY DEF IInv, TypeOK, AccessorTypeOK, Cache, Entry
<1>3. task'[t] = Idle /\ TaskBut(t) /\ MemBut(p)
  BY <1>1, <1>2 DEF TaskBut, MemBut, Opened
<1>4. \A q \in Proc, x \in Obj :
        heap'[q][x] \in Session => heap'[q][x] = heap[q][x]
  BY <1>1, CollectBut DEF Opened
<1>. QED
  BY <1>1, <1>3, <1>4 DEF OpenEffect, Opened

(* The store writes a record.                                              *)
LEMMA UpdateHasEffect ==
    ASSUME IInv, NEW w \in writes, BackendUpdate(w),
           UNCHANGED <<cookie, granted, born, loggedOut>>
    PROVE  StoreEffect(w)
<1>. DEFINE v == [w EXCEPT !.applied = TRUE]
<1>1. w \in Write
  BY DEF IInv, TypeOK, AccessorTypeOK
<1>2. v \in Write /\ v.applied /\ v.task = w.task /\ v.obj = w.obj /\ v.data = w.data
  BY <1>1 DEF Write
<1>3. writes' = IF w.obj = NoRef THEN writes \ {w} ELSE (writes \ {w}) \cup {v}
  BY DEF BackendUpdate
<1>. HIDE DEF v
<1>4. \/ store' = [store EXCEPT ![w.data.id] = w.data]
      \/ ~UpdateInserts /\ store' = store
  BY DEF BackendUpdate, FileWrite, SqlWrite
<1>5. \A u \in writes' : (u \in writes /\ u # w) \/ (u = v /\ w.obj # NoRef)
  <2>1. CASE w.obj = NoRef
    BY <1>3, <2>1
  <2>2. CASE w.obj # NoRef
    BY <1>3, <2>2
  <2>. QED
    BY <2>1, <2>2
<1>. QED
  BY <1>1, <1>2, <1>4, <1>5 DEF StoreEffect, BackendUpdate

(* Time passes.                                                            *)
LEMMA TickHasEffect ==
    ASSUME IInv, Tick, UNCHANGED <<cookie, granted, born, loggedOut>>
    PROVE  TickEffect
<1>. USE NamesAssumption
<1>1. heap \in [Proc -> Cells] /\ mem \in [Proc -> Cache] /\ clock \in Nat
        /\ clock' \in Nat
  BY DEF IInv, TypeOK, AccessorTypeOK, Cells, Cache, Entry, Tick, Time
<1>2. \A p \in Proc, o \in Obj :
        heap'[p][o] = IF o \in Held(p)' THEN heap[p][o] ELSE NoSession
  BY <1>1 DEF Tick, KeepHeld
<1>3. HeapEffect
  BY <1>2, TouchedSame DEF HeapEffect, CellsFrom, ComesFrom
<1>4. BirthsKept
  BY <1>2 DEF BirthsKept, Proc
<1>5. ASSUME NEW p \in Proc, NEW i \in Id
      PROVE  \/ mem'[p][i].obj = NoRef
             \/ mem'[p][i] = mem[p][i] /\ clock' < mem[p][i].until
  <2>1. mem'[p][i] = IF mem[p][i].until <= clock' THEN NoEntry ELSE mem[p][i]
    BY DEF Tick
  <2>2. mem[p][i].until \in Nat
    BY <1>1 DEF Cache, Entry, Time
  <2>. QED
    BY <1>1, <2>1, <2>2 DEF NoEntry
<1>6. TaskEffect /\ WriteEffect
  BY FewerWrites DEF Tick
<1>. QED
  BY <1>3, <1>4, <1>5, <1>6 DEF TickEffect, Ordinary, Tick

(* The answer of the store is on its way.                                  *)
LEMMA BackendGetEffect ==
    ASSUME IInv, LifeInv, NEW t \in Task, BackendGet(t) \/ BackendGetFails(t),
           UNCHANGED <<cookie, granted, born, loggedOut>>
    PROVE  Effect
<1>1. PICK a \in {store[task[t].id], NoSession} :
        /\ task' = [task EXCEPT ![t].ans = a]
        /\ a = store[task[t].id] \/ Faulty
  BY DEF BackendGet, BackendGetFails
<1>. DEFINE r == [task[t] EXCEPT !.ans = a]
<1>2. /\ InGet(t) /\ UNCHANGED <<clock, store, heap, mem, last, writes>>
  BY DEF BackendGet, BackendGetFails
<1>3. task \in [Task -> TaskState]
  BY DEF IInv, TypeOK, AccessorTypeOK
<1>4. task' = [task EXCEPT ![t] = r] /\ task'[t] = r
  BY <1>1, <1>3
<1>5. r.kind = task[t].kind /\ r.pc = task[t].pc /\ r.id = task[t].id
        /\ r.since = task[t].since /\ r.ans = a
  BY <1>3 DEF TaskState
<1>. HIDE DEF r
<1>6. GoesOn(t)
  BY <1>1, <1>2, <1>4, <1>5 DEF GoesOn, LifeInv, TasksSound, InGet
<1>7. TaskEffect /\ WriteEffect
  BY <1>2, <1>4, <1>6, RequestEffect DEF InGet
<1>8. HeapEffect /\ CacheEffect
  BY <1>2, SameCaches
<1>. QED
  BY <1>2, <1>7, <1>8 DEF Effect, Ordinary, GrantEffect, ReportEffect

(* A full cache pushes an entry out.                                       *)
LEMMA EvictEffect ==
    ASSUME IInv, IInv', NEW p \in Proc, NEW i \in Id, Evict(p, i),
           UNCHANGED <<cookie, granted, born, loggedOut>>
    PROVE  Effect
<1>. DEFINE c == CacheDrop(mem[p], i)
<1>1. mem \in [Proc -> Cache] /\ last \in [Proc -> Last]
  BY DEF IInv, TypeOK, AccessorTypeOK, Cache, Entry, Last
<1>2. MemFrom(p, heap[p], c)
  <2>1. \A j \in Id : c[j].obj = NoRef \/ c[j] = mem[p][j]
    BY <1>1 DEF CacheDrop, NoEntry, Cache
  <2>. QED
    BY <2>1 DEF MemFrom
<1>3. mem' = [mem EXCEPT ![p] = c] /\ last' = [last EXCEPT ![p] = last[p]]
        /\ LastFrom(p, last[p])
  BY <1>1 DEF Evict, LastFrom
<1>4. heap[p] \in Cells /\ CellsFrom(p, heap[p]) /\ SameBirths(p, heap[p])
  BY SameCells
<1>. HIDE DEF c
<1>5. HeapEffect /\ CacheEffect
  BY <1>2, <1>3, <1>4, CallbackEffect DEF Evict
<1>6. TaskEffect /\ WriteEffect
  BY FewerWrites DEF Evict
<1>. QED
  BY <1>5, <1>6 DEF Evict, Effect, Ordinary, GrantEffect, ReportEffect

(* Nothing happens.                                                        *)
LEMMA StutterEffect ==
    ASSUME IInv, UNCHANGED vars
    PROVE  Effect
<1>1. UNCHANGED <<clock, store, heap, mem, last, ready, task, writes, cookie, granted,
                  born, loggedOut>>
  BY DEF vars, accessorVars
<1>2. HeapEffect /\ CacheEffect /\ TaskEffect /\ WriteEffect
  BY <1>1, SameCaches, FewerWrites
<1>. QED
  BY <1>1, <1>2 DEF Effect, Ordinary, GrantEffect, ReportEffect

(* What a step may do.                                                     *)
LEMMA StepEffect ==
    ASSUME IInv, IInv', LifeInv, [Next]_vars
    PROVE  \/ Effect
           \/ TickEffect
           \/ \E t, i, o, s, c : LoginEffect(t, i, o, s, c)
           \/ \E w, s, c : FillEffect(w, s, c)
           \/ \E w : OpenEffect(w)
           \/ \E w : StoreEffect(w)
<1>0. /\ cookie \subseteq Id
      /\ \A p \in Portals, s \in Slots : <<p, s>> \in Task
      /\ TasksSound
  BY DEF IInv, TypeOK, Proc, Task, LifeInv
<1>1. CASE HandlerNext /\ UNCHANGED <<born, loggedOut>>
  BY <1>0, <1>1, HandlerEffect
<1>2. CASE PortalNext /\ UNCHANGED granted
  <2>1. ASSUME NEW t \in Task, t[1] \in Portals, NEW i \in Id, Login(t, i)
        PROVE  \E o, s, c : LoginEffect(t, i, o, s, c)
    BY <1>2, <2>1, LoginHasEffect
  <2>2. ASSUME NEW t \in Task, t[1] \in Portals, NEW k \in Requests, NEW i \in cookie,
               EnterFromMemory(t, k, i) \/ EnterFromStore(t, k, i)
        PROVE  Effect
    BY <1>2, <2>2, EnterFromMemoryEffect, EnterFromStoreEffect
  <2>3. ASSUME NEW t \in Task, t[1] \in Portals,
               \/ GotSession(t)
               \/ PasswordChanged(t)
               \/ PasswordDone(t)
        PROVE  Effect
    BY <1>2, <2>3, GotSessionEffect, PasswordChangedEffect, PasswordDoneEffect
  <2>4. ASSUME NEW t \in Task, t[1] \in Portals,
               \/ DeleteFromMemory(t)
               \/ DeleteFromStore(t)
               \/ GotForDelete(t)
               \/ NothingToDelete(t)
        PROVE  Effect
    BY <1>2, <2>4, DeleteFromMemoryEffect, DeleteFromStoreEffect, GotForDeleteEffect,
       NothingToDeleteEffect
  <2>5. ASSUME NEW w \in writes, Saved(w) \/ SaveFails(w)
        PROVE  Effect
    BY <1>2, <2>5, SavedEffect, SaveFailsEffect
  <2>6. ASSUME NEW w \in writes, Created(w) \/ Opened(w)
        PROVE  (\E s, c : FillEffect(w, s, c)) \/ OpenEffect(w)
    BY <1>2, <2>6, CreatedHasEffect, OpenedHasEffect
  <2>. DEFINE Some == \/ \E t, i, o, s, c : LoginEffect(t, i, o, s, c)
                      \/ \E w, s, c : FillEffect(w, s, c)
                      \/ \E w : OpenEffect(w)
                      \/ Effect
  <2>7. ASSUME NEW p \in Portals, NEW s \in Slots, NEW i \in Id, Login(<<p, s>>, i)
        PROVE  Some
    BY <1>0, <2>1, <2>7
  <2>8. ASSUME NEW p \in Portals, NEW s \in Slots, NEW k \in Requests, NEW i \in cookie,
               EnterFromMemory(<<p, s>>, k, i) \/ EnterFromStore(<<p, s>>, k, i)
        PROVE  Some
    BY <1>0, <2>2, <2>8
  <2>9. ASSUME NEW p \in Portals, NEW s \in Slots,
               \/ GotSession(<<p, s>>)
               \/ DeleteFromMemory(<<p, s>>)
               \/ DeleteFromStore(<<p, s>>)
               \/ GotForDelete(<<p, s>>)
               \/ NothingToDelete(<<p, s>>)
               \/ PasswordChanged(<<p, s>>)
               \/ PasswordDone(<<p, s>>)
        PROVE  Some
    BY <1>0, <2>3, <2>4, <2>9
  <2>10. ASSUME NEW w \in writes, Created(w) \/ Opened(w) \/ Saved(w) \/ SaveFails(w)
         PROVE  Some
    BY <2>5, <2>6, <2>10
  <2>. HIDE DEF Some
  <2>11. Some
    BY <1>2, <2>7, <2>8, <2>9, <2>10 DEF PortalNext
  <2>. QED
    BY <2>11 DEF Some
<1>3. CASE StoreNext /\ UNCHANGED <<cookie, granted, born, loggedOut>>
  BY <1>3, BackendGetEffect, UpdateHasEffect DEF StoreNext
<1>4. CASE ProcessNext /\ UNCHANGED <<cookie, granted, born, loggedOut>>
  BY <1>4, EvictEffect, RestartEffect DEF ProcessNext, Crash
<1>5. CASE Tick /\ UNCHANGED <<cookie, granted, born, loggedOut>>
  BY <1>5, TickHasEffect
<1>6. CASE UNCHANGED vars
  BY <1>6, StutterEffect
<1>. QED
  BY <1>1, <1>2, <1>3, <1>4, <1>5, <1>6 DEF Next

-----------------------------------------------------------------------------
(* LifeInv is inductive *)

(* An ordinary step.                                                       *)
LEMMA OrdinaryRecords ==
    ASSUME IInv, LifeInv, Ordinary
    PROVE  RecordsSound'
<1>. USE NamesAssumption
<1>1. UNCHANGED <<store, born>> /\ HeapEffect /\ TaskEffect /\ WriteEffect
        /\ RecordsSound
  BY DEF Ordinary, LifeInv
<1>2. \A r, s : Touched(r, s) /\ Sound(r) => Sound(s)
  BY DEF Touched, Sound
<1>3. \A p \in Proc, o \in Obj : \A s : ComesFrom(p, o, s) => Sound(s)
  BY <1>1, <1>2 DEF ComesFrom, RecordsSound
<1>4. \A p \in Proc, o \in Obj : Sound(heap'[p][o])
  <2>. SUFFICES ASSUME NEW p \in Proc, NEW o \in Obj, heap'[p][o] \in Session
                PROVE  Sound(heap'[p][o])
    BY DEF Sound
  <2>. QED
    BY <1>1, <1>3 DEF HeapEffect, CellsFrom
<1>5. \A t \in Task : Sound(task'[t].ans)
  <2>. SUFFICES ASSUME NEW t \in Task, task'[t].ans \in Session
                PROVE  Sound(task'[t].ans)
    BY DEF Sound
  <2>1. CASE task'[t] = task[t]
    BY <1>1, <2>1 DEF RecordsSound
  <2>2. CASE task'[t] = Idle
    BY <2>2 DEF Idle
  <2>3. CASE GoesOn(t)
    <3>1. task'[t].ans \in {task[t].ans, store[task[t].id]}
      BY <2>3 DEF GoesOn
    <3>2. task[t].pc # "idle" => task[t].id \in Id
      BY DEF IInv, PcOK
    <3>3. task'[t].ans = task[t].ans \/ task[t].id \in Id
      BY <2>3, <3>1, <3>2 DEF GoesOn, InGet
    <3>. QED
      BY <1>1, <3>1, <3>3 DEF RecordsSound
  <2>. QED
    BY <1>1, <2>1, <2>2, <2>3 DEF TaskEffect
<1>6. \A w \in writes' : Sound(w.data)
  <2>. SUFFICES ASSUME NEW w \in writes', Called(w)
                PROVE  Sound(w.data)
    BY <1>1 DEF WriteEffect, Remains, RecordsSound
  <2>1. w.task[1] \in Proc /\ w.obj \in Obj
    BY DEF Called, Write, Task
  <2>. QED
    BY <1>3, <2>1 DEF Called
<1>7. \A r : Sound(r) <=> Sound(r)'
  BY <1>1 DEF Sound
<1>. QED
  BY <1>1, <1>4, <1>5, <1>6 DEF RecordsSound, Sound

LEMMA OrdinaryTasks ==
    ASSUME IInv, LifeInv, Ordinary
    PROVE  TasksSound'
<1>. USE NamesAssumption
<1>1. UNCHANGED <<born, cookie>> /\ TaskEffect /\ TasksSound
        /\ \A i \in cookie : born[i] # 0
  BY DEF Ordinary, LifeInv
<1>. SUFFICES ASSUME NEW t \in Task
              PROVE  /\ task'[t].id \in Id => born[task'[t].id] # 0
                     /\ task'[t].pc \in {"get", "loaded", "delete", "save"}
                          => task'[t].id \in cookie
                     /\ task'[t].kind = "logout" => task'[t].id \in cookie
                     /\ task'[t].pc = "delete" => task'[t].kind = "logout"
                     /\ ~InGet(t)' => task'[t].ans = NoSession
                     /\ t[1] \in Handlers => task'[t].pc \in {"idle", "get"}
  BY <1>1 DEF TasksSound
<1>2. CASE task'[t] = task[t]
  BY <1>1, <1>2 DEF TasksSound, InGet
<1>3. CASE task'[t] = Idle
  BY <1>3 DEF Idle, InGet
<1>4. CASE GoesOn(t)
  BY <1>1, <1>4 DEF GoesOn
<1>. QED
  BY <1>1, <1>2, <1>3, <1>4 DEF TaskEffect

LEMMA OrdinaryWrites ==
    ASSUME IInv, LifeInv, Ordinary
    PROVE  WritesSound'
<1>. USE NamesAssumption
<1>1. UNCHANGED cookie /\ WriteEffect /\ WritesSound
  BY DEF Ordinary, LifeInv
<1>. DEFINE Portals1(w) == w.task[1] \in Portals /\ w.obj # NoRef
<1>2. ASSUME NEW w \in writes', Portals1(w)
      PROVE  \/ w \in writes /\ task'[w.task] = task[w.task]
             \/ Called(w) /\ w \notin writes
  <2>1. ASSUME NEW v \in writes, Remains(v, w)
        PROVE  w \in writes /\ task'[w.task] = task[w.task]
    BY <1>2, <2>1 DEF Remains
  <2>2. ASSUME Called(w)
        PROVE  w \notin writes
    BY <1>1, <1>2, <2>2 DEF Called, WritesSound
  <2>. QED
    BY <1>1, <2>1, <2>2 DEF WriteEffect
<1>3. ASSUME NEW w \in writes', w.task[1] \in Handlers
      PROVE  w.data.id \in cookie
  BY <1>1, <1>3 DEF WriteEffect, Remains, Called, WritesSound
<1>4. ASSUME NEW w \in writes', Portals1(w)
      PROVE  /\ task'[w.task].pc \in {"create", "info", "save"}
             /\ task'[w.task].id = w.data.id
             /\ task'[w.task].ref = w.obj
  BY <1>1, <1>2, <1>4 DEF WritesSound, Called
<1>5. ASSUME NEW w \in writes', NEW v \in writes', Portals1(w), v.task = w.task,
             v.obj # NoRef
      PROVE  v = w
  <2>1. Portals1(v)
    BY <1>5
  <2>2. CASE w \in writes /\ v \in writes
    BY <1>1, <1>5, <2>2 DEF WritesSound
  <2>3. CASE w \in writes /\ Called(v)
    BY <1>1, <1>5, <2>1, <2>3 DEF WritesSound, Called
  <2>4. CASE Called(w) /\ v \in writes
    BY <1>1, <1>5, <2>1, <2>4 DEF WritesSound, Called
  <2>5. CASE w \notin writes /\ v \notin writes
    BY <1>1, <1>5, <2>5 DEF WriteEffect
  <2>. QED
    BY <1>2, <1>5, <2>1, <2>2, <2>3, <2>4, <2>5
<1>. QED
  BY <1>1, <1>3, <1>4, <1>5 DEF WritesSound

(* What a handler accepts is a session that did not expire, as it is now   *)
(* or was when the store was asked.                                        *)
LEMMA AcceptedFresh ==
    ASSUME IInv, LifeInv, NEW h, NEW e, Accepted(h, e), e.time \in Nat
    PROVE  /\ e.id \in Id
           /\ Start <= e.time /\ e.time <= clock /\ clock <= e.time + Latency
           /\ e.time <= born[e.id] + Timeout
<1>. USE NamesAssumption, TimesAssumption
<1>1. /\ TimesSound /\ RecordsSound /\ h \in Handlers /\ h \in Proc /\ e.id \in Id
      /\ clock \in Nat /\ born \in [Id -> Nat] /\ Latency \in Nat /\ Timeout \in Nat
  BY DEF Accepted, Proc, LifeInv, IInv, TypeOK, AccessorTypeOK, Time
<1>2. PICK r \in Session : /\ e.time - r.utime <= Timeout
                           /\ Sound(r) /\ r.id = e.id
                           /\ Start <= e.time /\ e.time <= clock
                           /\ clock <= e.time + Latency
  <2>1. CASE /\ mem[h][e.id].obj # NoRef
             /\ e.time = clock
             /\ e.time - heap[h][mem[h][e.id].obj].utime <= Timeout
    <3>1. Good(heap, h, mem[h][e.id].obj, e.id)
      BY <1>1, <2>1 DEF IInv, Own, MemOwn
    <3>2. Sound(heap[h][mem[h][e.id].obj])
      BY <1>1, <3>1 DEF RecordsSound, Good
    <3>3. Start <= e.time
      BY <1>1, <2>1 DEF TimesSound
    <3>4. e.time <= clock /\ clock <= e.time + Latency
      BY <1>1, <2>1
    <3>. QED
      BY <2>1, <3>1, <3>2, <3>3, <3>4 DEF Good
  <2>2. ASSUME NEW t \in Task, InGet(t), task[t].id = e.id, task[t].ans \in Session,
               e.time = task[t].since, e.time - task[t].ans.utime <= Timeout
        PROVE  \E r \in Session : /\ e.time - r.utime <= Timeout
                                  /\ Sound(r) /\ r.id = e.id
                                  /\ Start <= e.time /\ e.time <= clock
                                  /\ clock <= e.time + Latency
    <3>1. task[t].ans.id = e.id
      BY <2>2 DEF IInv, Own, AnsOwn
    <3>2. Sound(task[t].ans)
      BY <1>1 DEF RecordsSound
    <3>3. Start <= e.time /\ e.time <= clock /\ clock <= e.time + Latency
      BY <1>1, <2>2 DEF TimesSound
    <3>. QED
      BY <2>2, <3>1, <3>2, <3>3
  <2>. QED
    BY <2>1, <2>2 DEF Accepted
<1>3. r.utime \in Nat /\ r.id \in Id
  BY DEF Session, Time
<1>4. r.utime # 0
  BY <1>1, <1>2, <1>3 DEF Start
<1>5. r.utime = born[e.id]
  BY <1>2, <1>4 DEF Sound
<1>6. born[e.id] \in Nat
  BY <1>1
<1>7. e.time <= born[e.id] + Timeout
  BY <1>1, <1>2, <1>3, <1>5, <1>6
<1>. QED
  BY <1>1, <1>2, <1>7

LEMMA EffectTimes ==
    ASSUME IInv, IInv', LifeInv, Effect
    PROVE  TimesSound'
<1>. USE NamesAssumption, TimesAssumption
<1>1. UNCHANGED <<clock, born>> /\ TaskEffect /\ LastEffect /\ TimesSound
        /\ RecordsSound
  BY DEF Effect, Ordinary, CacheEffect, LifeInv
<1>2. clock \in Nat /\ born \in [Id -> Nat] /\ Latency \in Nat /\ Timeout \in Nat
  BY DEF IInv, TypeOK, AccessorTypeOK, Time
<1>3. \A t \in Task : InGet(t)' =>
        /\ Start <= task'[t].since
        /\ task'[t].since <= clock
        /\ clock <= task'[t].since + Latency
  <2>. SUFFICES ASSUME NEW t \in Task, InGet(t)'
                PROVE  \/ InGet(t) /\ task'[t].since = task[t].since
                       \/ task'[t].since = clock
    BY <1>1, <1>2 DEF TimesSound
  <2>. QED
    BY <1>1 DEF TaskEffect, GoesOn, Idle, InGet
<1>4. ASSUME NEW p \in Proc, last'[p].obj # NoRef
      PROVE  last'[p].time <= born[last'[p].id] + Timeout
  <2>1. CASE last'[p] = last[p]
    BY <1>1, <1>4, <2>1 DEF TimesSound
  <2>2. CASE Accepted(p, last'[p])
    <3>1. last'[p].time \in Nat
      BY DEF IInv, TypeOK, AccessorTypeOK, Time
    <3>. QED
      BY <2>2, <3>1, AcceptedFresh
  <2>. QED
    BY <1>1, <1>4, <2>1, <2>2 DEF LastEffect
<1>. QED
  BY <1>1, <1>3, <1>4 DEF TimesSound

LEMMA TickTimes ==
    ASSUME IInv, LifeInv, TickEffect
    PROVE  TimesSound'
<1>. USE TimesAssumption
<1>1. clock \in Nat /\ born \in [Id -> Nat] /\ Latency \in Nat /\ Timeout \in Nat
        /\ \A t \in Task : task[t].since \in Nat
  BY DEF IInv, TypeOK, AccessorTypeOK, Time, TaskState
<1>2. /\ clock' = clock + 1 /\ UNCHANGED <<last, task, born>>
      /\ \A t \in Task : InGet(t) => clock < task[t].since + Latency
      /\ TimesSound
  BY DEF TickEffect, Ordinary, LifeInv
<1>3. \A i \in Id : born[i] \in Nat
  BY <1>1
<1>30. Start \in Nat
  BY <1>1 DEF Start
<1>31. /\ Start <= clock
       /\ \A i \in Id : born[i] <= clock
       /\ \A p \in Proc :
            last[p].obj # NoRef => last[p].time <= born[last[p].id] + Timeout
       /\ last' = last /\ born' = born
  BY <1>2 DEF TimesSound
<1>4. Start <= clock' /\ \A i \in Id : born'[i] <= clock'
  BY <1>1, <1>2, <1>3, <1>30, <1>31
<1>5. ASSUME NEW t \in Task, InGet(t)'
      PROVE  /\ Start <= task'[t].since
             /\ task'[t].since <= clock'
             /\ clock' <= task'[t].since + Latency
  <2>1. InGet(t) /\ task'[t] = task[t]
    BY <1>2, <1>5 DEF InGet
  <2>2. /\ Start <= task[t].since /\ task[t].since <= clock
        /\ clock < task[t].since + Latency
    BY <1>2, <2>1 DEF TimesSound
  <2>3. task[t].since \in Nat
    BY <1>1
  <2>. QED
    BY <1>1, <1>2, <2>1, <2>2, <2>3
<1>. QED
  BY <1>31, <1>4, <1>5 DEF TimesSound

(* A login.                                                                *)
LEMMA LoginLife ==
    ASSUME IInv, IInv', LifeInv, NEW t, NEW i, NEW o, NEW s, NEW c,
           LoginEffect(t, i, o, s, c)
    PROVE  LifeInv'
<1>. USE NamesAssumption
<1>0. /\ t \in Task /\ t[1] \in Portals /\ i \in Id /\ o \in Obj
      /\ task[t] = Idle /\ born[i] = 0
      /\ s \in Session /\ s.id = i /\ s.utime = clock
      /\ c \in Write /\ c.task = t /\ c.obj = o /\ c.data = s
      /\ HeapBut(t[1], o, s) /\ TaskBut(t)
      /\ task'[t].kind = "login" /\ task'[t].pc = "create" /\ task'[t].id = i
      /\ task'[t].ref = o /\ task'[t].ans = NoSession
      /\ writes' = writes \cup {c}
      /\ born' = [born EXCEPT ![i] = clock]
      /\ UNCHANGED <<clock, store, last, cookie>>
  BY DEF LoginEffect
<1>1. RecordsSound /\ TimesSound /\ TasksSound /\ WritesSound
        /\ \A j \in cookie : born[j] # 0
  BY DEF LifeInv
<1>2. born \in [Id -> Nat] /\ clock \in Nat /\ clock # 0
  BY <1>1, TimesAssumption DEF IInv, TypeOK, AccessorTypeOK, Time, TimesSound, Start
<1>3. \A j \in Id : born'[j] = IF j = i THEN clock ELSE born[j]
  BY <1>0, <1>2
<1>4. ASSUME NEW r, Sound(r), r \in Session
      PROVE  Sound(r)' /\ r.id # i
  BY <1>0, <1>3, <1>4 DEF Sound, Session
<1>5. Sound(s)'
  BY <1>0, <1>2, <1>3 DEF Sound
<1>6. RecordsSound'
  <2>1. \A j \in Id : store'[j] \in Session => Sound(store[j])'
    BY <1>0, <1>1, <1>4 DEF RecordsSound
  <2>2. ASSUME NEW p \in Proc, NEW x \in Obj, heap'[p][x] \in Session
        PROVE  Sound(heap[p][x])'
    <3>1. CASE heap'[p][x] = heap[p][x]
      BY <1>1, <1>4, <2>2, <3>1 DEF RecordsSound, Sound
    <3>2. CASE heap'[p][x] = s
      BY <1>5, <3>2 DEF Sound
    <3>. QED
      BY <1>0, <2>2, <3>1, <3>2 DEF HeapBut
  <2>3. ASSUME NEW u \in Task, task'[u].ans \in Session
        PROVE  Sound(task[u].ans)'
    BY <1>0, <1>1, <1>4, <2>3 DEF RecordsSound, TaskBut, Sound
  <2>4. ASSUME NEW w \in writes'
        PROVE  Sound(w.data)'
    <3>1. CASE w \in writes
      BY <1>1, <1>4, <3>1 DEF RecordsSound, Sound
    <3>2. CASE w = c
      BY <1>0, <1>5, <3>2 DEF Sound
    <3>. QED
      BY <1>0, <3>1, <3>2
  <2>. QED
    BY <2>1, <2>2, <2>3, <2>4 DEF RecordsSound, Sound
<1>7. TimesSound'
  <2>1. ASSUME NEW p \in Proc, last[p].obj # NoRef
        PROVE  last[p].id # i /\ last[p].id \in Id
    <3>1. Good(heap, p, last[p].obj, last[p].id)
      BY <2>1 DEF IInv, Own, LastOwn
    <3>. QED
      BY <1>0, <1>1, <3>1 DEF Good, RecordsSound, Sound, Session
  <2>2. \A u \in Task : InGet(u)' => InGet(u) /\ task'[u] = task[u]
    BY <1>0 DEF TaskBut, InGet
  <2>. QED
    BY <1>0, <1>1, <1>2, <1>3, <2>1, <2>2 DEF TimesSound
<1>8. TasksSound'
  <2>1. ASSUME NEW u \in Task, u # t
        PROVE  task'[u] = task[u] /\ (task[u].id \in Id => born'[task[u].id] # 0)
    BY <1>0, <1>1, <1>2, <1>3, <2>1 DEF TaskBut, TasksSound
  <2>. QED
    BY <1>0, <1>1, <1>2, <1>3, <2>1 DEF TasksSound, InGet
<1>9. WritesSound'
  <2>1. \A w \in writes : w.task[1] \in Portals /\ w.obj # NoRef => w.task # t
    BY <1>0, <1>1 DEF WritesSound, Idle
  <2>2. \A w \in writes : w.task \in Task
    BY DEF IInv, TypeOK, AccessorTypeOK, Write
  <2>. QED
    BY <1>0, <1>1, <2>1, <2>2 DEF WritesSound, TaskBut
<1>10. \A j \in cookie' : born'[j] # 0
  BY <1>0, <1>1, <1>2, <1>3 DEF IInv, TypeOK
<1>. QED
  BY <1>6, <1>7, <1>8, <1>9, <1>10 DEF LifeInv

(* Its session is filled.                                                  *)
LEMMA FillLife ==
    ASSUME IInv, LifeInv, NEW w, NEW s, NEW c, FillEffect(w, s, c)
    PROVE  LifeInv'
<1>. USE NamesAssumption
<1>. DEFINE t == w.task
            p == t[1]
<1>0. /\ w \in writes /\ w \in Write /\ w.obj \in Obj /\ p \in Portals
      /\ task[t].id = w.data.id /\ task[t].ref = w.obj /\ task[t].pc = "create"
      /\ \A v \in writes : v.task = w.task /\ v.obj # NoRef => v = w
      /\ Touched(heap[p][w.obj], s) /\ s.id = w.data.id
      /\ c \in Write /\ c.task = t /\ c.obj = w.obj /\ c.data = s
      /\ HeapBut(p, w.obj, s) /\ TaskBut(t)
      /\ task'[t] = [task[t] EXCEPT !.pc = "info"]
      /\ writes' = (writes \ {w}) \cup {c}
      /\ UNCHANGED <<clock, store, last, born, cookie>>
  BY DEF FillEffect, LoginWrite
<1>1. RecordsSound /\ TimesSound /\ TasksSound /\ WritesSound
        /\ \A j \in cookie : born[j] # 0
  BY DEF LifeInv
<1>2. t \in Task /\ p \in Proc /\ task[t] \in TaskState
  BY <1>0 DEF Write, Proc, IInv, TypeOK, AccessorTypeOK
<1>3. /\ task'[t].id = task[t].id /\ task'[t].pc = "info" /\ task'[t].kind = task[t].kind
      /\ task'[t].ans = task[t].ans /\ task'[t].ref = task[t].ref
  BY <1>0, <1>2 DEF TaskState
<1>4. Sound(s)
  <2>1. Sound(heap[p][w.obj])
    BY <1>0, <1>1, <1>2 DEF RecordsSound
  <2>. QED
    BY <1>0, <2>1 DEF Touched, Sound
<1>. DEFINE OtherTasks == \A u \in Task : u # t => task'[u] = task[u]
<1>41. OtherTasks
  BY <1>0 DEF TaskBut
<1>5. RecordsSound'
  <2>1. \A q \in Proc, x \in Obj : Sound(heap[q][x])'
    BY <1>0, <1>1, <1>4 DEF RecordsSound, Sound, HeapBut
  <2>2. \A u \in Task : Sound(task[u].ans)'
    <3>1. \A u \in Task : task'[u].ans = task[u].ans
      BY <1>3, <1>41
    <3>. QED
      BY <1>0, <1>1, <3>1 DEF RecordsSound, Sound
  <2>3. \A v \in writes' : Sound(v.data)'
    BY <1>0, <1>1, <1>4 DEF RecordsSound, Sound
  <2>. QED
    BY <1>0, <1>1, <2>1, <2>2, <2>3 DEF RecordsSound, Sound
<1>6. \A u \in Task : InGet(u)' => InGet(u) /\ task'[u] = task[u]
  BY <1>0, <1>3 DEF TaskBut, InGet
<1>7. TimesSound'
  BY <1>0, <1>1, <1>6 DEF TimesSound
<1>8. TasksSound'
  <2>1. ~InGet(t)' /\ ~InGet(t)
    BY <1>0, <1>3 DEF InGet
  <2>2. p \notin Handlers /\ UNCHANGED <<born, cookie>>
    BY <1>0
  <2>. SUFFICES ASSUME NEW u \in Task
                PROVE  /\ task'[u].id \in Id => born[task'[u].id] # 0
                       /\ task'[u].pc \in {"get", "loaded", "delete", "save"}
                            => task'[u].id \in cookie
                       /\ task'[u].kind = "logout" => task'[u].id \in cookie
                       /\ task'[u].pc = "delete" => task'[u].kind = "logout"
                       /\ ~InGet(u)' => task'[u].ans = NoSession
                       /\ u[1] \in Handlers => task'[u].pc \in {"idle", "get"}
    BY <2>2 DEF TasksSound
  <2>3. CASE u = t
    BY <1>1, <1>2, <1>3, <2>1, <2>2, <2>3 DEF TasksSound
  <2>4. CASE u # t
    BY <1>1, <1>41, <2>4 DEF TasksSound, InGet
  <2>. QED
    BY <2>3, <2>4
<1>9. WritesSound'
  <2>1. \A v \in writes' : \/ v = c
                           \/ v \in writes /\ (v.task = t => v.obj = NoRef)
    BY <1>0
  <2>2. \A v \in writes : v.task \in Task
    BY DEF IInv, TypeOK, AccessorTypeOK, Write
  <2>3. c.task = t /\ c.obj = w.obj /\ c.data = s /\ s.id = w.data.id
          /\ task[t].id = w.data.id /\ task[t].ref = w.obj /\ p \notin Handlers
          /\ cookie' = cookie
    BY <1>0
  <2>4. ASSUME NEW v \in writes, v.task # t
        PROVE  task'[v.task] = task[v.task]
    BY <1>41, <2>2, <2>4
  <2>5. ASSUME NEW v \in writes', v.task[1] \in Portals, v.obj # NoRef
        PROVE  /\ task'[v.task].pc \in {"create", "info", "save"}
               /\ task'[v.task].id = v.data.id
               /\ task'[v.task].ref = v.obj
    BY <1>1, <1>3, <2>1, <2>3, <2>4, <2>5 DEF WritesSound
  <2>6. ASSUME NEW v \in writes', v.task[1] \in Portals, v.obj # NoRef,
               NEW u \in writes', u.task = v.task, u.obj # NoRef
        PROVE  u = v
    BY <1>1, <2>1, <2>3, <2>6 DEF WritesSound
  <2>7. \A v \in writes' : v.task[1] \in Handlers => v.data.id \in cookie'
    BY <1>1, <2>1, <2>3 DEF WritesSound
  <2>. QED
    BY <2>5, <2>6, <2>7 DEF WritesSound
<1>. QED
  BY <1>0, <1>1, <1>5, <1>7, <1>8, <1>9 DEF LifeInv

(* Its cookie is given.                                                    *)
LEMMA OpenLife ==
    ASSUME IInv, LifeInv, NEW w, OpenEffect(w)
    PROVE  LifeInv'
<1>. USE NamesAssumption
<1>. DEFINE t == w.task
            p == t[1]
<1>0. /\ w \in writes /\ w \in Write /\ w.obj \in Obj /\ p \in Portals
      /\ \A v \in writes : v.task = w.task /\ v.obj # NoRef => v = w
      /\ \A q \in Proc, x \in Obj : heap'[q][x] \in Session => heap'[q][x] = heap[q][x]
      /\ TaskBut(t)
      /\ task'[t] = Idle
      /\ writes' = writes \ {w}
      /\ cookie' = cookie \cup {w.data.id}
      /\ UNCHANGED <<clock, store, last, born>>
  BY DEF OpenEffect, LoginWrite
<1>1. RecordsSound /\ TimesSound /\ TasksSound /\ WritesSound
        /\ \A j \in cookie : born[j] # 0
  BY DEF LifeInv
<1>2. t \in Task /\ w.data \in Session
  BY <1>0 DEF Write
<1>3. RecordsSound'
  BY <1>0, <1>1 DEF RecordsSound, Sound, TaskBut, Idle
<1>4. TimesSound'
  BY <1>0, <1>1 DEF TimesSound, TaskBut, Idle, InGet
<1>5. TasksSound'
  BY <1>0, <1>1 DEF TasksSound, TaskBut, Idle, InGet
<1>6. WritesSound'
  <2>1. \A v \in writes' : v \in writes /\ v # w
    BY <1>0
  <2>2. \A v \in writes : v.task \in Task
    BY DEF IInv, TypeOK, AccessorTypeOK, Write
  <2>. QED
    BY <1>0, <1>1, <2>1, <2>2 DEF WritesSound, TaskBut
<1>7. \A j \in cookie' : born'[j] # 0
  BY <1>0, <1>1, <1>2 DEF RecordsSound, Sound
<1>. QED
  BY <1>3, <1>4, <1>5, <1>6, <1>7 DEF LifeInv

(* The store writes a record.                                              *)
LEMMA StoreLife ==
    ASSUME IInv, LifeInv, NEW w, StoreEffect(w)
    PROVE  LifeInv'
<1>. USE NamesAssumption
<1>0. /\ w \in writes /\ w \in Write /\ ~w.applied
      /\ \/ store' = [store EXCEPT ![w.data.id] = w.data]
         \/ store' = store
      /\ \A v \in writes' :
           \/ v \in writes /\ v # w
           \/ /\ v \in Write /\ v.applied
              /\ v.task = w.task /\ v.obj = w.obj /\ v.data = w.data
              /\ w.obj # NoRef
      /\ \A u, v \in writes' : u \notin writes /\ v \notin writes => u = v
      /\ UNCHANGED <<clock, heap, last, task, born, cookie>>
  BY DEF StoreEffect
<1>1. RecordsSound /\ TimesSound /\ TasksSound /\ WritesSound
        /\ \A j \in cookie : born[j] # 0
  BY DEF LifeInv
<1>2. w.data \in Session /\ w.data.id \in Id
        /\ store \in [Id -> Session \cup {NoSession}]
  BY <1>0 DEF Write, Session, IInv, TypeOK, AccessorTypeOK
<1>3. \A i \in Id : store'[i] = store[i] \/ store'[i] = w.data
  BY <1>0, <1>2
<1>4. RecordsSound'
  BY <1>0, <1>1, <1>3 DEF RecordsSound, Sound
<1>5. TimesSound' /\ TasksSound'
  BY <1>0, <1>1 DEF TimesSound, TasksSound, InGet
<1>6. WritesSound'
  <2>1. ASSUME NEW v \in writes'
        PROVE  \/ v \in writes /\ v # w
               \/ /\ v \notin writes \/ v # w
                  /\ v.task = w.task /\ v.obj = w.obj /\ v.data = w.data
    BY <1>0
  <2>2. ASSUME NEW v \in writes', v.task[1] \in Portals, v.obj # NoRef,
               NEW u \in writes', u.task = v.task, u.obj # NoRef
        PROVE  u = v
    <3>1. CASE u \in writes /\ u # w /\ v \in writes /\ v # w
      BY <1>1, <2>2, <3>1 DEF WritesSound
    <3>2. CASE u \in writes /\ u # w /\ ~(v \in writes /\ v # w)
      BY <1>0, <1>1, <2>2, <3>2 DEF WritesSound
    <3>3. CASE v \in writes /\ v # w /\ ~(u \in writes /\ u # w)
      BY <1>0, <1>1, <2>2, <3>3 DEF WritesSound
    <3>4. CASE ~(u \in writes /\ u # w) /\ ~(v \in writes /\ v # w)
      BY <1>0, <2>2, <3>4
    <3>. QED
      BY <3>1, <3>2, <3>3, <3>4
  <2>. QED
    BY <1>0, <1>1, <2>1, <2>2 DEF WritesSound
<1>. QED
  BY <1>0, <1>1, <1>4, <1>5, <1>6 DEF LifeInv

LEMMA LifeStep ==
    ASSUME IInv, IInv', LifeInv, [Next]_vars
    PROVE  LifeInv'
<1>1. ASSUME Ordinary, TimesSound'
      PROVE  LifeInv'
  BY <1>1, OrdinaryRecords, OrdinaryTasks, OrdinaryWrites DEF Ordinary, LifeInv
<1>2. CASE Effect
  BY <1>1, <1>2, EffectTimes DEF Effect
<1>3. CASE TickEffect
  BY <1>1, <1>3, TickTimes DEF TickEffect
<1>. QED
  BY <1>2, <1>3, StepEffect, LoginLife, FillLife, OpenLife, StoreLife

LEMMA LifeInit == Init => LifeInv
<1>. SUFFICES ASSUME Init PROVE LifeInv
  OBVIOUS
<1>. USE NamesAssumption
<1>1. RecordsSound
  BY DEF Init, AccessorInit, RecordsSound, Sound, NoCells, Idle
<1>2. TimesSound
  BY TimesAssumption
  DEF Init, AccessorInit, TimesSound, Start, NoLast, Idle, InGet
<1>3. TasksSound /\ WritesSound
  BY DEF Init, AccessorInit, TasksSound, WritesSound, Idle, InGet
<1>. QED
  BY <1>1, <1>2, <1>3 DEF LifeInv, Init

-----------------------------------------------------------------------------
(* OpenInv is inductive when update() creates missing rows *)

(* The login of a session has it to itself.                                *)
LEMMA OrdinaryApart ==
    ASSUME IInv, LifeInv, OpenInv, Ordinary
    PROVE  LoginsApart'
<1>. USE NamesAssumption
<1>1. /\ UNCHANGED cookie /\ HeapEffect /\ TaskEffect /\ WriteEffect
      /\ LoginsApart /\ TasksSound /\ cookie \subseteq Id
  BY DEF Ordinary, LifeInv, OpenInv, IInv, TypeOK
<1>. SUFFICES ASSUME NEW t \in Task, LoggingIn(t)'
              PROVE  /\ task'[t].id \notin cookie
                     /\ \A u \in Task : u # t => task'[u].id # task'[t].id
                     /\ \A w \in writes' :
                          w.data.id = task'[t].id => w.task = t /\ w.obj # NoRef
                     /\ \A p \in Proc, o \in Obj :
                          heap'[p][o] \in Session /\ heap'[p][o].id = task'[t].id
                            => p = t[1] /\ o = task'[t].ref
  BY <1>1 DEF LoginsApart
<1>2. task'[t] = task[t] /\ LoggingIn(t)
  BY <1>1 DEF TaskEffect, GoesOn, LoggingIn, Idle
<1>3. /\ task[t].id \notin cookie /\ task[t].id \in Id /\ task[t].pc # "idle"
      /\ \A u \in Task : u # t => task[u].id # task[t].id
      /\ \A w \in writes : w.data.id = task[t].id => w.task = t /\ w.obj # NoRef
      /\ \A p \in Proc, o \in Obj :
           heap[p][o] \in Session /\ heap[p][o].id = task[t].id
             => p = t[1] /\ o = task[t].ref
  BY <1>1, <1>2 DEF LoginsApart, LoggingIn, IInv, PcOK
<1>4. ASSUME NEW p \in Proc, NEW o \in Obj, NEW s, ComesFrom(p, o, s),
             s.id = task[t].id
      PROVE  p = t[1] /\ o = task[t].ref
  <2>1. CASE Touched(heap[p][o], s)
    BY <1>3, <1>4, <2>1 DEF Touched
  <2>2. ASSUME NEW u \in Task, InGet(u), Touched(task[u].ans, s)
        PROVE  FALSE
    <3>1. task[u].ans.id = task[u].id /\ task[u].ans.id = s.id
      BY <2>2 DEF Touched, IInv, Own, AnsOwn
    <3>2. task[u].id \in cookie
      BY <1>1, <2>2 DEF TasksSound, InGet
    <3>. QED
      BY <1>3, <1>4, <3>1, <3>2
  <2>. QED
    BY <1>4, <2>1, <2>2 DEF ComesFrom
<1>5. ASSUME NEW u \in Task, u # t
      PROVE  task'[u].id # task[t].id
  BY <1>1, <1>3, <1>5 DEF TaskEffect, GoesOn, Idle
<1>6. ASSUME NEW w \in writes', w.data.id = task[t].id
      PROVE  w.task = t /\ w.obj # NoRef
  <2>1. ~Called(w)
    BY <1>3, <1>6 DEF Called
  <2>2. PICK v \in writes : Remains(v, w)
    BY <1>1, <2>1 DEF WriteEffect
  <2>3. v.task = t /\ v.obj # NoRef
    BY <1>3, <1>6, <2>2 DEF Remains
  <2>4. task'[t] # Idle
    BY <1>2, <1>3 DEF Idle
  <2>. QED
    BY <2>2, <2>3, <2>4 DEF Remains
<1>7. ASSUME NEW p \in Proc, NEW o \in Obj, heap'[p][o] \in Session,
             heap'[p][o].id = task[t].id
      PROVE  p = t[1] /\ o = task[t].ref
  BY <1>1, <1>4, <1>7 DEF HeapEffect, CellsFrom
<1>. QED
  BY <1>2, <1>3, <1>5, <1>6, <1>7

LEMMA OrdinaryFilled ==
    ASSUME IInv, LifeInv, OpenInv, Ordinary
    PROVE  DataFilled' /\ StoredInv'
<1>. USE NamesAssumption
<1>1. /\ UNCHANGED <<cookie, store>> /\ HeapEffect /\ TaskEffect /\ WriteEffect
      /\ DataFilled /\ StoredInv /\ TasksSound
  BY DEF Ordinary, LifeInv, OpenInv
<1>2. ASSUME NEW i, Filled(i)'
      PROVE  Filled(i)
  BY <1>1, <1>2 DEF Filled, TaskEffect, Idle, GoesOn
<1>3. ASSUME NEW p \in Proc, NEW o \in Obj, NEW s, ComesFrom(p, o, s), Filled(s.id)
      PROVE  s.data # "new"
  BY <1>1, <1>3 DEF ComesFrom, Touched, DataFilled
<1>4. ASSUME NEW p \in Proc, NEW o \in Obj, heap'[p][o] \in Session,
             Filled(heap[p][o].id)'
      PROVE  heap'[p][o].data # "new"
  <2>1. ComesFrom(p, o, heap'[p][o])
    BY <1>1, <1>4 DEF HeapEffect, CellsFrom
  <2>2. Filled(heap'[p][o].id)
    <3>1. \/ heap'[p][o].id \in cookie
          \/ \E t \in Task : task'[t].pc = "info" /\ task'[t].id = heap'[p][o].id
      BY <1>1, <1>4 DEF Filled
    <3>2. \A t \in Task : task'[t].pc = "info" => task[t] = task'[t]
      BY <1>1 DEF TaskEffect, Idle, GoesOn
    <3>. QED
      BY <3>1, <3>2 DEF Filled
  <2>. QED
    BY <1>3, <2>1, <2>2
<1>5. ASSUME NEW t \in Task, task'[t].ans \in Session
      PROVE  task'[t].ans.data # "new"
  <2>1. CASE task'[t] = task[t]
    BY <1>1, <1>5, <2>1 DEF DataFilled
  <2>2. CASE GoesOn(t)
    <3>1. CASE task'[t].ans = task[t].ans
      BY <1>1, <1>5, <3>1 DEF DataFilled
    <3>2. CASE task'[t].ans # task[t].ans
      <4>1. task'[t].ans = store[task[t].id] /\ task[t].id \in cookie
        BY <1>5, <2>2, <3>2 DEF GoesOn
      <4>. QED
        BY <1>1, <4>1 DEF StoredInv
    <3>. QED
      BY <3>1, <3>2
  <2>. QED
    BY <1>1, <1>5, <2>1, <2>2 DEF TaskEffect, Idle
<1>6. ASSUME NEW w \in writes'
      PROVE  /\ Filled(w.data.id)' => w.data.data # "new"
             /\ w.applied => \E v \in writes : v.applied /\ v.data = w.data
  <2>1. CASE \E v \in writes : Remains(v, w)
    BY <1>1, <1>2, <2>1 DEF Remains, DataFilled
  <2>2. CASE Called(w)
    <3>1. w.task[1] \in Proc /\ w.obj \in Obj /\ ~w.applied /\ Filled(w.data.id)
      BY <2>2 DEF Called, Write, Task, Filled
    <3>. QED
      BY <1>3, <2>2, <3>1 DEF Called
  <2>. QED
    BY <1>1, <2>1, <2>2 DEF WriteEffect
<1>7. DataFilled'
  BY <1>4, <1>5, <1>6 DEF DataFilled
<1>8. StoredInv'
  <2>1. \A i \in cookie' : store'[i] \in Session /\ store'[i].data # "new"
    BY <1>1 DEF StoredInv
  <2>2. ASSUME NEW w \in writes', w.applied, Filled(w.data.id)'
        PROVE  store'[w.data.id] \in Session /\ store'[w.data.id].data # "new"
    BY <1>1, <1>2, <1>6, <2>2 DEF StoredInv
  <2>. QED
    BY <2>1, <2>2 DEF StoredInv
<1>. QED
  BY <1>7, <1>8

(* Nothing is there yet of a session that is created.                      *)
LEMMA NothingOfIt ==
    ASSUME IInv, LifeInv, NEW i \in Id, born[i] = 0
    PROVE  /\ i \notin cookie
           /\ \A u \in Task : task[u].id # i
           /\ \A w \in writes : w.data.id # i
           /\ \A p \in Proc, o \in Obj : heap[p][o] \in Session => heap[p][o].id # i
<1>1. \A w \in writes : w.data \in Session
  BY DEF IInv, TypeOK, AccessorTypeOK, Write
<1>. QED
  BY <1>1 DEF LifeInv, RecordsSound, TasksSound, Sound

LEMMA LoginOpens ==
    ASSUME IInv, LifeInv, OpenInv, NEW t, NEW i, NEW o, NEW s, NEW c,
           LoginEffect(t, i, o, s, c)
    PROVE  OpenInv'
<1>. USE NamesAssumption
<1>0. /\ t \in Task /\ i \in Id /\ o \in Obj /\ task[t] = Idle /\ born[i] = 0
      /\ s \in Session /\ s.id = i
      /\ c.task = t /\ c.obj = o /\ c.data = s /\ ~c.applied
      /\ HeapBut(t[1], o, s) /\ TaskBut(t)
      /\ task'[t].pc = "create" /\ task'[t].id = i
      /\ task'[t].ref = o /\ task'[t].ans = NoSession
      /\ writes' = writes \cup {c}
      /\ UNCHANGED <<store, cookie>>
  BY DEF LoginEffect
<1>1. LoginsApart /\ DataFilled /\ StoredInv
  BY DEF OpenInv
<1>2. /\ i \notin cookie
      /\ \A u \in Task : task[u].id # i
      /\ \A w \in writes : w.data.id # i
      /\ \A p \in Proc, x \in Obj : heap[p][x] \in Session => heap[p][x].id # i
  BY <1>0, NothingOfIt
<1>3. \A u \in Task : u # t => task'[u] = task[u]
  BY <1>0 DEF TaskBut
<1>4. ASSUME NEW p \in Proc, NEW x \in Obj, heap'[p][x] \in Session
      PROVE  \/ p = t[1] /\ x = o /\ heap'[p][x] = s
             \/ heap'[p][x] = heap[p][x] /\ heap[p][x].id # i
  BY <1>0, <1>2, <1>4 DEF HeapBut
<1>5. LoginsApart'
  <2>. SUFFICES ASSUME NEW u \in Task, LoggingIn(u)'
                PROVE  /\ task'[u].id \notin cookie
                       /\ \A v \in Task : v # u => task'[v].id # task'[u].id
                       /\ \A w \in writes' :
                            w.data.id = task'[u].id => w.task = u /\ w.obj # NoRef
                       /\ \A p \in Proc, x \in Obj :
                            heap'[p][x] \in Session /\ heap'[p][x].id = task'[u].id
                              => p = u[1] /\ x = task'[u].ref
    BY <1>0 DEF LoginsApart
  <2>1. CASE u = t
    <3>1. \A w \in writes' : w.data.id = i => w = c
      BY <1>0, <1>2
    <3>2. \A p \in Proc, x \in Obj :
            heap'[p][x] \in Session /\ heap'[p][x].id = i => p = t[1] /\ x = o
      BY <1>4
    <3>. QED
      BY <1>0, <1>2, <1>3, <2>1, <3>1, <3>2
  <2>2. CASE u # t
    <3>1. task'[u] = task[u] /\ LoggingIn(u) /\ task[u].id # i
      BY <1>2, <1>3, <2>2 DEF LoggingIn
    <3>2. /\ task[u].id \notin cookie
          /\ \A v \in Task : v # u => task[v].id # task[u].id
          /\ \A w \in writes : w.data.id = task[u].id => w.task = u /\ w.obj # NoRef
          /\ \A p \in Proc, x \in Obj :
               heap[p][x] \in Session /\ heap[p][x].id = task[u].id
                 => p = u[1] /\ x = task[u].ref
      BY <1>1, <3>1 DEF LoginsApart
    <3>3. \A v \in Task : v # u => task'[v].id # task[u].id
      BY <1>0, <1>3, <3>1, <3>2
    <3>4. \A w \in writes' : w.data.id = task[u].id => w.task = u /\ w.obj # NoRef
      BY <1>0, <3>1, <3>2
    <3>5. \A p \in Proc, x \in Obj :
            heap'[p][x] \in Session /\ heap'[p][x].id = task[u].id
              => p = u[1] /\ x = task[u].ref
      BY <1>0, <1>4, <3>1, <3>2
    <3>. QED
      BY <3>1, <3>2, <3>3, <3>4, <3>5
  <2>. QED
    BY <2>1, <2>2
<1>6. ASSUME NEW j, Filled(j)'
      PROVE  Filled(j) /\ j # i
  BY <1>0, <1>2, <1>3, <1>6 DEF Filled
<1>7. DataFilled'
  <2>1. ASSUME NEW p \in Proc, NEW x \in Obj, heap'[p][x] \in Session,
               Filled(heap[p][x].id)'
        PROVE  heap'[p][x].data # "new"
    <3>1. CASE heap'[p][x] = s
      <4>1. ~(i \in cookie') /\ ~\E u \in Task : task'[u].pc = "info" /\ task'[u].id = i
        BY <1>0, <1>2, <1>3
      <4>. QED
        BY <1>0, <2>1, <3>1, <4>1 DEF Filled
    <3>2. CASE heap'[p][x] = heap[p][x]
      <4>1. Filled(heap[p][x].id)
        BY <1>0, <1>2, <1>3, <2>1, <3>2 DEF Filled
      <4>. QED
        BY <1>1, <2>1, <3>2, <4>1 DEF DataFilled
    <3>. QED
      BY <1>4, <2>1, <3>1, <3>2
  <2>2. \A u \in Task : task'[u].ans \in Session => task'[u].ans.data # "new"
    BY <1>0, <1>1, <1>3 DEF DataFilled
  <2>3. \A w \in writes' : Filled(w.data.id)' => w.data.data # "new"
    BY <1>0, <1>1, <1>6 DEF DataFilled
  <2>. QED
    BY <2>1, <2>2, <2>3 DEF DataFilled
<1>8. StoredInv'
  BY <1>0, <1>1, <1>6 DEF StoredInv
<1>. QED
  BY <1>5, <1>7, <1>8 DEF OpenInv

(* An update of the session of a login is the one of the login.            *)
LEMMA OnlyLoginWrite ==
    ASSUME IInv, OpenInv, NEW w, LoginWrite(w), LoggingIn(w.task)
    PROVE  /\ w.task \in Task /\ w.data.id \in Id
           /\ w.data.id = task[w.task].id /\ w.data.id \notin cookie
           /\ \A v \in writes : v.data.id = w.data.id => v = w
           /\ \A u \in Task : u # w.task => task[u].id # w.data.id
           /\ \A p \in Proc, x \in Obj :
                heap[p][x] \in Session /\ heap[p][x].id = w.data.id
                  => p = w.task[1] /\ x = w.obj
<1>1. w.task \in Task /\ w.data.id \in Id
  BY DEF LoginWrite, Write, Session
<1>. QED
  BY <1>1 DEF LoginWrite, OpenInv, LoginsApart

LEMMA FillOpens ==
    ASSUME IInv, LifeInv, OpenInv, NEW w, NEW s, NEW c, FillEffect(w, s, c)
    PROVE  OpenInv'
<1>. USE NamesAssumption
<1>. DEFINE t == w.task
            p == t[1]
            i == w.data.id
<1>0. /\ w \in writes /\ w.obj \in Obj /\ LoginWrite(w) /\ LoggingIn(t)
      /\ task[t].ref = w.obj
      /\ s \in Session /\ s.id = i /\ s.data # "new"
      /\ c.task = t /\ c.obj = w.obj /\ c.data = s /\ ~c.applied
      /\ HeapBut(p, w.obj, s)
      /\ writes' = (writes \ {w}) \cup {c}
      /\ UNCHANGED <<store, cookie>>
  BY DEF FillEffect, LoginWrite, Touched, LoggingIn
<1>1. LoginsApart /\ DataFilled /\ StoredInv
  BY DEF OpenInv
<1>2. /\ t \in Task /\ i \in Id /\ i = task[t].id /\ i \notin cookie
      /\ \A v \in writes : v.data.id = i => v = w
      /\ \A u \in Task : u # t => task[u].id # i
      /\ \A q \in Proc, x \in Obj :
           heap[q][x] \in Session /\ heap[q][x].id = i => q = p /\ x = w.obj
  BY <1>0, OnlyLoginWrite
<1>3. /\ task'[t].id = i /\ task'[t].pc = "info" /\ task'[t].ref = w.obj
      /\ task'[t].ans = task[t].ans
      /\ \A u \in Task : u # t => task'[u] = task[u]
  BY <1>0, <1>2 DEF FillEffect, TaskBut, IInv, TypeOK, AccessorTypeOK, TaskState
<1>4. ASSUME NEW q \in Proc, NEW x \in Obj, heap'[q][x] \in Session
      PROVE  \/ q = p /\ x = w.obj /\ heap'[q][x] = s
             \/ heap'[q][x] = heap[q][x] /\ heap[q][x].id # i
  BY <1>0, <1>2, <1>4 DEF HeapBut
<1>5. LoginsApart'
  <2>. SUFFICES ASSUME NEW u \in Task, LoggingIn(u)'
                PROVE  /\ task'[u].id \notin cookie
                       /\ \A v \in Task : v # u => task'[v].id # task'[u].id
                       /\ \A v \in writes' :
                            v.data.id = task'[u].id => v.task = u /\ v.obj # NoRef
                       /\ \A q \in Proc, x \in Obj :
                            heap'[q][x] \in Session /\ heap'[q][x].id = task'[u].id
                              => q = u[1] /\ x = task'[u].ref
    BY <1>0 DEF LoginsApart
  <2>1. CASE u = t
    <3>1. \A v \in writes' : v.data.id = i => v = c
      BY <1>0, <1>2
    <3>2. \A q \in Proc, x \in Obj :
            heap'[q][x] \in Session /\ heap'[q][x].id = i => q = p /\ x = w.obj
      BY <1>4
    <3>. QED
      BY <1>0, <1>2, <1>3, <2>1, <3>1, <3>2
  <2>2. CASE u # t
    <3>1. task'[u] = task[u] /\ LoggingIn(u) /\ task[u].id # i
      BY <1>2, <1>3, <2>2 DEF LoggingIn
    <3>2. /\ task[u].id \notin cookie
          /\ \A v \in Task : v # u => task[v].id # task[u].id
          /\ \A v \in writes : v.data.id = task[u].id => v.task = u /\ v.obj # NoRef
          /\ \A q \in Proc, x \in Obj :
               heap[q][x] \in Session /\ heap[q][x].id = task[u].id
                 => q = u[1] /\ x = task[u].ref
      BY <1>1, <3>1 DEF LoginsApart
    <3>3. \A v \in Task : v # u => task'[v].id # task[u].id
      BY <1>2, <1>3, <3>1, <3>2
    <3>4. \A v \in writes' : v.data.id = task[u].id => v.task = u /\ v.obj # NoRef
      BY <1>0, <3>1, <3>2
    <3>5. \A q \in Proc, x \in Obj :
            heap'[q][x] \in Session /\ heap'[q][x].id = task[u].id
              => q = u[1] /\ x = task[u].ref
      BY <1>0, <1>4, <3>1, <3>2
    <3>. QED
      BY <3>1, <3>2, <3>3, <3>4, <3>5
  <2>. QED
    BY <2>1, <2>2
<1>6. ASSUME NEW j, Filled(j)', j # i
      PROVE  Filled(j)
  BY <1>0, <1>3, <1>6 DEF Filled
<1>7. DataFilled'
  <2>1. ASSUME NEW q \in Proc, NEW x \in Obj, heap'[q][x] \in Session,
               Filled(heap[q][x].id)'
        PROVE  heap'[q][x].data # "new"
    <3>1. CASE heap'[q][x] = s
      BY <1>0, <3>1
    <3>2. CASE heap'[q][x] = heap[q][x] /\ heap[q][x].id # i
      <4>1. Filled(heap[q][x].id)
        BY <1>0, <1>3, <2>1, <3>2 DEF Filled
      <4>. QED
        BY <1>1, <2>1, <3>2, <4>1 DEF DataFilled
    <3>. QED
      BY <1>4, <2>1, <3>1, <3>2
  <2>2. \A u \in Task : task'[u].ans \in Session => task'[u].ans.data # "new"
    BY <1>1, <1>3 DEF DataFilled
  <2>3. \A v \in writes' : Filled(v.data.id)' => v.data.data # "new"
    BY <1>0, <1>1, <1>2, <1>6 DEF DataFilled
  <2>. QED
    BY <2>1, <2>2, <2>3 DEF DataFilled
<1>8. StoredInv'
  <2>1. \A v \in writes' : v.applied => v \in writes /\ v.data.id # i
    BY <1>0, <1>2
  <2>. QED
    BY <1>0, <1>1, <1>6, <2>1 DEF StoredInv
<1>. QED
  BY <1>5, <1>7, <1>8 DEF OpenInv

LEMMA OpenOpens ==
    ASSUME IInv, LifeInv, OpenInv, NEW w, OpenEffect(w)
    PROVE  OpenInv'
<1>. USE NamesAssumption
<1>. DEFINE t == w.task
            i == w.data.id
<1>0. /\ w \in writes /\ w.applied /\ LoginWrite(w) /\ LoggingIn(t)
      /\ task[t].pc = "info"
      /\ \A q \in Proc, x \in Obj : heap'[q][x] \in Session => heap'[q][x] = heap[q][x]
      /\ TaskBut(t) /\ task'[t] = Idle
      /\ writes' = writes \ {w}
      /\ cookie' = cookie \cup {i}
      /\ UNCHANGED store
  BY DEF OpenEffect, LoginWrite, LoggingIn
<1>1. LoginsApart /\ DataFilled /\ StoredInv
  BY DEF OpenInv
<1>2. /\ t \in Task /\ i \in Id /\ i = task[t].id
      /\ \A u \in Task : u # t => task[u].id # i
  BY <1>0, OnlyLoginWrite
<1>3. \A u \in Task : u # t => task'[u] = task[u]
  BY <1>0 DEF TaskBut
<1>4. LoginsApart'
  <2>. SUFFICES ASSUME NEW u \in Task, LoggingIn(u)'
                PROVE  /\ task'[u].id \notin cookie'
                       /\ \A v \in Task : v # u => task'[v].id # task'[u].id
                       /\ \A v \in writes' :
                            v.data.id = task'[u].id => v.task = u /\ v.obj # NoRef
                       /\ \A q \in Proc, x \in Obj :
                            heap'[q][x] \in Session /\ heap'[q][x].id = task'[u].id
                              => q = u[1] /\ x = task'[u].ref
    BY DEF LoginsApart
  <2>1. u # t
    BY <1>0 DEF LoggingIn, Idle
  <2>2. task'[u] = task[u] /\ LoggingIn(u) /\ task[u].id # i /\ task[u].id \in Id
    BY <1>2, <1>3, <2>1 DEF LoggingIn, IInv, PcOK
  <2>3. /\ task[u].id \notin cookie
        /\ \A v \in Task : v # u => task[v].id # task[u].id
        /\ \A v \in writes : v.data.id = task[u].id => v.task = u /\ v.obj # NoRef
        /\ \A q \in Proc, x \in Obj :
             heap[q][x] \in Session /\ heap[q][x].id = task[u].id
               => q = u[1] /\ x = task[u].ref
    BY <1>1, <2>2 DEF LoginsApart
  <2>4. \A v \in Task : v # u => task'[v].id # task[u].id
    BY <1>0, <1>3, <2>2, <2>3 DEF Idle
  <2>5. \A q \in Proc, x \in Obj :
          heap'[q][x] \in Session /\ heap'[q][x].id = task[u].id
            => q = u[1] /\ x = task[u].ref
    BY <1>0, <2>3
  <2>. QED
    BY <1>0, <2>2, <2>3, <2>4, <2>5
<1>5. \A j : (j \in cookie' \/ \E u \in Task : task'[u].pc = "info" /\ task'[u].id = j)
               => Filled(j)
  BY <1>0, <1>2, <1>3 DEF Filled, Idle
<1>6. DataFilled'
  <2>1. \A u \in Task : task'[u].ans \in Session => task'[u].ans.data # "new"
    BY <1>0, <1>1, <1>3 DEF DataFilled, Idle
  <2>2. \A q \in Proc, x \in Obj :
          heap'[q][x] \in Session /\ Filled(heap[q][x].id)'
            => heap'[q][x].data # "new"
    <3>. SUFFICES ASSUME NEW q \in Proc, NEW x \in Obj, heap'[q][x] \in Session,
                         Filled(heap[q][x].id)'
                  PROVE  heap'[q][x].data # "new"
      OBVIOUS
    <3>1. Filled(heap'[q][x].id)
      BY <1>5 DEF Filled
    <3>. QED
      BY <1>0, <1>1, <3>1 DEF DataFilled
  <2>3. \A v \in writes' : Filled(v.data.id)' => v.data.data # "new"
    BY <1>0, <1>1, <1>5 DEF DataFilled, Filled
  <2>. QED
    BY <2>1, <2>2, <2>3 DEF DataFilled
<1>7. StoredInv'
  <2>1. Filled(i)
    BY <1>0, <1>2 DEF Filled
  <2>2. store[i] \in Session /\ store[i].data # "new"
    BY <1>0, <1>1, <2>1 DEF StoredInv
  <2>3. \A v \in writes' : Filled(v.data.id)' => v \in writes /\ Filled(v.data.id)
    BY <1>0, <1>5 DEF Filled
  <2>. QED
    BY <1>0, <1>1, <2>2, <2>3 DEF StoredInv
<1>. QED
  BY <1>4, <1>6, <1>7 DEF OpenInv

LEMMA StoreOpens ==
    ASSUME IInv, OpenInv, UpdateInserts, NEW w, StoreEffect(w)
    PROVE  OpenInv'
<1>. USE NamesAssumption
<1>0. /\ w \in writes /\ w \in Write
      /\ store' = [store EXCEPT ![w.data.id] = w.data]
      /\ \A v \in writes' : \E u \in writes :
           /\ v.task = u.task /\ v.obj = u.obj /\ v.data = u.data
           /\ v.applied => u = w \/ u.applied
      /\ UNCHANGED <<heap, task, cookie>>
  BY DEF StoreEffect
<1>1. LoginsApart /\ DataFilled /\ StoredInv
  BY DEF OpenInv
<1>2. w.data \in Session /\ w.data.id \in Id
        /\ store \in [Id -> Session \cup {NoSession}] /\ cookie \subseteq Id
        /\ \A v \in writes : v.data.id \in Id
  BY <1>0 DEF Write, Session, IInv, TypeOK, AccessorTypeOK
<1>3. \A i \in Id : store'[i] = IF i = w.data.id THEN w.data ELSE store[i]
  BY <1>0, <1>2
<1>4. \A i : Filled(i)' <=> Filled(i)
  BY <1>0 DEF Filled
<1>5. LoginsApart'
  <2>1. \A v \in writes' : \E u \in writes :
          v.task = u.task /\ v.obj = u.obj /\ v.data = u.data
    BY <1>0
  <2>2. ASSUME NEW t \in Task, LoggingIn(t), NEW v \in writes', v.data.id = task[t].id
        PROVE  v.task = t /\ v.obj # NoRef
    BY <1>1, <2>1, <2>2 DEF LoginsApart
  <2>3. UNCHANGED <<heap, task, cookie>>
    BY <1>0
  <2>. QED
    BY <1>1, <2>2, <2>3 DEF LoginsApart, LoggingIn
<1>6. DataFilled'
  <2>1. \A v \in writes' : Filled(v.data.id)' => v.data.data # "new"
    BY <1>0, <1>1, <1>4 DEF DataFilled
  <2>. QED
    BY <1>0, <1>1, <1>4, <2>1 DEF DataFilled, Filled
<1>7. StoredInv'
  <2>1. Filled(w.data.id) => w.data.data # "new"
    BY <1>0, <1>1 DEF DataFilled
  <2>2. ASSUME NEW i \in cookie
        PROVE  store'[i] \in Session /\ store'[i].data # "new"
    BY <1>1, <1>2, <1>3, <2>1 DEF StoredInv, Filled
  <2>3. ASSUME NEW v \in writes', v.applied, Filled(v.data.id)
        PROVE  store'[v.data.id] \in Session /\ store'[v.data.id].data # "new"
    <3>1. PICK u \in writes : v.data = u.data /\ (u = w \/ u.applied)
      BY <1>0, <2>3
    <3>. QED
      BY <1>1, <1>2, <1>3, <2>1, <2>3, <3>1 DEF StoredInv
  <2>. QED
    BY <1>0, <1>4, <2>2, <2>3 DEF StoredInv
<1>. QED
  BY <1>5, <1>6, <1>7 DEF OpenInv

LEMMA OpenStep ==
    ASSUME UpdateInserts, IInv, IInv', LifeInv, OpenInv, [Next]_vars
    PROVE  OpenInv'
<1>1. ASSUME Ordinary
      PROVE  OpenInv'
  BY <1>1, OrdinaryApart, OrdinaryFilled DEF OpenInv
<1>2. CASE Effect \/ TickEffect
  BY <1>1, <1>2 DEF Effect, TickEffect
<1>. QED
  BY <1>2, StepEffect, LoginOpens, FillOpens, OpenOpens, StoreOpens

LEMMA OpenInit == Init => OpenInv
<1>. SUFFICES ASSUME Init PROVE OpenInv
  OBVIOUS
<1>1. LoginsApart
  BY DEF Init, AccessorInit, LoginsApart, LoggingIn, Idle
<1>2. DataFilled /\ StoredInv
  BY NamesAssumption DEF Init, AccessorInit, DataFilled, StoredInv, NoCells, Idle
<1>. QED
  BY <1>1, <1>2 DEF OpenInv

(* The cookie of a session is given once the store has the session with    *)
(* the attributes of its user, and the store keeps it so, whatever fails   *)
(* and whatever is restarted, when update() creates missing rows.          *)
THEOREM CookiesAreStored ==
    UpdateInserts => (Spec => []CookieImpliesStored)
<1>. SUFFICES ASSUME UpdateInserts
              PROVE  Spec => []CookieImpliesStored
  OBVIOUS
<1>. DEFINE All == IInv /\ LifeInv /\ OpenInv
<1>1. Init => All
  BY InitInv, LifeInit, OpenInit
<1>2. All /\ [Next]_vars => All'
  BY NextInv, LifeStep, OpenStep
<1>3. All => CookieImpliesStored
  BY NamesAssumption DEF OpenInv, StoredInv, CookieImpliesStored
<1>. QED
  BY <1>1, <1>2, <1>3, PTL DEF Spec

-----------------------------------------------------------------------------
(* ExpireInv is inductive when a logout is the last write of a session     *)

(* An ordinary step.                                                       *)
LEMMA EffectExpires ==
    ASSUME LogoutsLast, IInv, LifeInv, OpenInv, ExpireInv, Effect
    PROVE  ExpireInv'
<1>. USE NamesAssumption
<1>1. /\ UNCHANGED <<cookie, store>> /\ TaskEffect /\ WriteEffect /\ ReportEffect
      /\ cookie \subseteq Id /\ loggedOut \in [Id -> Nat] /\ clock \in Nat
      /\ TimeoutActivity = 0 /\ ~Faulty /\ "password" \notin Requests
  BY DEF Effect, Ordinary, LogoutsLast, IInv, TypeOK, AccessorTypeOK, Time
<1>2. ASSUME NEW w, Called(w)
      PROVE  w.task[1] \in Portals /\ ~w.applied /\ w.data.utime = 0
  <2>1. w.task \in Task /\ w.task[1] \in Proc
    BY <1>2 DEF Called, Write, Task
  <2>2. task[w.task].kind # "password"
    BY <2>1 DEF ExpireInv
  <2>. QED
    BY <1>1, <1>2, <2>1, <2>2 DEF Called, Proc
<1>3. ASSUME NEW w \in writes'
      PROVE  /\ w.task[1] \in Portals
             /\ w.data.id \in cookie => w.data.utime = 0
             /\ w.applied /\ w.data.id \in cookie => store[w.data.id].utime = 0
  BY <1>1, <1>2 DEF WriteEffect, Remains, ExpireInv
<1>4. ASSUME NEW i \in Id, loggedOut'[i] # 0
      PROVE  i \in cookie /\ store[i].utime = 0
  <2>1. CASE loggedOut'[i] = loggedOut[i]
    BY <1>4, <2>1 DEF ExpireInv
  <2>2. CASE loggedOut'[i] # loggedOut[i]
    <3>1. PICK j \in cookie, t \in Task :
            /\ Report(j)
            /\ \/ InGet(t) /\ task[t].ans = NoSession
               \/ \E w \in writes : w.applied /\ w.data.id = j
      BY <1>1, <2>2 DEF ReportEffect
    <3>2. i = j
      BY <1>1, <2>2, <3>1 DEF Report
    <3>. QED
      BY <3>1, <3>2 DEF ExpireInv
  <2>. QED
    BY <2>1, <2>2
<1>5. ASSUME NEW t \in Task
      PROVE  /\ InGet(t)' => task'[t].ans # NoSession
             /\ task'[t].kind # "password"
  <2>1. CASE task'[t] = task[t]
    BY <2>1 DEF ExpireInv, InGet
  <2>2. CASE task'[t] = Idle
    BY <2>2 DEF Idle, InGet
  <2>3. CASE GoesOn(t)
    <3>1. task'[t].kind # "password"
      BY <1>1, <2>3 DEF GoesOn, ExpireInv
    <3>2. store[task'[t].id] # NoSession
      BY <2>3 DEF GoesOn, OpenInv, StoredInv
    <3>. QED
      BY <1>1, <2>3, <3>1, <3>2 DEF GoesOn, ExpireInv
  <2>. QED
    BY <1>1, <2>1, <2>2, <2>3 DEF TaskEffect
<1>. QED
  BY <1>1, <1>3, <1>4, <1>5 DEF ExpireInv

(* A login: there is no cookie of its session.                             *)
LEMMA LoginExpires ==
    ASSUME IInv, LifeInv, ExpireInv, NEW t, NEW i, NEW o, NEW s, NEW c,
           LoginEffect(t, i, o, s, c)
    PROVE  ExpireInv'
<1>1. /\ i \in Id /\ born[i] = 0
      /\ t[1] \in Portals /\ c.task = t /\ c.data.id = i /\ ~c.applied
      /\ task'[t].kind = "login" /\ task'[t].pc = "create"
      /\ \A u \in Task : u # t => task'[u] = task[u]
      /\ writes' = writes \cup {c}
      /\ UNCHANGED <<store, cookie, loggedOut>>
  BY DEF LoginEffect, TaskBut
<1>2. i \notin cookie
  BY <1>1, NothingOfIt
<1>3. \A u \in Task : (InGet(u)' => task'[u].ans # NoSession) /\ task'[u].kind # "password"
  BY <1>1 DEF ExpireInv, InGet
<1>. QED
  BY <1>1, <1>2, <1>3 DEF ExpireInv

LEMMA FillExpires ==
    ASSUME IInv, OpenInv, ExpireInv, NEW w, NEW s, NEW c, FillEffect(w, s, c)
    PROVE  ExpireInv'
<1>. DEFINE t == w.task
<1>1. /\ LoginWrite(w) /\ LoggingIn(t) /\ t[1] \in Portals
      /\ c.task = t /\ c.data.id = w.data.id /\ ~c.applied
      /\ writes' = (writes \ {w}) \cup {c}
      /\ UNCHANGED <<store, cookie, loggedOut>>
  BY DEF FillEffect, LoginWrite, LoggingIn
<1>2. t \in Task /\ w.data.id \notin cookie
  BY <1>1, OnlyLoginWrite
<1>3. /\ task'[t].kind = task[t].kind /\ task'[t].pc = "info"
      /\ \A u \in Task : u # t => task'[u] = task[u]
  BY <1>2 DEF FillEffect, TaskBut, IInv, TypeOK, AccessorTypeOK, TaskState
<1>4. \A u \in Task : (InGet(u)' => task'[u].ans # NoSession) /\ task'[u].kind # "password"
  BY <1>2, <1>3 DEF ExpireInv, InGet
<1>. QED
  BY <1>1, <1>2, <1>4 DEF ExpireInv

LEMMA OpenExpires ==
    ASSUME IInv, OpenInv, ExpireInv, NEW w, OpenEffect(w)
    PROVE  ExpireInv'
<1>. DEFINE t == w.task
<1>1. /\ LoginWrite(w) /\ LoggingIn(t)
      /\ writes' = writes \ {w}
      /\ cookie' = cookie \cup {w.data.id}
      /\ task'[t] = Idle /\ \A u \in Task : u # t => task'[u] = task[u]
      /\ UNCHANGED <<store, loggedOut>>
  BY DEF OpenEffect, LoggingIn, TaskBut
<1>2. \A v \in writes' : v \in writes /\ v.data.id # w.data.id
  BY <1>1, OnlyLoginWrite
<1>3. \A u \in Task : (InGet(u)' => task'[u].ans # NoSession) /\ task'[u].kind # "password"
  BY <1>1 DEF ExpireInv, InGet, Idle
<1>. QED
  BY <1>1, <1>2, <1>3 DEF ExpireInv

LEMMA StoreExpires ==
    ASSUME UpdateInserts, IInv, ExpireInv, NEW w, StoreEffect(w)
    PROVE  ExpireInv'
<1>1. /\ w \in writes /\ w \in Write
      /\ store' = [store EXCEPT ![w.data.id] = w.data]
      /\ \A v \in writes' : \E u \in writes :
           /\ v.task = u.task /\ v.data = u.data
           /\ v.applied => u = w \/ u.applied
      /\ UNCHANGED <<task, cookie, loggedOut>>
  BY DEF StoreEffect
<1>2. w.data.id \in Id /\ cookie \subseteq Id /\ DOMAIN store = Id
  BY <1>1 DEF Write, Session, IInv, TypeOK, AccessorTypeOK
<1>3. \A i \in Id : store'[i] = IF i = w.data.id THEN w.data ELSE store[i]
  BY <1>1, <1>2
<1>4. w.data.id \in cookie => w.data.utime = 0
  BY <1>1 DEF ExpireInv
<1>5. ASSUME NEW v \in writes'
      PROVE  /\ v.task[1] \in Portals
             /\ v.data.id \in cookie => v.data.utime = 0
             /\ v.applied /\ v.data.id \in cookie => store'[v.data.id].utime = 0
  <2>1. PICK u \in writes :
          v.task = u.task /\ v.data = u.data /\ (v.applied => u = w \/ u.applied)
    BY <1>1
  <2>. QED
    BY <1>2, <1>3, <1>4, <2>1 DEF ExpireInv
<1>6. \A i \in Id : loggedOut[i] # 0 => i \in cookie /\ store'[i].utime = 0
  BY <1>3, <1>4 DEF ExpireInv
<1>. QED
  BY <1>1, <1>5, <1>6 DEF ExpireInv, InGet

LEMMA ExpireStep ==
    ASSUME LogoutsLast, IInv, IInv', LifeInv, OpenInv, ExpireInv, [Next]_vars
    PROVE  ExpireInv'
<1>1. CASE TickEffect
  BY <1>1 DEF TickEffect, Ordinary, ExpireInv, InGet
<1>2. UpdateInserts
  BY DEF LogoutsLast
<1>. QED
  BY <1>1, <1>2, StepEffect, EffectExpires, LoginExpires, FillExpires, OpenExpires,
     StoreExpires

LEMMA ExpireInit == Init => ExpireInv
BY DEF Init, AccessorInit, ExpireInv, Idle, InGet

(* When a logout was answered, the store has the session marked as expired *)
(* and no write that is on its way revives it, provided that nothing but   *)
(* logins and logouts writes sessions (neither timeoutActivity nor a reset *)
(* of passwords), and that the store fails no call.                        *)
THEOREM LogoutsTakeEffect ==
    LogoutsLast => (Spec => []LogoutTakesEffect)
<1>. SUFFICES ASSUME LogoutsLast
              PROVE  Spec => []LogoutTakesEffect
  OBVIOUS
<1>. DEFINE All == IInv /\ LifeInv /\ OpenInv /\ ExpireInv
<1>0. UpdateInserts
  BY DEF LogoutsLast
<1>1. Init => All
  BY InitInv, LifeInit, OpenInit, ExpireInit
<1>2. All /\ [Next]_vars => All'
  BY <1>0, NextInv, LifeStep, OpenStep, ExpireStep
<1>3. All => LogoutTakesEffect
  BY DEF ExpireInv, LogoutTakesEffect
<1>. QED
  BY <1>1, <1>2, <1>3, PTL DEF Spec

-----------------------------------------------------------------------------
(* The logouts, the memories and the one-entry caches *)

(* Nobody logs out where no request is a logout.                           *)
LEMMA NoLogoutsStep ==
    ASSUME IInv, IInv', LifeInv, NoLogouts, [Next]_vars
    PROVE  NoLogouts'
<1>. SUFFICES ASSUME "logout" \notin Requests
              PROVE  /\ \A i \in Id : loggedOut'[i] = 0
                     /\ \A t \in Task : task'[t].kind # "logout"
  BY DEF NoLogouts
<1>1. /\ \A i \in Id : loggedOut[i] = 0
      /\ \A t \in Task : task[t].kind # "logout"
  BY DEF NoLogouts
<1>2. CASE Effect
  <2>1. loggedOut' = loggedOut /\ TaskEffect
    BY <1>1, <1>2 DEF Effect, Ordinary, ReportEffect
  <2>. QED
    BY <1>1, <2>1 DEF TaskEffect, GoesOn, Idle
<1>3. CASE TickEffect
  BY <1>1, <1>3 DEF TickEffect
<1>4. ASSUME NEW t, NEW i, NEW o, NEW s, NEW c, LoginEffect(t, i, o, s, c)
      PROVE  /\ \A j \in Id : loggedOut'[j] = 0
             /\ \A u \in Task : task'[u].kind # "logout"
  BY <1>1, <1>4 DEF LoginEffect, TaskBut
<1>5. ASSUME NEW w, NEW s, NEW c, FillEffect(w, s, c)
      PROVE  /\ \A j \in Id : loggedOut'[j] = 0
             /\ \A u \in Task : task'[u].kind # "logout"
  <2>1. w.task \in Task
    BY <1>5 DEF FillEffect, LoginWrite, Write
  <2>2. task'[w.task].kind = task[w.task].kind
    BY <1>5, <2>1 DEF FillEffect, IInv, TypeOK, AccessorTypeOK, TaskState
  <2>. QED
    BY <1>1, <1>5, <2>1, <2>2 DEF FillEffect, TaskBut
<1>6. ASSUME NEW w, OpenEffect(w)
      PROVE  /\ \A j \in Id : loggedOut'[j] = 0
             /\ \A u \in Task : task'[u].kind # "logout"
  BY <1>1, <1>6 DEF OpenEffect, TaskBut, Idle
<1>7. ASSUME NEW w, StoreEffect(w)
      PROVE  /\ \A j \in Id : loggedOut'[j] = 0
             /\ \A u \in Task : task'[u].kind # "logout"
  BY <1>1, <1>7 DEF StoreEffect
<1>. QED
  BY <1>2, <1>3, <1>4, <1>5, <1>6, <1>7, StepEffect

LEMMA NoLogoutsInit == Init => NoLogouts
BY DEF Init, AccessorInit, NoLogouts, Idle

(* Where a step leaves the handlers alone, the logouts and the clock too.  *)
LEMMA HandlersSame ==
    ASSUME IInv, IInv', MemTimes, WindowInv,
           UNCHANGED <<clock, last, loggedOut>>,
           \A h \in Handlers : mem'[h] = mem[h],
           \A h \in Handlers, x \in Obj :
             heap'[h][x] \in Session => heap'[h][x] = heap[h][x],
           \A t \in Task : t[1] \in Handlers => task'[t] = task[t]
    PROVE  MemTimes' /\ WindowInv'
<1>. USE NamesAssumption
<1>1. MemTimes'
  BY DEF MemTimes
<1>2. ASSUME NEW h \in Handlers, NEW i \in Id, mem'[h][i].obj # NoRef
      PROVE  heap'[h][mem'[h][i].obj] = heap[h][mem[h][i].obj]
  <2>1. h \in Proc
    BY DEF Proc
  <2>2. Good(heap', h, mem'[h][i].obj, i) /\ mem'[h][i].obj \in Obj
    BY <1>2, <2>1 DEF IInv, Own, MemOwn, TypeOK, AccessorTypeOK
  <2>. QED
    BY <2>2 DEF Good
<1>3. WindowInv'
  BY <1>2 DEF WindowInv, InGet
<1>. QED
  BY <1>1, <1>3

(* Entries of memory: those there were and new ones.                       *)
LEMMA EffectMemTimes ==
    ASSUME IInv, IInv', MemTimes, Effect
    PROVE  MemTimes'
<1>. USE NamesAssumption, TimesAssumption
<1>1. MemEffect /\ clock' = clock /\ clock \in Nat /\ MemTime \in Nat \ {0}
  BY DEF Effect, CacheEffect, IInv, TypeOK, AccessorTypeOK, Time
<1>2. \A h \in Handlers : h \in Proc
  BY DEF Proc
<1>. QED
  BY <1>1, <1>2 DEF MemTimes, MemEffect

LEMMA TickMemTimes ==
    ASSUME IInv, MemTimes, TickEffect
    PROVE  MemTimes'
<1>. USE NamesAssumption, TimesAssumption
<1>1. clock' = clock + 1 /\ clock \in Nat /\ MemTime \in Nat
  BY DEF TickEffect, IInv, TypeOK, AccessorTypeOK, Time
<1>2. ASSUME NEW h \in Handlers, NEW i \in Id, mem'[h][i].obj # NoRef
      PROVE  clock' < mem'[h][i].until /\ mem'[h][i].until <= clock' + MemTime
  <2>1. h \in Proc
    BY DEF Proc
  <2>2. mem'[h][i] = mem[h][i] /\ clock' < mem[h][i].until
    BY <1>2, <2>1 DEF TickEffect
  <2>3. mem[h][i].until <= clock + MemTime /\ mem[h][i].until \in Nat
    BY <1>2, <2>1, <2>2 DEF MemTimes, IInv, TypeOK, AccessorTypeOK, Time
  <2>. QED
    BY <1>1, <2>2, <2>3
<1>. QED
  BY <1>2 DEF MemTimes

(* How long after its logout a session is accepted.                        *)
LEMMA AcceptedWindow ==
    ASSUME IInv, LifeInv, MemTimes, WindowInv, NEW h, NEW e, Accepted(h, e),
           e.time \in Nat, loggedOut[e.id] # 0
    PROVE  /\ e.time <= loggedOut[e.id] + Latency + MemTime - 1
           /\ clock <= loggedOut[e.id] + Latency + MemTime - 1
<1>. USE NamesAssumption, TimesAssumption
<1>1. /\ e.id \in Id /\ Start <= e.time /\ e.time <= clock
      /\ clock <= e.time + Latency
  BY AcceptedFresh
<1>2. /\ h \in Handlers /\ h \in Proc /\ clock \in Nat /\ loggedOut[e.id] \in Nat
      /\ Latency \in Nat /\ MemTime \in Nat \ {0} /\ Timeout \in Nat
  BY <1>1 DEF Accepted, Proc, IInv, TypeOK, AccessorTypeOK, Time
<1>3. CASE /\ mem[h][e.id].obj # NoRef
           /\ e.time = clock
           /\ e.time - heap[h][mem[h][e.id].obj].utime <= Timeout
  <2>. DEFINE u == heap[h][mem[h][e.id].obj].utime
  <2>1. u \in Nat
    BY <1>1, <1>2, <1>3 DEF IInv, Own, MemOwn, Good, Session, Time
  <2>2. e.time - u <= Timeout
    BY <1>3
  <2>3. mem[h][e.id].until \in Nat
    BY <1>1, <1>2 DEF IInv, TypeOK, AccessorTypeOK, Time
  <2>4. clock < mem[h][e.id].until
    BY <1>1, <1>2, <1>3 DEF MemTimes
  <2>5. u # 0 => mem[h][e.id].until <= loggedOut[e.id] + Latency + MemTime
    BY <1>1, <1>2, <1>3 DEF WindowInv
  <2>. HIDE DEF u
  <2>6. u # 0
    BY <1>1, <1>2, <2>1, <2>2 DEF Start
  <2>. QED
    BY <1>1, <1>2, <2>3, <2>4, <2>5, <2>6
<1>4. ASSUME NEW t \in Task, t[1] = h, InGet(t), task[t].id = e.id,
             task[t].ans \in Session,
             e.time = task[t].since, e.time - task[t].ans.utime <= Timeout
      PROVE  e.time <= loggedOut[e.id]
  <2>1. task[t].ans.utime \in Nat
    BY <1>4 DEF Session, Time
  <2>2. task[t].ans.utime # 0
    BY <1>1, <1>2, <1>4, <2>1 DEF Start
  <2>. QED
    BY <1>2, <1>4, <2>2 DEF WindowInv
<1>5. CASE e.time <= loggedOut[e.id]
  BY <1>1, <1>2, <1>5
<1>. QED
  BY <1>3, <1>4, <1>5 DEF Accepted

(* What is logged out by a step is logged out now.                         *)
LEMMA ReportedNow ==
    ASSUME IInv, ReportEffect, NEW i \in Id
    PROVE  \/ loggedOut'[i] = loggedOut[i]
           \/ loggedOut'[i] = clock /\ loggedOut[i] = 0
BY DEF ReportEffect, Report, IInv, TypeOK

(* The heart of the matter: an answer of the store that is on its way at   *)
(* the logout, and what it fills, is all that keeps the session.           *)
LEMMA EffectWindow ==
    ASSUME LogoutsLast, IInv, IInv', LifeInv, ExpireInv, MemTimes, WindowInv, Effect
    PROVE  WindowInv'
<1>. USE NamesAssumption, TimesAssumption
<1>1. /\ TaskEffect /\ LastEffect /\ MemEffect /\ BirthsKept /\ ReportEffect
      /\ clock' = clock /\ TimesSound /\ ~Faulty
  BY DEF Effect, Ordinary, CacheEffect, LifeInv, LogoutsLast
<1>2. /\ clock \in Nat /\ Latency \in Nat /\ MemTime \in Nat \ {0}
      /\ \A i \in Id : loggedOut[i] \in Nat /\ loggedOut'[i] \in Nat
      /\ \A h \in Handlers : h \in Proc
  BY DEF Proc, IInv, TypeOK, AccessorTypeOK, Time
<1>3. \A i \in Id : \/ loggedOut'[i] = loggedOut[i]
                    \/ loggedOut'[i] = clock /\ loggedOut[i] = 0
  BY <1>1, ReportedNow
<1>4. \A i \in Id : loggedOut'[i] <= clock
  BY <1>2, <1>3 DEF WindowInv
<1>5. ASSUME NEW h \in Handlers, last'[h].obj # NoRef
      PROVE  /\ last'[h].time <= clock
             /\ loggedOut'[last'[h].id] # 0
                  => last'[h].time <= loggedOut'[last'[h].id] + Latency + MemTime - 1
  <2>. DEFINE e == last'[h]
  <2>1. e.time \in Nat /\ e.id \in Id
    BY <1>2, <1>5 DEF IInv, TypeOK, AccessorTypeOK, Time, Own, LastOwn, Good, Session
  <2>2. CASE e = last[h]
    <3>1. /\ e.time <= clock
          /\ loggedOut[e.id] # 0 => e.time <= loggedOut[e.id] + Latency + MemTime - 1
      BY <1>5, <2>2 DEF WindowInv
    <3>. HIDE DEF e
    <3>2. loggedOut'[e.id] # 0 => e.time <= loggedOut'[e.id] + Latency + MemTime - 1
      BY <1>2, <1>3, <2>1, <3>1
    <3>. QED
      BY <3>1, <3>2 DEF e
  <2>3. CASE Accepted(h, e)
    <3>. HIDE DEF e
    <3>1. e.time <= clock
      BY <2>1, <2>3, AcceptedFresh
    <3>2. loggedOut[e.id] # 0 => e.time <= loggedOut[e.id] + Latency + MemTime - 1
      BY <2>1, <2>3, AcceptedWindow
    <3>3. loggedOut'[e.id] # 0 => e.time <= loggedOut'[e.id] + Latency + MemTime - 1
      BY <1>2, <1>3, <2>1, <3>1, <3>2
    <3>. QED
      BY <3>1, <3>3 DEF e
  <2>. QED
    BY <1>1, <1>2, <1>5, <2>2, <2>3 DEF LastEffect
<1>6. ASSUME NEW t \in Task, t[1] \in Handlers, InGet(t)', task'[t].ans \in Session,
             task'[t].ans.utime # 0, loggedOut'[task'[t].id] # 0
      PROVE  task'[t].since <= loggedOut'[task'[t].id]
  <2>. DEFINE i == task[t].id
  <2>1. /\ InGet(t) /\ task'[t].id = i /\ task'[t].since = task[t].since
        /\ \/ task'[t].ans = task[t].ans
           \/ task'[t].ans = store[i] /\ i \in cookie
    BY <1>1, <1>6 DEF TaskEffect, GoesOn, Idle, InGet
  <2>2. i \in Id /\ task[t].since \in Nat /\ task[t].since <= clock
    BY <1>1, <2>1 DEF InGet, IInv, PcOK, TypeOK, AccessorTypeOK, TaskState, Time, TimesSound
  <2>3. loggedOut[i] # 0 => store[i].utime = 0
    BY <2>2 DEF ExpireInv
  <2>4. loggedOut[i] # 0 => task'[t].ans = task[t].ans
    BY <1>6, <2>1, <2>3
  <2>5. loggedOut[i] # 0 => task[t].since <= loggedOut[i]
    BY <1>6, <2>1, <2>4 DEF WindowInv
  <2>6. loggedOut'[i] # 0
    BY <1>6, <2>1
  <2>. HIDE DEF i
  <2>7. task[t].since <= loggedOut'[i]
    BY <1>2, <1>3, <2>2, <2>5, <2>6
  <2>. QED
    BY <2>1, <2>7
<1>7. ASSUME NEW h \in Handlers, NEW i \in Id, mem'[h][i].obj # NoRef,
             loggedOut'[i] # 0, heap'[h][mem'[h][i].obj].utime # 0
      PROVE  mem'[h][i].until <= loggedOut'[i] + Latency + MemTime
  <2>0. mem'[h][i].until \in Nat /\ mem[h][i].until \in Nat /\ mem'[h][i].obj \in Obj
    BY <1>2, <1>7 DEF IInv, TypeOK, AccessorTypeOK, Time
  <2>1. CASE mem'[h][i] = mem[h][i]
    <3>. DEFINE o == mem[h][i].obj
    <3>1. o \in Held(h) /\ o \in Held(h)' /\ o \in Obj
      BY <2>0, <2>1 DEF Held
    <3>2. heap[h][o].utime # 0
      BY <1>1, <1>7, <2>1, <3>1 DEF BirthsKept
    <3>3. loggedOut[i] # 0 => mem[h][i].until <= loggedOut[i] + Latency + MemTime
      BY <1>7, <2>1, <3>2 DEF WindowInv
    <3>4. mem[h][i].until <= clock + MemTime
      BY <1>7, <2>1 DEF MemTimes
    <3>. QED
      BY <1>2, <1>3, <1>7, <2>0, <2>1, <3>3, <3>4
  <2>2. CASE mem'[h][i].until = clock + MemTime
             /\ \E t \in Task :
                   /\ t[1] = h /\ InGet(t) /\ task[t].id = i
                   /\ task[t].ans \in Session
                   /\ heap'[h][mem'[h][i].obj].utime = task[t].ans.utime
    <3>1. PICK t \in Task : /\ t[1] = h /\ InGet(t) /\ task[t].id = i
                            /\ task[t].ans \in Session /\ task[t].ans.utime # 0
      BY <1>7, <2>2
    <3>2. task[t].since \in Nat /\ clock <= task[t].since + Latency
      BY <1>1, <3>1 DEF TimesSound, IInv, TypeOK, AccessorTypeOK, TaskState, Time
    <3>3. loggedOut[i] # 0 => task[t].since <= loggedOut[i]
      BY <3>1 DEF WindowInv
    <3>. QED
      BY <1>2, <1>3, <1>7, <2>0, <2>2, <3>2, <3>3
  <2>3. \A w \in writes : w.task[1] \notin Handlers
    BY DEF ExpireInv
  <2>. QED
    BY <1>1, <1>2, <1>7, <2>1, <2>2, <2>3 DEF MemEffect
<1>. QED
  BY <1>1, <1>4, <1>5, <1>6, <1>7 DEF WindowInv

(* Without logouts only the times of the one-entry caches are left.        *)
LEMMA EffectWindowNoLogout ==
    ASSUME IInv, IInv', LifeInv, WindowInv, Effect, \A i \in Id : loggedOut'[i] = 0
    PROVE  WindowInv'
<1>. USE NamesAssumption, TimesAssumption
<1>1. LastEffect /\ clock' = clock /\ clock \in Nat /\ \A h \in Handlers : h \in Proc
  BY DEF Proc, Effect, CacheEffect, IInv, TypeOK, AccessorTypeOK, Time
<1>2. ASSUME NEW h \in Handlers, last'[h].obj # NoRef
      PROVE  last'[h].time <= clock /\ last'[h].id \in Id
  <2>1. last'[h].time \in Nat /\ last'[h].id \in Id
    BY <1>1, <1>2 DEF IInv, TypeOK, AccessorTypeOK, Time, Own, LastOwn, Good, Session
  <2>. QED
    BY <1>1, <1>2, <2>1, AcceptedFresh DEF LastEffect, WindowInv
<1>3. ASSUME NEW t \in Task, InGet(t)'
      PROVE  task'[t].id \in Id
  BY <1>3 DEF InGet, IInv, PcOK
<1>4. \A i \in Id : loggedOut'[i] <= clock
  BY <1>1
<1>. QED
  BY <1>1, <1>2, <1>3, <1>4 DEF WindowInv

LEMMA TickWindow ==
    ASSUME IInv, IInv', WindowInv, TickEffect
    PROVE  WindowInv'
<1>. USE NamesAssumption, TimesAssumption
<1>1. /\ clock' = clock + 1 /\ clock \in Nat /\ \A h \in Handlers : h \in Proc
      /\ \A i \in Id : loggedOut[i] \in Nat
      /\ \A h \in Handlers : last[h].time \in Nat
      /\ BirthsKept /\ UNCHANGED <<last, task, loggedOut>>
  BY DEF Proc, TickEffect, IInv, TypeOK, AccessorTypeOK, Time
<1>2. \A i \in Id : loggedOut'[i] <= clock'
  BY <1>1 DEF WindowInv
<1>3. \A h \in Handlers : last'[h].obj # NoRef => last'[h].time <= clock'
  BY <1>1 DEF WindowInv
<1>4. ASSUME NEW h \in Handlers, NEW i \in Id, mem'[h][i].obj # NoRef,
             heap'[h][mem'[h][i].obj].utime # 0
      PROVE  mem'[h][i] = mem[h][i] /\ heap[h][mem[h][i].obj].utime # 0
  <2>1. mem'[h][i] = mem[h][i] /\ mem[h][i].obj \in Obj
    BY <1>1, <1>4 DEF TickEffect, IInv, TypeOK, AccessorTypeOK
  <2>2. mem[h][i].obj \in Held(h) /\ mem[h][i].obj \in Held(h)'
    BY <2>1 DEF Held
  <2>. QED
    BY <1>1, <1>4, <2>1, <2>2 DEF BirthsKept
<1>. QED
  BY <1>1, <1>2, <1>3, <1>4 DEF WindowInv, InGet

(* The case of the theorem: a logout is the last write, or there is none.  *)
LogoutsHold == LogoutsLast \/ "logout" \notin Requests

KeptInv ==
    /\ LogoutsLast => OpenInv /\ ExpireInv
    /\ NoLogouts /\ MemTimes /\ WindowInv

LEMMA KeptStep ==
    ASSUME LogoutsHold, IInv, IInv', LifeInv, KeptInv, [Next]_vars
    PROVE  KeptInv'
<1>. USE NamesAssumption
<1>0. NoLogouts /\ MemTimes /\ WindowInv
  BY DEF KeptInv
<1>1. NoLogouts'
  BY <1>0, NoLogoutsStep
<1>2. LogoutsLast => OpenInv' /\ ExpireInv'
  BY OpenStep, ExpireStep DEF KeptInv, LogoutsLast
<1>3. CASE Effect
  <2>1. CASE LogoutsLast
    BY <1>0, <1>1, <1>2, <1>3, <2>1, EffectMemTimes, EffectWindow DEF KeptInv
  <2>2. CASE "logout" \notin Requests
    <3>1. \A i \in Id : loggedOut'[i] = 0
      BY <1>1, <2>2 DEF NoLogouts
    <3>. QED
      BY <1>0, <1>1, <1>2, <1>3, <3>1, EffectMemTimes, EffectWindowNoLogout DEF KeptInv
  <2>. QED
    BY <2>1, <2>2 DEF LogoutsHold
<1>4. CASE TickEffect
  BY <1>0, <1>1, <1>2, <1>4, TickMemTimes, TickWindow DEF KeptInv
<1>5. ASSUME NEW t, NEW i, NEW o, NEW s, NEW c, LoginEffect(t, i, o, s, c)
      PROVE  MemTimes' /\ WindowInv'
  <2>1. /\ t[1] \in Portals /\ HeapBut(t[1], o, s) /\ TaskBut(t)
        /\ UNCHANGED <<clock, mem, last, loggedOut>>
    BY <1>5 DEF LoginEffect
  <2>2. \A h \in Handlers, x \in Obj :
          heap'[h][x] \in Session => heap'[h][x] = heap[h][x]
    BY <2>1 DEF HeapBut, Proc
  <2>3. \A u \in Task : u[1] \in Handlers => task'[u] = task[u]
    BY <2>1 DEF TaskBut
  <2>. QED
    BY <1>0, <2>1, <2>2, <2>3, HandlersSame
<1>6. ASSUME NEW w, NEW s, NEW c, FillEffect(w, s, c)
      PROVE  MemTimes' /\ WindowInv'
  <2>1. /\ w.task[1] \in Portals /\ HeapBut(w.task[1], w.obj, s) /\ TaskBut(w.task)
        /\ MemBut(w.task[1])
        /\ UNCHANGED <<clock, last, loggedOut>>
    BY <1>6 DEF FillEffect, LoginWrite
  <2>2. \A h \in Handlers, x \in Obj :
          heap'[h][x] \in Session => heap'[h][x] = heap[h][x]
    BY <2>1 DEF HeapBut, Proc
  <2>3. \A u \in Task : u[1] \in Handlers => task'[u] = task[u]
    BY <2>1 DEF TaskBut
  <2>4. \A h \in Handlers : mem'[h] = mem[h]
    BY <2>1 DEF MemBut, Proc
  <2>. QED
    BY <1>0, <2>1, <2>2, <2>3, <2>4, HandlersSame
<1>7. ASSUME NEW w, OpenEffect(w)
      PROVE  MemTimes' /\ WindowInv'
  <2>1. /\ w.task[1] \in Portals /\ TaskBut(w.task) /\ MemBut(w.task[1])
        /\ \A q \in Proc, x \in Obj :
             heap'[q][x] \in Session => heap'[q][x] = heap[q][x]
        /\ UNCHANGED <<clock, last, loggedOut>>
    BY <1>7 DEF OpenEffect, LoginWrite
  <2>2. \A h \in Handlers, x \in Obj :
          heap'[h][x] \in Session => heap'[h][x] = heap[h][x]
    BY <2>1 DEF Proc
  <2>3. \A u \in Task : u[1] \in Handlers => task'[u] = task[u]
    BY <2>1 DEF TaskBut
  <2>4. \A h \in Handlers : mem'[h] = mem[h]
    BY <2>1 DEF MemBut, Proc
  <2>. QED
    BY <1>0, <2>1, <2>2, <2>3, <2>4, HandlersSame
<1>8. ASSUME NEW w, StoreEffect(w)
      PROVE  MemTimes' /\ WindowInv'
  BY <1>0, <1>8, HandlersSame DEF StoreEffect
<1>. QED
  BY <1>1, <1>2, <1>3, <1>4, <1>5, <1>6, <1>7, <1>8, StepEffect DEF KeptInv

LEMMA KeptInit == Init => KeptInv
<1>. SUFFICES ASSUME Init PROVE KeptInv
  OBVIOUS
<1>1. OpenInv /\ ExpireInv /\ NoLogouts
  BY OpenInit, ExpireInit, NoLogoutsInit
<1>2. /\ \A h \in Handlers : h \in Proc /\ last[h].obj = NoRef
      /\ \A h \in Handlers, i \in Id : mem[h][i].obj = NoRef
      /\ \A i \in Id : loggedOut[i] = 0
      /\ \A t \in Task : task[t].ans = NoSession
      /\ clock = Start /\ Start \in Nat
  BY TimesAssumption DEF Init, AccessorInit, Proc, NoLast, EmptyCache, NoEntry, Idle, Start
<1>3. MemTimes /\ WindowInv
  BY <1>2, NamesAssumption DEF MemTimes, WindowInv
<1>. QED
  BY <1>1, <1>3 DEF KeptInv

-----------------------------------------------------------------------------
(* The handlers keep the promise *)

LEMMA PromiseInit == Init => Promise!Init
BY TimesAssumption DEF Init, AccessorInit, Start, Promise!Init

LEMMA SlackEnough ==
    /\ Timeout \in Nat /\ Slack \in Nat /\ Internal \in Nat \ {0} /\ Latency \in Nat
    /\ Internal - 1 <= Slack /\ Latency <= Slack
BY TimesAssumption DEF Slack

(* An access that is granted is granted in time.                           *)
LEMMA GrantedInTime ==
    ASSUME IInv, LifeInv, MemTimes, WindowInv, NEW h \in Handlers,
           NEW e \in [id : cookie, time : Time],
           \/ /\ last[h].obj # NoRef
              /\ e = [id |-> last[h].id, time |-> last[h].time]
              /\ clock - e.time < Internal
           \/ Accepted(h, e)
    PROVE  /\ clock <= born[e.id] + (Timeout + Slack)
           /\ loggedOut[e.id] # 0
                => clock <= loggedOut[e.id] + (Latency + MemTime + Internal - 2)
<1>. USE NamesAssumption
<1>1. /\ e.id \in cookie /\ e.id \in Id /\ e.time \in Nat /\ clock \in Nat
      /\ born[e.id] \in Nat /\ loggedOut[e.id] \in Nat /\ MemTime \in Nat \ {0}
      /\ h \in Proc
  BY TimesAssumption DEF Time, IInv, TypeOK, AccessorTypeOK, Proc
<1>2. /\ Timeout \in Nat /\ Slack \in Nat /\ Internal \in Nat \ {0} /\ Latency \in Nat
      /\ Internal - 1 <= Slack /\ Latency <= Slack
  BY SlackEnough
<1>3. CASE /\ last[h].obj # NoRef
           /\ e = [id |-> last[h].id, time |-> last[h].time]
           /\ clock - e.time < Internal
  <2>1. e.time <= born[e.id] + Timeout
    BY <1>1, <1>3 DEF LifeInv, TimesSound
  <2>2. loggedOut[e.id] # 0 => e.time <= loggedOut[e.id] + Latency + MemTime - 1
    BY <1>3 DEF WindowInv
  <2>3. clock <= e.time + Internal - 1
    BY <1>1, <1>2, <1>3
  <2>. QED
    BY <1>1, <1>2, <2>1, <2>2, <2>3
<1>4. CASE Accepted(h, e)
  <2>1. e.time <= born[e.id] + Timeout /\ clock <= e.time + Latency
    BY <1>1, <1>4, AcceptedFresh
  <2>2. loggedOut[e.id] # 0 => clock <= loggedOut[e.id] + Latency + MemTime - 1
    BY <1>1, <1>4, AcceptedWindow
  <2>. QED
    BY <1>1, <1>2, <2>1, <2>2
<1>. QED
  BY <1>3, <1>4

LEMMA PromiseStep ==
    ASSUME IInv, IInv', LifeInv, KeptInv, [Next]_vars
    PROVE  [Promise!Next]_(Promise!vars)
<1>. USE NamesAssumption DEF Promise!vars, Promise!Next
<1>0. MemTimes /\ WindowInv /\ cookie \subseteq Id
  BY DEF KeptInv, IInv, TypeOK
<1>1. CASE Effect
  <2>0. UNCHANGED <<clock, born, cookie>>
    BY <1>1 DEF Effect, Ordinary
  <2>1. CASE loggedOut' # loggedOut
    <3>1. granted' = granted
      BY <1>1, <2>1 DEF Effect
    <3>2. PICK i \in cookie : Report(i)
      BY <1>1, <2>1 DEF Effect, ReportEffect
    <3>3. i \in Id /\ Promise!Logout(i)
      BY <1>0, <2>0, <3>1, <3>2 DEF Report, Promise!Logout
    <3>. QED
      BY <3>3
  <2>2. CASE loggedOut' = loggedOut /\ granted' # granted
    <3>1. PICK h \in Handlers, e \in [id : cookie, time : Time] :
            /\ \/ /\ last[h].obj # NoRef
                  /\ e = [id |-> last[h].id, time |-> last[h].time]
                  /\ clock - e.time < Internal
               \/ Accepted(h, e)
            /\ granted' = [granted EXCEPT ![e.id] = clock]
      BY <1>1, <2>2 DEF Effect, GrantEffect
    <3>2. /\ clock <= born[e.id] + (Timeout + Slack)
          /\ loggedOut[e.id] # 0
               => clock <= loggedOut[e.id] + (Latency + MemTime + Internal - 2)
      BY <1>0, <3>1, GrantedInTime
    <3>3. e.id \in cookie /\ e.id \in Id
      BY <1>0
    <3>4. Promise!Grant(e.id)
      BY <2>0, <2>2, <3>1, <3>2, <3>3 DEF Promise!Grant
    <3>. QED
      BY <3>3, <3>4
  <2>. QED
    BY <2>0, <2>1, <2>2
<1>2. CASE TickEffect
  BY <1>2 DEF TickEffect, Ordinary, Promise!Tick
<1>3. ASSUME NEW t, NEW i, NEW o, NEW s, NEW c, LoginEffect(t, i, o, s, c)
      PROVE  \E j \in Id : Promise!Create(j)
  BY <1>3 DEF LoginEffect, Promise!Create
<1>4. ASSUME NEW w, NEW s, NEW c, FillEffect(w, s, c)
      PROVE  UNCHANGED Promise!vars
  BY <1>4 DEF FillEffect
<1>5. ASSUME NEW w, OpenEffect(w)
      PROVE  \E j \in Id : Promise!Open(j)
  <2>1. w \in writes /\ w.data \in Session
    BY <1>5 DEF OpenEffect, LoginWrite, Write
  <2>2. w.data.id \in Id /\ born[w.data.id] # 0
    BY <2>1 DEF LifeInv, RecordsSound, Sound, Session
  <2>. QED
    BY <1>5, <2>2 DEF OpenEffect, Promise!Open
<1>6. ASSUME NEW w, StoreEffect(w)
      PROVE  UNCHANGED Promise!vars
  BY <1>6 DEF StoreEffect
<1>. QED
  BY <1>1, <1>2, <1>3, <1>4, <1>5, <1>6, StepEffect

(* Handlers, portals and store together keep what single sign-on promises: *)
(* access only to a session whose cookie was given, no later than its      *)
(* timeout and what the one-entry cache or a slow store adds to it, and no *)
(* later than the window after the answer to its logout.  This holds where *)
(* logouts take effect, and where there are none, whatever fails.          *)
THEOREM SsoKeepsPromise ==
    (LogoutsLast \/ "logout" \notin Requests) => (Spec => PromiseKept)
<1>. SUFFICES ASSUME LogoutsHold
              PROVE  Spec => PromiseKept
  BY DEF LogoutsHold
<1>. DEFINE All == IInv /\ LifeInv /\ KeptInv
<1>1. Init => All
  BY InitInv, LifeInit, KeptInit
<1>2. All /\ [Next]_vars => All'
  BY NextInv, LifeStep, KeptStep
<1>3. All /\ All' /\ [Next]_vars => [Promise!Next]_(Promise!vars)
  BY PromiseStep
<1>4. Init => Promise!Init
  BY PromiseInit
<1>. QED
  BY <1>1, <1>2, <1>3, <1>4, PTL DEF Spec, PromiseKept, Promise!Spec

=============================================================================
