------------------------------- MODULE Portal -------------------------------
(***************************************************************************)
(* The portal's side of the session life cycle: login, the requests of an  *)
(* authenticated user, logout and the change of a password that must be    *)
(* changed (packages/portal: routes, session middleware, portal.ts).       *)
(*                                                                         *)
(* The session middleware loads the session of every request before its    *)
(* route runs; the route then awaits hooks, modules or the accessor, with  *)
(* a reference to the session object it was given.                         *)
(***************************************************************************)
EXTENDS SessionAccessor

CONSTANTS
    Requests    \* the requests browsers make: "menu", "logout", "password"

VARIABLES
    born,       \* when each session id was generated, 0 before
    loggedOut   \* history: when the portal first answered a logout, or 0

-----------------------------------------------------------------------------
(* POST /: createSession, setSessionInfo, updateSession, then the cookie *)

Login(t, i) ==
    LET p == t[1]
        o == NewObj(p)
        s == [id |-> i, utime |-> clock, lastSeen |-> clock, data |-> "new"]
    IN  /\ task[t] = Idle
        /\ born[i] = 0
        /\ born' = [born EXCEPT ![i] = clock]
        /\ UNCHANGED <<clock, store, mem, last, ready, cookie, loggedOut>>
        /\ CanAllocate(p)
        /\ task' = [task EXCEPT ![t] = [Idle EXCEPT
                      !.kind = "login", !.pc = "create", !.id = i, !.ref = o]]
        /\ writes' = writes \cup {UpdateCall(t, o, s)}
        /\ Collect(p, [heap[p] EXCEPT ![o] = s])

(* Mutant of Created: the second update is not awaited. *)
CreatedUnawaited(w) ==
    LET t == w.task
        s == [heap[t[1]][w.obj] EXCEPT !.data = "full"]
    IN  /\ w.applied
        /\ task[t].pc = "create"
        /\ task' = [task EXCEPT ![t].pc = "info"]
        /\ cookie' = cookie \cup {w.data.id}
        /\ writes' = (writes \ {w}) \cup {UpdateCall(t, w.obj, s)}
        /\ UNCHANGED <<clock, store, mem, last, ready, born, loggedOut>>
        /\ Collect(t[1], [heap[t[1]] EXCEPT ![w.obj] = s])

(* The first update answered: the user database fills the session, which   *)
(* is written again.                                                       *)
Created(w) ==
    LET t == w.task
        p == t[1]
    IN  /\ w.applied
        /\ task[t].pc = "create"
        /\ mem' = [mem EXCEPT ![p] = CachePut(@, w.data.id, w.obj)]
        /\ task' = [task EXCEPT ![t].pc = "info"]
        /\ UNCHANGED <<clock, store, last, ready, born, cookie, loggedOut>>
        /\ \E d \in {"reset", "full"} :
             LET s == [heap[p][w.obj] EXCEPT !.data = d, !.lastSeen = clock]
             IN  /\ writes' = (writes \ {w}) \cup {UpdateCall(t, w.obj, s)}
                 /\ Collect(p, [heap[p] EXCEPT ![w.obj] = s])

(* The second one answered: the browser gets its cookie.                   *)
Opened(w) ==
    LET p == w.task[1]
    IN  /\ w.applied
        /\ task[w.task].pc = "info"
        /\ mem' = [mem EXCEPT ![p] = CachePut(@, w.data.id, w.obj)]
        /\ task' = [task EXCEPT ![w.task] = Idle]
        /\ writes' = writes \ {w}
        /\ cookie' = cookie \cup {w.data.id}
        /\ UNCHANGED <<clock, store, last, ready, born, loggedOut>>
        /\ Collect(p, heap[p])

-----------------------------------------------------------------------------
(* The session middleware *)

(* getSession found the object o: a session that timed out is not given to *)
(* the request, which ends there like one without a cookie.  The menu      *)
(* answers at once; the other requests wait for hooks or for a module.     *)
Loaded(t, k, i, o, s) ==
    task' = [task EXCEPT ![t] =
               IF clock - s.utime > Timeout \/ k = "menu"
               THEN Idle
               ELSE [Idle EXCEPT !.kind = k, !.pc = "loaded", !.id = i,
                                 !.ref = o]]

EnterFromMemory(t, k, i) ==
    LET p == t[1]
        o == mem[p][i].obj
    IN  /\ task[t] = Idle
        /\ Cached(p, i)
        /\ Loaded(t, k, i, o, heap[p][o])
        /\ UNCHANGED <<clock, store, mem, last, ready, writes, born, cookie,
                       loggedOut>>
        /\ Collect(p, heap[p])

EnterFromStore(t, k, i) ==
    /\ task[t] = Idle
    /\ ~Cached(t[1], i)
    /\ task' = [task EXCEPT ![t] = Getting(k, "get", i)]
    /\ UNCHANGED <<clock, store, heap, mem, last, ready, writes, born, cookie,
                   loggedOut>>

(* The store answered the middleware.                                      *)
GotSession(t) ==
    LET p == t[1]
        i == task[t].id
        o == NewObj(p)
    IN  /\ p \in Portals
        /\ task[t].pc = "get"
        /\ Answered(t)
        /\ UNCHANGED <<clock, store, last, ready, writes, born, cookie,
                       loggedOut>>
        /\ IF task[t].ans = NoSession
           THEN /\ task' = [task EXCEPT ![t] = Idle]
                /\ UNCHANGED <<heap, mem>>
           ELSE /\ CanAllocate(p)
                /\ Loaded(t, task[t].kind, i, o, task[t].ans)
                /\ mem' = [mem EXCEPT ![p] = CachePut(@, i, o)]
                /\ Collect(p, [heap[p] EXCEPT ![o] = task[t].ans])

-----------------------------------------------------------------------------
(* GET /logout: deleteSession *)

(* The logout of session i is answered.                                    *)
Report(i) ==
    loggedOut' = [loggedOut EXCEPT ![i] = IF @ = 0 THEN clock ELSE @]

(* Mutant of MarkExpired: the record is written before it is marked. *)
MarkExpiredTooLate(t, i, o, s, cells) ==
    /\ task' = [task EXCEPT ![t] = [Idle EXCEPT
                  !.kind = "logout", !.pc = "save", !.id = i, !.ref = o]]
    /\ writes' = writes \cup {UpdateCall(t, o, s)}
    /\ Collect(t[1], [cells EXCEPT ![o].utime = 0])

(* deleteSession has the object o, which is s: it is marked as expired in  *)
(* place and written.                                                      *)
MarkExpired(t, i, o, s, cells) ==
    LET dead == [s EXCEPT !.utime = 0]
    IN  /\ task' = [task EXCEPT ![t] = [Idle EXCEPT
                      !.kind = "logout", !.pc = "save", !.id = i, !.ref = o]]
        /\ writes' = writes \cup {UpdateCall(t, o, dead)}
        /\ Collect(t[1], [cells EXCEPT ![o] = dead])

DeleteFromMemory(t) ==
    LET p == t[1]
        i == task[t].id
        o == mem[p][i].obj
    IN  /\ task[t].kind = "logout"
        /\ task[t].pc = "loaded"
        /\ Cached(p, i)
        /\ UNCHANGED <<clock, store, mem, last, ready, born, cookie, loggedOut>>
        /\ MarkExpired(t, i, o, heap[p][o], heap[p])

DeleteFromStore(t) ==
    LET p == t[1]
        i == task[t].id
    IN  /\ task[t].kind = "logout"
        /\ task[t].pc = "loaded"
        /\ ~Cached(p, i)
        /\ task' = [task EXCEPT ![t] = Getting("logout", "delete", i)]
        /\ UNCHANGED <<clock, store, mem, last, ready, writes, born, cookie,
                       loggedOut>>
        /\ Collect(p, heap[p])

GotForDelete(t) ==
    LET p == t[1]
        i == task[t].id
        o == NewObj(p)
    IN  /\ task[t].pc = "delete"
        /\ Answered(t)
        /\ task[t].ans # NoSession
        /\ UNCHANGED <<clock, store, last, ready, born, cookie, loggedOut>>
        /\ CanAllocate(p)
        /\ mem' = [mem EXCEPT ![p] = CachePut(@, i, o)]
        /\ MarkExpired(t, i, o, task[t].ans, heap[p])

(* get() rejected: deleteSession swallows it and the logout is answered.   *)
NothingToDelete(t) ==
    /\ task[t].pc = "delete"
    /\ Answered(t)
    /\ task[t].ans = NoSession
    /\ task' = [task EXCEPT ![t] = Idle]
    /\ Report(task[t].id)
    /\ UNCHANGED <<clock, store, heap, mem, last, ready, writes, born, cookie>>

-----------------------------------------------------------------------------
(* POST /password, once the password module answered *)

PasswordChanged(t) ==
    LET p == t[1]
        o == task[t].ref
        s == [heap[p][o] EXCEPT !.data = "full", !.lastSeen = clock]
    IN  /\ task[t].kind = "password"
        /\ task[t].pc = "loaded"
        /\ heap[p][o].data = "reset"
        /\ task' = [task EXCEPT ![t].pc = "save"]
        /\ writes' = writes \cup {UpdateCall(t, o, s)}
        /\ UNCHANGED <<clock, store, mem, last, ready, born, cookie, loggedOut>>
        /\ Collect(p, [heap[p] EXCEPT ![o] = s])

(* The module refused, or the flag _pwdMustChange was not set.             *)
PasswordDone(t) ==
    /\ task[t].kind = "password"
    /\ task[t].pc = "loaded"
    /\ task' = [task EXCEPT ![t] = Idle]
    /\ UNCHANGED <<clock, store, mem, last, ready, writes, born, cookie,
                   loggedOut>>
    /\ Collect(t[1], heap[t[1]])

-----------------------------------------------------------------------------
(* The end of an update *)

(* The update of a logout or of a password change answered.                *)
Saved(w) ==
    LET t == w.task
        p == t[1]
    IN  /\ w.applied
        /\ task[t].pc = "save"
        /\ mem' = [mem EXCEPT ![p] = CachePut(@, w.data.id, w.obj)]
        /\ task' = [task EXCEPT ![t] = Idle]
        /\ writes' = writes \ {w}
        /\ IF task[t].kind = "logout" THEN Report(w.data.id)
                                      ELSE UNCHANGED loggedOut
        /\ UNCHANGED <<clock, store, last, ready, born, cookie>>
        /\ Collect(p, heap[p])

(* An update fails, before or after it reached the store.  deleteSession   *)
(* swallows the error, the other requests answer an error.                 *)
SaveFails(w) ==
    LET t == w.task
        p == t[1]
    IN  /\ Faulty
        /\ p \in Portals
        /\ w.obj # NoRef
        /\ task' = [task EXCEPT ![t] = Idle]
        /\ writes' = writes \ {w}
        /\ IF task[t].kind = "logout" THEN Report(w.data.id)
                                      ELSE UNCHANGED loggedOut
        /\ UNCHANGED <<clock, store, mem, last, ready, born, cookie>>
        /\ Collect(p, heap[p])

PortalNext ==
    \/ \E p \in Portals, s \in Slots :
         \/ \E i \in Id : Login(<<p, s>>, i)
         \/ \E k \in Requests, i \in cookie :
              EnterFromMemory(<<p, s>>, k, i) \/ EnterFromStore(<<p, s>>, k, i)
         \/ GotSession(<<p, s>>)
         \/ DeleteFromMemory(<<p, s>>)
         \/ DeleteFromStore(<<p, s>>)
         \/ GotForDelete(<<p, s>>)
         \/ NothingToDelete(<<p, s>>)
         \/ PasswordChanged(<<p, s>>)
         \/ PasswordDone(<<p, s>>)
    \/ \E w \in writes : Created(w) \/ Opened(w) \/ Saved(w) \/ SaveFails(w)

=============================================================================
