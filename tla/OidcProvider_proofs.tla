------------------------ MODULE OidcProvider_proofs ------------------------
(***************************************************************************)
(* Proofs about OidcProvider, for any number of requests, clients and      *)
(* random strings, with failing store calls and restarts: type             *)
(* correctness, CodeOnce, SpentStaysSpent, HeldIsStored and GrantKept.     *)
(*                                                                         *)
(* None of the first three is inductive.  The argument is about ownership: *)
(* a string that a request drew is known to that request alone until its   *)
(* store call answers, so that nobody can have revoked or redeemed it      *)
(* before it is stored, and what is stored once is never stored again.     *)
(* GrantKept follows a code through the requests: a refresh token leaves   *)
(* the store in the hands of a request that goes on to store another.      *)
(***************************************************************************)
EXTENDS OidcProvider, TLAPS

(* A request that is about to store the string it drew.                    *)
Creates(v) == v.pc \in {"setCode", "setAccess", "setRefresh"}

Stored(t) == codes[t] # Nothing \/ access[t] # Nothing \/ refresh[t] # Nothing

(* What a request waits for tells what it has.                             *)
ShapeOf(v) ==
    /\ Creates(v) => v.new \in Token
    /\ Creates(v) \/ v.pc = "session" => v.data \in Data
    /\ v.pc = "setCode" => class[v.new] = "code"
    /\ v.pc = "setAccess" => class[v.new] = "access"
    /\ v.pc = "setRefresh" => class[v.new] = "refresh"
    /\ v.pc \in {"consume", "getRefresh", "rotate", "getAccess", "claims",
                 "getAgain", "revokeAccess", "revokeRefresh"} => v.tok \in Token
    /\ v.pc = "consume" => v.kind = "code" /\ class[v.tok] = "code"
    /\ v.kind = "refresh" => v.tok \in Token /\ class[v.tok] = "refresh"
    /\ v.pc = "rotate" => v.kind = "refresh" /\ v.client \in Client
    /\ v.pc \in {"session", "setRefresh"} => v.kind \in {"code", "refresh"}
    /\ v.pc \in {"session", "setRefresh", "rotate"} => v.root \in Token
    /\ v.pc = "setAccess" /\ v.kind \in {"code", "refresh"} => v.root \in Token

Shape == \A k \in Slot : ShapeOf(task[k])

(* A string that was not drawn is known to nobody.                         *)
UndrawnUnknown ==
    \A t \in Token :
      class[t] = "none" =>
        /\ t \notin held \cup spent
        /\ \A k \in Slot : t \notin task[k].out /\ t # task[k].tok

(* A string that is about to be stored is known to its request alone.      *)
NewTo(n, k) ==
    /\ ~Stored(n)
    /\ n \notin held \cup spent
    /\ grants[n] = 0
    /\ \A l \in Slot : n \notin task[l].out /\ n # task[l].tok
    /\ \A l \in Slot \ {k} : Creates(task[l]) => n # task[l].new

CreatedIsNew == \A k \in Slot : Creates(task[k]) => NewTo(task[k].new, k)

(* A code that was granted tokens is stored no more, and only codes and    *)
(* refresh tokens are granted any.                                         *)
GrantedOnce ==
    \A t \in Token :
      /\ class[t] = "code" /\ grants[t] # 0 => grants[t] = 1 /\ codes[t] = Nothing
      /\ class[t] \in {"none", "access"} => grants[t] = 0

(* Refresh tokens, and they alone, come from a code.                       *)
Rooted == \A t \in Token : class[t] = "refresh" <=> root[t] \in Token

(* A token that is being rotated or revoked has left the stores it had to  *)
(* leave so far.                                                           *)
LeftOf(v) ==
    /\ /\ v.kind = "refresh" /\ v.client \in Rotating
       /\ v.pc \in {"setAccess", "session", "setRefresh"}
       => refresh[v.tok] = Nothing
    /\ v.pc = "revokeRefresh" => access[v.tok] = Nothing

Leaving == \A k \in Slot : LeftOf(task[k])

(* What a response will have was stored before.                            *)
OutStored == \A k \in Slot : \A t \in task[k].out : t \in gone \/ Stored(t)

Safe ==
    /\ UndrawnUnknown /\ CreatedIsNew /\ GrantedOnce /\ Rooted /\ Leaving
    /\ OutStored /\ SpentStaysSpent /\ HeldIsStored

IInv == TypeOK /\ Shape /\ Safe


-----------------------------------------------------------------------------
(* What every step of a request does, in terms of what it owns: the        *)
(* parts of OwnStep are what each action is shown to satisfy, and all that *)
(* the invariant needs.                                                    *)

(* What a request can give to its client or remember.                      *)
Has(v) == v.out \cup (IF Creates(v) THEN {v.new} ELSE {})

OthersKept(k) == \A l \in Slot \ {k} : task'[l] = task[l]

Draws(k) ==
    /\ \A t \in Token :
         \/ class'[t] = class[t]
         \/ class[t] = "none" /\ Creates(task'[k]) /\ t = task'[k].new
    /\ Creates(task'[k]) => class[task'[k].new] = "none"

Learns(k) ==
    /\ held' \subseteq held \cup Has(task[k])
    /\ task'[k].out \subseteq Has(task[k])
    /\ task'[k].tok \in {task[k].tok, None} \cup held
    /\ \A t \in (held' \ held) \cup task'[k].out :
         t \in task[k].out \/ Stored(t)'

Writes(k) ==
    /\ \A t \in Token :
         /\ \/ codes'[t] \in {codes[t], Nothing}
            \/ task[k].pc = "setCode" /\ t = task[k].new
         /\ \/ access'[t] \in {access[t], Nothing}
            \/ task[k].pc = "setAccess" /\ t = task[k].new
         /\ \/ refresh'[t] \in {refresh[t], Nothing}
            \/ task[k].pc = "setRefresh" /\ t = task[k].new
         /\ Stored(t) => Stored(t)' \/ t \in gone'
    /\ gone \subseteq gone'

Spends(k) ==
    \A t \in spent' :
      \/ t \in spent
      \/ t = task[k].tok /\ access'[t] = Nothing /\ refresh'[t] = Nothing

Grants(k) ==
    \A t \in Token :
      \/ grants'[t] = grants[t]
      \/ t = task[k].tok /\ class[t] = "refresh"
      \/ /\ t = task[k].tok /\ class[t] = "code"
         /\ codes[t] # Nothing /\ codes'[t] = Nothing
         /\ grants'[t] = More(grants[t])

Roots ==
    \A t \in Token :
      IF class'[t] = class[t] THEN root'[t] = root[t]
      ELSE class'[t] = "refresh" <=> root'[t] \in Token

OwnStep(k) ==
    /\ OthersKept(k) /\ Draws(k) /\ Learns(k) /\ Writes(k) /\ Spends(k)
    /\ Grants(k) /\ Roots
    /\ ShapeOf(task[k])' /\ LeftOf(task[k])'

(* TypeOK without what the shape of the requests is needed for.            *)
Types ==
    /\ class \in [Token -> Class \cup {"none"}]
    /\ \A f \in {codes, access, refresh} : f \in [Token -> Data \cup {Nothing}]
    /\ task \in [Slot -> TaskState]
    /\ {held, gone, spent, kept} \subseteq SUBSET Token
    /\ grants \in [Token -> 0 .. 2]
    /\ root \in [Token -> Token \cup {None}]

LEMMA TypeStep ==
    ASSUME TypeOK, Shape, NEW k \in Slot, Types', Draws(k), Writes(k),
           UNCHANGED <<scenario, clock>>
    PROVE  TypeOK'
<1>1. ASSUME NEW t \in Token, class[t] # "none"
      PROVE  class'[t] = class[t]
  BY <1>1 DEF Draws
<1>2. ASSUME NEW t \in Token
      PROVE  /\ codes'[t] # Nothing => class'[t] = "code"
             /\ access'[t] # Nothing => class'[t] = "access"
             /\ refresh'[t] # Nothing => class'[t] = "refresh"
  <2>1. /\ codes[t] # Nothing => class[t] = "code"
        /\ access[t] # Nothing => class[t] = "access"
        /\ refresh[t] # Nothing => class[t] = "refresh"
    BY DEF TypeOK
  <2>2. ShapeOf(task[k])
    BY DEF Shape
  <2>. QED
    BY <1>1, <2>1, <2>2 DEF Writes, ShapeOf, Creates
<1>. QED
  BY <1>2 DEF TypeOK, Types, MaxClock

LEMMA OwnStepShape ==
    ASSUME TypeOK, Shape, NEW k \in Slot, OwnStep(k)
    PROVE  Shape'
<1>. SUFFICES ASSUME NEW l \in Slot \ {k} PROVE ShapeOf(task[l])'
  BY DEF Shape, OwnStep
<1>1. task'[l] = task[l] /\ ShapeOf(task[l])
  BY DEF Shape, OwnStep, OthersKept
<1>2. \A t \in Token : class[t] # "none" => class'[t] = class[t]
  BY DEF OwnStep, Draws
<1>. QED
  BY <1>1, <1>2 DEF ShapeOf, Creates

LEMMA OwnStepUndrawn ==
    ASSUME TypeOK, Shape, Safe, NEW k \in Slot, OwnStep(k)
    PROVE  UndrawnUnknown'
<1>. SUFFICES ASSUME NEW t \in Token, class'[t] = "none"
              PROVE  /\ t \notin held' \cup spent'
                     /\ \A l \in Slot : t \notin task'[l].out /\ t # task'[l].tok
  BY DEF UndrawnUnknown
<1>1. class[t] = "none"
  BY DEF OwnStep, Draws, ShapeOf, Creates
<1>2. /\ t \notin held \cup spent
      /\ \A l \in Slot : t \notin task[l].out /\ t # task[l].tok
  BY <1>1 DEF Safe, UndrawnUnknown
<1>3. t \notin Has(task[k])
  BY <1>1, <1>2 DEF Has, Shape, ShapeOf, Creates
<1>4. t # None
  BY BoundsAssumption
<1>5. t \notin held' \cup spent' /\ t \notin task'[k].out /\ t # task'[k].tok
  BY <1>2, <1>3, <1>4 DEF OwnStep, Learns, Spends
<1>. QED
  BY <1>2, <1>5 DEF OwnStep, OthersKept

LEMMA UnstoredStays ==
    ASSUME NEW k \in Slot, Writes(k), NEW n \in Token, ~Stored(n),
           Creates(task[k]) => n # task[k].new
    PROVE  ~Stored(n)'
<1>1. codes'[n] \in {codes[n], Nothing}
  BY DEF Writes, Creates
<1>2. access'[n] \in {access[n], Nothing}
  BY DEF Writes, Creates
<1>3. refresh'[n] \in {refresh[n], Nothing}
  BY DEF Writes, Creates
<1>. QED
  BY <1>1, <1>2, <1>3 DEF Stored

LEMMA OwnStepNew ==
    ASSUME TypeOK, Shape, Safe, NEW k \in Slot, OwnStep(k)
    PROVE  CreatedIsNew'
<1>0. \A t \in Token : t # None
  BY BoundsAssumption
<1>1. ASSUME Creates(task'[k]), NEW n, n = task'[k].new
      PROVE  NewTo(n, k)'
  <2>1. n \in Token /\ class[n] = "none"
    BY <1>1 DEF OwnStep, ShapeOf, Draws, Creates
  <2>2. /\ n \notin held \cup spent
        /\ \A l \in Slot : n \notin task[l].out /\ n # task[l].tok
        /\ grants[n] = 0 /\ ~Stored(n)
    BY <2>1 DEF Safe, UndrawnUnknown, GrantedOnce, TypeOK, Stored
  <2>3. \A l \in Slot : Creates(task[l]) => n # task[l].new
    BY <2>1 DEF Shape, ShapeOf, Creates
  <2>4. ~Stored(n)'
    BY <2>1, <2>2, <2>3, UnstoredStays DEF OwnStep
  <2>5. n \notin held' \cup spent' /\ n \notin task'[k].out /\ n # task'[k].tok
    BY <1>0, <1>1, <2>1, <2>2, <2>3 DEF OwnStep, Learns, Spends, Has
  <2>6. grants'[n] = 0
    BY <2>1, <2>2 DEF OwnStep, Grants
  <2>7. ASSUME NEW l \in Slot \ {k}
        PROVE  /\ n \notin task'[l].out /\ n # task'[l].tok
               /\ Creates(task'[l]) => n # task'[l].new
    BY <2>2, <2>3 DEF OwnStep, OthersKept
  <2>. QED
    BY <2>4, <2>5, <2>6, <2>7 DEF NewTo
<1>2. ASSUME NEW l \in Slot \ {k}, Creates(task'[l]), NEW n, n = task'[l].new
      PROVE  NewTo(n, l)'
  <2>1. task'[l] = task[l] /\ n = task[l].new
    BY <1>2 DEF OwnStep, OthersKept
  <2>2. n \in Token /\ class[n] # "none" /\ NewTo(n, l)
    BY <1>2, <2>1 DEF Shape, ShapeOf, Creates, Safe, CreatedIsNew
  <2>3. Creates(task[k]) => n # task[k].new
    BY <2>2 DEF NewTo
  <2>4. ~Stored(n)'
    BY <2>2, <2>3, UnstoredStays DEF OwnStep, NewTo
  <2>5. n \notin held' \cup spent' /\ n \notin task'[k].out /\ n # task'[k].tok
    BY <1>0, <2>2, <2>3 DEF OwnStep, Learns, Spends, Has, NewTo
  <2>6. grants'[n] = 0
    BY <2>2 DEF OwnStep, Grants, NewTo
  <2>7. Creates(task'[k]) => n # task'[k].new
    BY <2>2 DEF OwnStep, Draws
  <2>. QED
    BY <2>1, <2>2, <2>4, <2>5, <2>6, <2>7 DEF NewTo, OwnStep, OthersKept
<1>. QED
  BY <1>1, <1>2 DEF CreatedIsNew

LEMMA OwnStepGranted ==
    ASSUME TypeOK, Shape, Safe, NEW k \in Slot, OwnStep(k)
    PROVE  GrantedOnce'
<1>. SUFFICES ASSUME NEW t \in Token
              PROVE  /\ class'[t] = "code" /\ grants'[t] # 0 =>
                          grants'[t] = 1 /\ codes'[t] = Nothing
                     /\ class'[t] \in {"none", "access"} => grants'[t] = 0
  BY DEF GrantedOnce
<1>1. CASE class'[t] # class[t]
  <2>1. class[t] = "none"
    BY <1>1 DEF OwnStep, Draws
  <2>2. grants[t] = 0 /\ t # task[k].tok
    BY <2>1 DEF Safe, GrantedOnce, UndrawnUnknown
  <2>. QED
    BY <2>2 DEF OwnStep, Grants
<1>2. CASE class'[t] = class[t]
  <2>1. /\ class[t] = "code" /\ grants[t] # 0 => grants[t] = 1 /\ codes[t] = Nothing
        /\ class[t] \in {"none", "access"} => grants[t] = 0
    BY DEF Safe, GrantedOnce
  <2>2. task[k].pc = "setCode" /\ t = task[k].new => grants[t] = 0
    BY DEF Safe, CreatedIsNew, Creates, NewTo
  <2>3. CASE grants'[t] = grants[t]
    BY <1>2, <2>1, <2>2, <2>3 DEF OwnStep, Writes
  <2>4. CASE grants'[t] # grants[t] /\ class[t] = "code"
    BY <1>2, <2>1, <2>4 DEF OwnStep, Grants, More
  <2>5. CASE grants'[t] # grants[t] /\ class[t] # "code"
    BY <1>2, <2>5 DEF OwnStep, Grants
  <2>. QED
    BY <2>3, <2>4, <2>5
<1>. QED
  BY <1>1, <1>2

LEMMA OwnStepRooted ==
    ASSUME TypeOK, Shape, Safe, NEW k \in Slot, OwnStep(k)
    PROVE  Rooted'
BY DEF Safe, Rooted, OwnStep, Roots

LEMMA OwnStepLeaving ==
    ASSUME TypeOK, Shape, Safe, NEW k \in Slot, OwnStep(k)
    PROVE  Leaving'
<1>. SUFFICES ASSUME NEW l \in Slot \ {k} PROVE LeftOf(task[l])'
  BY DEF Leaving, OwnStep
<1>1. task'[l] = task[l] /\ LeftOf(task[l]) /\ ShapeOf(task[l])
  BY DEF OwnStep, OthersKept, Safe, Leaving, Shape
<1>2. Creates(task[k]) => task[l].tok # task[k].new
  BY DEF Safe, CreatedIsNew, NewTo
<1>. QED
  BY <1>1, <1>2 DEF LeftOf, ShapeOf, OwnStep, Writes, Creates

LEMMA OwnStepStored ==
    ASSUME TypeOK, TypeOK', Shape, Safe, NEW k \in Slot, OwnStep(k)
    PROVE  OutStored' /\ HeldIsStored'
<1>1. ASSUME NEW t \in Token, t \in gone \/ Stored(t)
      PROVE  t \in gone' \/ Stored(t)'
  BY <1>1 DEF OwnStep, Writes
<1>2. ASSUME NEW l \in Slot, NEW t \in task'[l].out
      PROVE  t \in gone' \/ Stored(t)'
  <2>1. t \in Token
    BY DEF TypeOK, TaskState
  <2>2. t \in task[l].out \/ Stored(t)'
    BY DEF OwnStep, OthersKept, Learns
  <2>. QED
    BY <1>1, <2>1, <2>2 DEF Safe, OutStored
<1>3. ASSUME NEW t \in held' \ gone'
      PROVE  Stored(t)'
  <2>1. t \in Token
    BY DEF TypeOK
  <2>2. t \in held => t \in gone \/ Stored(t)
    BY DEF Safe, HeldIsStored, Stored
  <2>3. t \notin held => t \in task[k].out \/ Stored(t)'
    BY DEF OwnStep, Learns
  <2>. QED
    BY <1>1, <2>1, <2>2, <2>3 DEF Safe, OutStored
<1>4. OutStored'
  BY <1>2 DEF OutStored
<1>5. HeldIsStored'
  BY <1>3 DEF HeldIsStored, Stored
<1>. QED
  BY <1>4, <1>5

LEMMA OwnStepSpent ==
    ASSUME TypeOK, TypeOK', Shape, Safe, NEW k \in Slot, OwnStep(k)
    PROVE  SpentStaysSpent'
<1>. SUFFICES ASSUME NEW t \in spent'
              PROVE  access'[t] = Nothing /\ refresh'[t] = Nothing
  BY DEF SpentStaysSpent
<1>1. t \in Token
  BY DEF TypeOK
<1>2. ASSUME t \in spent
      PROVE  access'[t] = Nothing /\ refresh'[t] = Nothing
  <2>1. access[t] = Nothing /\ refresh[t] = Nothing
    BY <1>2 DEF Safe, SpentStaysSpent
  <2>2. Creates(task[k]) => t # task[k].new
    BY <1>2 DEF Safe, CreatedIsNew, NewTo
  <2>. QED
    BY <1>1, <2>1, <2>2 DEF OwnStep, Writes, Creates
<1>. QED
  BY <1>2 DEF OwnStep, Spends

LEMMA OwnStepSafe ==
    ASSUME IInv, TypeOK', NEW k \in Slot, OwnStep(k)
    PROVE  IInv'
BY OwnStepShape, OwnStepUndrawn, OwnStepNew, OwnStepGranted, OwnStepRooted,
   OwnStepLeaving, OwnStepStored, OwnStepSpent DEF IInv, Safe

-----------------------------------------------------------------------------
(* Each action is an own step.                                             *)

Goal(k) == TypeOK' /\ OwnStep(k)

LEMMA IdleFacts ==
    /\ Idle \in TaskState /\ ~Creates(Idle) /\ ShapeOf(Idle) /\ LeftOf(Idle)
    /\ Idle.out = {} /\ Idle.tok = None
BY DEF Idle, TaskState, Creates, ShapeOf, LeftOf

LEMMA TypesOf == TypeOK => Types
BY DEF TypeOK, Types

LEMMA EndFacts ==
    ASSUME TypeOK, NEW k \in Slot, End(k)
    PROVE  /\ task' \in [Slot -> TaskState]
           /\ OthersKept(k) /\ task'[k] = Idle
           /\ ShapeOf(task[k])' /\ LeftOf(task[k])'
           /\ ~Creates(task'[k]) /\ task'[k].out = {} /\ task'[k].tok = None
<1>1. task'[k] = Idle /\ task' \in [Slot -> TaskState] /\ OthersKept(k)
  BY IdleFacts DEF End, TypeOK, OthersKept
<1>2. ShapeOf(task[k])' /\ LeftOf(task[k])'
  BY <1>1 DEF Idle, Creates, ShapeOf, LeftOf
<1>. QED
  BY <1>1, <1>2, IdleFacts

(* A step after which the request creates nothing.                         *)
LEMMA PlainStep ==
    ASSUME IInv, NEW k \in Slot, UNCHANGED <<scenario, clock, class, root>>,
           Types', OthersKept(k), ~Creates(task'[k]),
           ShapeOf(task[k])', LeftOf(task[k])',
           Learns(k), Writes(k), Spends(k), Grants(k)
    PROVE  Goal(k)
<1>1. Draws(k) /\ Roots
  BY DEF Draws, Roots
<1>2. TypeOK'
  BY <1>1, TypeStep DEF IInv
<1>. QED
  BY <1>1, <1>2 DEF Goal, OwnStep

(* A step that touches its request only.                                   *)
LEMMA QuietStep ==
    ASSUME IInv, NEW k \in Slot,
           UNCHANGED <<scenario, clock, stores, class, held, history>>,
           task' \in [Slot -> TaskState], OthersKept(k), ~Creates(task'[k]),
           task'[k].out \subseteq task[k].out,
           task'[k].tok \in {task[k].tok, None} \cup held,
           ShapeOf(task[k])', LeftOf(task[k])'
    PROVE  Goal(k)
<1>1. Types'
  BY TypesOf DEF IInv, Types, stores, history
<1>2. Writes(k) /\ Spends(k) /\ Grants(k)
  BY DEF stores, history, Writes, Spends, Grants, Stored
<1>3. Learns(k)
  BY DEF Learns, Has
<1>. QED
  BY <1>1, <1>2, <1>3, PlainStep DEF history

LEMMA QuietEnd ==
    ASSUME IInv, NEW k \in Slot, End(k),
           UNCHANGED <<scenario, clock, stores, class, held, history>>
    PROVE  Goal(k)
BY QuietStep, EndFacts DEF IInv

(* A request that presents what a response gave.                           *)
LEMMA PresentStep ==
    ASSUME IInv, NEW k \in Slot, NEW t \in held, NEW w \in TaskState,
           task' = [task EXCEPT ![k] = w],
           ~Creates(w), w.out = {}, w.tok = t, ShapeOf(w), LeftOf(w),
           UNCHANGED <<scenario, clock, stores, class, held, history>>
    PROVE  Goal(k)
<1>1. task' \in [Slot -> TaskState] /\ OthersKept(k) /\ task'[k] = w
  BY DEF IInv, TypeOK, OthersKept
<1>2. ShapeOf(task[k])' /\ LeftOf(task[k])'
  BY <1>1 DEF ShapeOf, LeftOf, stores, Creates
<1>. QED
  BY <1>1, <1>2, QuietStep

LEMMA RedeemGoal ==
    ASSUME IInv, NEW k \in Slot, NEW t \in Token, NEW ok \in BOOLEAN, Redeem(k, t, ok)
    PROVE  Goal(k)
<1>. DEFINE w == [Idle EXCEPT !.kind = "code", !.pc = "consume", !.tok = t, !.valid = ok]
<1>1. w \in TaskState /\ ~Creates(w) /\ w.out = {} /\ w.tok = t
  BY DEF Idle, TaskState, AllKinds, Creates
<1>2. t \in held /\ class[t] = "code"
  BY DEF Redeem, Presented
<1>3. ShapeOf(w) /\ LeftOf(w)
  BY <1>2 DEF Idle, ShapeOf, LeftOf, Creates
<1>. QED
  BY <1>1, <1>2, <1>3, PresentStep DEF Redeem

LEMMA UseRefreshGoal ==
    ASSUME IInv, NEW k \in Slot, NEW t \in Token, NEW narrow \in BOOLEAN,
           UseRefresh(k, t, narrow)
    PROVE  Goal(k)
<1>. DEFINE w == [Idle EXCEPT !.kind = "refresh", !.pc = "getRefresh", !.tok = t,
                              !.offline = ~narrow]
<1>1. w \in TaskState /\ ~Creates(w) /\ w.out = {} /\ w.tok = t
  BY DEF Idle, TaskState, AllKinds, Creates
<1>2. t \in held /\ class[t] = "refresh"
  BY DEF UseRefresh, Presented
<1>3. ShapeOf(w) /\ LeftOf(w)
  BY <1>2 DEF Idle, ShapeOf, LeftOf, Creates
<1>. QED
  BY <1>1, <1>2, <1>3, PresentStep DEF UseRefresh

LEMMA PresentGoal ==
    ASSUME IInv, NEW k \in Slot, NEW kind, NEW t \in Token, Present(k, kind, t)
    PROVE  Goal(k)
<1>. DEFINE w == [Idle EXCEPT !.kind = kind, !.pc = "getAccess", !.tok = t]
<1>1. kind \in {"userinfo", "introspect"} /\ t \in held
  BY DEF Present, Presented
<1>2. w \in TaskState /\ ~Creates(w) /\ w.out = {} /\ w.tok = t
  BY <1>1 DEF Idle, TaskState, AllKinds, Creates
<1>3. ShapeOf(w) /\ LeftOf(w)
  BY <1>1 DEF Idle, ShapeOf, LeftOf, Creates
<1>. QED
  BY <1>1, <1>2, <1>3, PresentStep DEF Present

LEMMA RevokeGoal ==
    ASSUME IInv, NEW k \in Slot, NEW t \in Token, Revoke(k, t)
    PROVE  Goal(k)
<1>. DEFINE w == [Idle EXCEPT !.kind = "revoke", !.pc = "revokeAccess", !.tok = t]
<1>1. t \in held
  BY DEF Revoke, Presented
<1>2. w \in TaskState /\ ~Creates(w) /\ w.out = {} /\ w.tok = t
  BY DEF Idle, TaskState, AllKinds, Creates
<1>3. ShapeOf(w) /\ LeftOf(w)
  BY DEF Idle, ShapeOf, LeftOf, Creates
<1>. QED
  BY <1>1, <1>2, <1>3, PresentStep DEF Revoke

(* A request that goes on to its next call and remembers nothing new.      *)
LEMMA PcStep ==
    ASSUME IInv, NEW k \in Slot,
           NEW p \in {"claims", "getAgain", "getRefresh"},
           task' = [task EXCEPT ![k].pc = p],
           task[k].kind \in {"userinfo", "introspect"},
           task[k].tok \in Token,
           UNCHANGED <<scenario, clock, stores, class, held, history>>
    PROVE  Goal(k)
<1>1. task[k] \in TaskState
  BY DEF IInv, TypeOK
<1>2. task' \in [Slot -> TaskState]
  BY <1>1 DEF IInv, TypeOK, TaskState
<1>3. /\ OthersKept(k)
      /\ task'[k].pc = p /\ task'[k].kind = task[k].kind
      /\ task'[k].tok = task[k].tok /\ task'[k].out = task[k].out
  BY <1>1 DEF IInv, TypeOK, TaskState, OthersKept
<1>4. ~Creates(task'[k]) /\ ShapeOf(task[k])' /\ LeftOf(task[k])'
  BY <1>3 DEF Creates, ShapeOf, LeftOf
<1>. QED
  BY <1>2, <1>3, <1>4, QuietStep

-----------------------------------------------------------------------------
(* Calls that write to a store.                                            *)

StoresTyped ==
    /\ codes \in [Token -> Data \cup {Nothing}]
    /\ access \in [Token -> Data \cup {Nothing}]
    /\ refresh \in [Token -> Data \cup {Nothing}]

LEMMA Created ==
    ASSUME IInv, NEW k \in Slot, Creates(task[k])
    PROVE  /\ task[k].new \in Token /\ task[k].data \in Data /\ Nothing \notin Data
           /\ task[k].data # Nothing /\ StoresTyped
BY BoundsAssumption DEF IInv, Shape, ShapeOf, TypeOK, StoresTyped

LEMMA SetCode ==
    ASSUME IInv, NEW k \in Slot, task[k].pc = "setCode", gone \subseteq gone',
           NEW n, n = task[k].new, codes' = [codes EXCEPT ![n] = task[k].data],
           UNCHANGED <<access, refresh>>
    PROVE  Writes(k) /\ Stored(n)' /\ StoresTyped'
<1>1. Creates(task[k])
  BY DEF Creates
<1>2. codes'[n] # Nothing /\ StoresTyped'
  BY <1>1, Created DEF StoresTyped
<1>3. \A t \in Token : t # n => codes'[t] = codes[t]
  BY <1>1, Created DEF StoresTyped
<1>. QED
  BY <1>2, <1>3 DEF Writes, Stored

LEMMA SetAccess ==
    ASSUME IInv, NEW k \in Slot, task[k].pc = "setAccess", gone \subseteq gone',
           NEW n, n = task[k].new, access' = [access EXCEPT ![n] = task[k].data],
           UNCHANGED <<codes, refresh>>
    PROVE  Writes(k) /\ Stored(n)' /\ StoresTyped'
<1>1. Creates(task[k])
  BY DEF Creates
<1>2. access'[n] # Nothing /\ StoresTyped'
  BY <1>1, Created DEF StoresTyped
<1>3. \A t \in Token : t # n => access'[t] = access[t]
  BY <1>1, Created DEF StoresTyped
<1>. QED
  BY <1>2, <1>3 DEF Writes, Stored

LEMMA SetRefresh ==
    ASSUME IInv, NEW k \in Slot, task[k].pc = "setRefresh", gone \subseteq gone',
           NEW n, n = task[k].new, refresh' = [refresh EXCEPT ![n] = task[k].data],
           UNCHANGED <<codes, access>>
    PROVE  Writes(k) /\ Stored(n)' /\ StoresTyped'
<1>1. Creates(task[k])
  BY DEF Creates
<1>2. refresh'[n] # Nothing /\ StoresTyped'
  BY <1>1, Created DEF StoresTyped
<1>3. \A t \in Token : t # n => refresh'[t] = refresh[t]
  BY <1>1, Created DEF StoresTyped
<1>. QED
  BY <1>2, <1>3 DEF Writes, Stored

(* A deletion from one of the stores.                                      *)
LEMMA Taken ==
    ASSUME IInv, NEW k \in Slot, NEW n \in Token,
           \/ codes' = [codes EXCEPT ![n] = Nothing] /\ UNCHANGED <<access, refresh>>
           \/ access' = [access EXCEPT ![n] = Nothing] /\ UNCHANGED <<codes, refresh>>
           \/ refresh' = [refresh EXCEPT ![n] = Nothing] /\ UNCHANGED <<codes, access>>,
           \/ gone' = gone \cup {n}
           \/ gone' = gone /\ UNCHANGED stores
    PROVE  Writes(k) /\ StoresTyped'
<1>1. StoresTyped
  BY DEF IInv, TypeOK, StoresTyped
<1>2. StoresTyped'
  BY <1>1 DEF StoresTyped
<1>3. ASSUME NEW t \in Token
      PROVE  /\ codes'[t] \in {codes[t], Nothing}
             /\ access'[t] \in {access[t], Nothing}
             /\ refresh'[t] \in {refresh[t], Nothing}
             /\ t # n => Stored(t)' = Stored(t)
             /\ UNCHANGED stores => Stored(t)' = Stored(t)
  BY <1>1 DEF StoresTyped, Stored, stores
<1>. QED
  BY <1>2, <1>3 DEF Writes

LEMMA TypesNow ==
    ASSUME StoresTyped', class' \in [Token -> Class \cup {"none"}],
           task' \in [Slot -> TaskState],
           held' \subseteq Token, gone' \subseteq Token, spent' \subseteq Token,
           kept' \subseteq Token,
           grants' \in [Token -> 0 .. 2], root' \in [Token -> Token \cup {None}]
    PROVE  Types'
BY DEF StoresTyped, Types

(* What TypeOK says of what most steps leave alone.                        *)
LEMMA TypesKept ==
    ASSUME IInv
    PROVE  /\ StoresTyped /\ class \in [Token -> Class \cup {"none"}]
           /\ task \in [Slot -> TaskState]
           /\ held \subseteq Token /\ gone \subseteq Token
           /\ spent \subseteq Token /\ kept \subseteq Token
           /\ grants \in [Token -> 0 .. 2]
           /\ root \in [Token -> Token \cup {None}]
           /\ clock \in Nat
<1>1. clock \in Nat
  BY DEF IInv, TypeOK
<1>. QED
  BY <1>1 DEF IInv, TypeOK, StoresTyped

(* A step that ends a request.                                             *)
LEMMA EndStep ==
    ASSUME IInv, NEW k \in Slot, End(k), UNCHANGED <<scenario, clock, class, root>>,
           StoresTyped', gone' \subseteq Token, spent' \subseteq Token,
           kept' \subseteq Token, grants' \in [Token -> 0 .. 2],
           held \subseteq held', held' \subseteq held \cup Has(task[k]),
           \A t \in held' \ held : t \in task[k].out \/ Stored(t)',
           Writes(k), Spends(k), Grants(k)
    PROVE  Goal(k)
<1>1. Has(task[k]) \subseteq Token
  <2>1. task[k].out \subseteq Token
    BY TypesKept DEF TaskState
  <2>2. Creates(task[k]) => task[k].new \in Token
    BY DEF IInv, Shape, ShapeOf
  <2>. QED
    BY <2>1, <2>2 DEF Has
<1>2. held' \subseteq Token
  BY <1>1, TypesKept
<1>3. TypeOK
  BY DEF IInv
<1>4. Types'
  BY <1>2, <1>3, EndFacts, TypesKept, TypesNow
<1>5. Learns(k)
  BY <1>3, EndFacts DEF Learns
<1>. QED
  BY <1>3, <1>4, <1>5, EndFacts, PlainStep

(* A step that draws a string for the request's next store call.           *)
LEMMA DrawStep ==
    ASSUME IInv, NEW k \in Slot, NEW w \in TaskState, NEW t \in Token, NEW c \in Class,
           Draw(t, c), task' = [task EXCEPT ![k] = w], w.new = t, w.data \in Data,
           \/ c = "code" /\ w.pc = "setCode"
           \/ c = "access" /\ w.pc = "setAccess"
           \/ c = "refresh" /\ w.pc = "setRefresh" /\ w.kind \in {"code", "refresh"},
           w.kind \in {"code", "refresh"} => w.root \in Token,
           w.kind = "refresh" =>
             /\ w.tok \in Token /\ class[w.tok] = "refresh"
             /\ w.client \in Rotating => refresh'[w.tok] = Nothing,
           w.tok \in {task[k].tok, None},
           \A x \in w.out :
             x \in task[k].out \/ (Creates(task[k]) /\ x = task[k].new /\ Stored(x)'),
           UNCHANGED <<scenario, clock, held, spent, kept>>,
           root' = IF c = "refresh" THEN [root EXCEPT ![t] = w.root] ELSE root,
           StoresTyped', gone' \subseteq Token, grants' \in [Token -> 0 .. 2],
           Writes(k), Grants(k)
    PROVE  Goal(k)
<1>1. task' \in [Slot -> TaskState] /\ OthersKept(k) /\ task'[k] = w
  BY TypesKept DEF OthersKept
<1>2. /\ class[t] = "none" /\ class'[t] = c
      /\ \A x \in Token : x # t => class'[x] = class[x]
      /\ class' \in [Token -> Class \cup {"none"}]
  BY TypesKept DEF Draw
<1>3. Creates(w) /\ Creates(task[k])' /\ Draws(k)
  BY <1>1, <1>2 DEF Creates, Draws
<1>4. c # "none" /\ root[t] \notin Token
  BY <1>2 DEF IInv, Safe, Rooted, Class
<1>5. root' \in [Token -> Token \cup {None}] /\ Roots
  BY <1>2, <1>4, TypesKept DEF Roots
<1>6. Types'
  BY <1>1, <1>2, <1>5, TypesKept, TypesNow
<1>7. ShapeOf(task[k])'
  BY <1>1, <1>2, <1>3 DEF ShapeOf, Creates, Class
<1>8. LeftOf(task[k])'
  BY <1>1, <1>3 DEF LeftOf, Creates
<1>9. Learns(k)
  BY <1>1 DEF Learns, Has
<1>10. Spends(k)
  BY DEF Spends
<1>11. TypeOK'
  BY <1>3, <1>6, TypeStep DEF IInv
<1>. QED
  BY <1>1, <1>3, <1>5, <1>7, <1>8, <1>9, <1>10, <1>11 DEF Goal, OwnStep

-----------------------------------------------------------------------------
(* The actions that write or draw.                                         *)

LEMMA WritesNothing ==
    ASSUME NEW k \in Slot, UNCHANGED stores, gone \subseteq gone'
    PROVE  Writes(k) /\ (StoresTyped => StoresTyped')
BY DEF Writes, Stored, StoresTyped, stores

LEMMA Expiry == clock \in Nat => /\ clock + TtlCode \in Nat
                                 /\ clock + TtlAccess \in Nat
                                 /\ \A n \in Nat : n + TtlRefresh \in Nat
BY BoundsAssumption

LEMMA AuthorizeGoal ==
    ASSUME IInv, NEW k \in Slot, NEW kind, NEW c \in Client, NEW off \in Scopes,
           NEW t \in Token, Authorize(k, kind, c, off, t)
    PROVE  Goal(k)
<1>. DEFINE d == [client |-> c, offline |-> off, exp |-> clock + TtlCode]
            w == [Idle EXCEPT !.kind = kind, !.pc = "setCode", !.client = c,
                              !.offline = off, !.new = t, !.data = d]
<1>1. off \in BOOLEAN
  BY BoundsAssumption DEF IInv, TypeOK, Scopes, Range
<1>2. d \in Data
  BY <1>1, Expiry, TypesKept DEF Data
<1>3. kind \in {"authorize", "hybrid"}
  BY DEF Authorize
<1>4. w \in TaskState
  BY <1>1, <1>2, <1>3 DEF Idle, TaskState, AllKinds
<1>5. w.new = t /\ w.pc = "setCode" /\ w.data = d /\ w.kind = kind
      /\ w.tok = None /\ w.out = {}
  BY DEF Idle
<1>6. /\ Draw(t, "code") /\ task' = [task EXCEPT ![k] = w]
      /\ UNCHANGED <<scenario, clock, stores, held, history>>
  BY DEF Authorize
<1>7. Writes(k) /\ Grants(k) /\ StoresTyped'
  BY <1>6, WritesNothing, TypesKept DEF Grants, history
<1>. HIDE DEF w, d
<1>. QED
  BY <1>2, <1>3, <1>4, <1>5, <1>6, <1>7, DrawStep, TypesKept DEF history, Class

LEMMA AskAccessGoal ==
    ASSUME IInv, NEW k \in Slot, NEW kind, NEW c \in Client, NEW t \in Token,
           AskAccess(k, kind, c, t)
    PROVE  Goal(k)
<1>. DEFINE d == [client |-> c, offline |-> FALSE, exp |-> clock + TtlAccess]
            w == [Idle EXCEPT !.kind = kind, !.pc = "setAccess", !.client = c,
                              !.new = t, !.data = d]
<1>1. d \in Data
  BY Expiry, TypesKept DEF Data
<1>2. kind \in {"implicit", "credentials"}
  BY DEF AskAccess
<1>3. w \in TaskState
  BY <1>1, <1>2 DEF Idle, TaskState, AllKinds
<1>4. w.new = t /\ w.pc = "setAccess" /\ w.data = d /\ w.kind = kind
      /\ w.tok = None /\ w.out = {}
  BY DEF Idle
<1>5. /\ Draw(t, "access") /\ task' = [task EXCEPT ![k] = w]
      /\ UNCHANGED <<scenario, clock, stores, held, history>>
  BY DEF AskAccess
<1>6. Writes(k) /\ Grants(k) /\ StoresTyped'
  BY <1>5, WritesNothing, TypesKept DEF Grants, history
<1>. HIDE DEF w, d
<1>. QED
  BY <1>1, <1>2, <1>3, <1>4, <1>5, <1>6, DrawStep, TypesKept DEF history, Class

LEMMA CodeStoredGoal ==
    ASSUME IInv, NEW k \in Slot, CodeStored(k)
    PROVE  Goal(k)
<1>. DEFINE v == task[k]
<1>1. v \in TaskState /\ v.pc = "setCode" /\ Creates(v)
  BY TypesKept DEF CodeStored, Creates
<1>2. PICK n \in Token : n = v.new
  BY <1>1, Created
<1>3. gone' = gone /\ UNCHANGED <<scenario, clock, access, refresh, history>>
  BY DEF CodeStored, history
<1>4. Writes(k) /\ Stored(n)' /\ StoresTyped'
  BY <1>1, <1>2, <1>3, SetCode DEF CodeStored
<1>5. Spends(k) /\ Grants(k)
  BY <1>3 DEF Spends, Grants, history
<1>6. CASE v.kind = "authorize"
  <2>1. Respond(k, {n}) /\ class' = class
    BY <1>2, <1>6 DEF CodeStored
  <2>2. n \in Has(v)
    BY <1>1, <1>2 DEF Has
  <2>. QED
    BY <1>3, <1>4, <1>5, <2>1, <2>2, EndStep, TypesKept DEF Respond, history
<1>7. CASE v.kind # "authorize"
  <2>1. PICK t \in Token :
          /\ Draw(t, "access")
          /\ task' = [task EXCEPT ![k] = [v EXCEPT
               !.pc = "setAccess", !.new = t, !.out = {v.new},
               !.data.exp = clock + TtlAccess]]
    BY <1>7 DEF CodeStored
  <2>2. v.kind = "hybrid" /\ held' = held
    BY <1>7 DEF CodeStored
  <2>. DEFINE d == [v.data EXCEPT !.exp = clock + TtlAccess]
              w == [v EXCEPT !.pc = "setAccess", !.new = t, !.out = {v.new},
                             !.data = d]
  <2>3. d \in Data
    BY <1>1, Created, Expiry, TypesKept DEF Data
  <2>4. w \in TaskState
    BY <1>1, <1>2, <2>3 DEF TaskState
  <2>5. w.new = t /\ w.pc = "setAccess" /\ w.data = d /\ w.kind = "hybrid"
        /\ w.tok = v.tok /\ w.out = {n}
    BY <1>1, <1>2, <2>2 DEF TaskState
  <2>6. task' = [task EXCEPT ![k] = w]
    BY <2>1
  <2>7. \A x \in w.out : Creates(v) /\ x = v.new /\ Stored(x)'
    BY <1>1, <1>2, <1>4, <2>5
  <2>8. w.tok \in {task[k].tok, None}
    BY <2>5
  <2>. HIDE DEF w, d
  <2>9. /\ w.kind \notin {"code", "refresh"}
        /\ UNCHANGED <<spent, kept>> /\ gone' \subseteq Token
        /\ grants' \in [Token -> 0 .. 2] /\ root' = root
    BY <1>3, <2>5, TypesKept DEF history
  <2>. QED
    BY <1>3, <1>4, <1>5, <2>1, <2>2, <2>3, <2>4, <2>5, <2>6, <2>7, <2>8, <2>9,
       DrawStep DEF Class
<1>. QED
  BY <1>6, <1>7

LEMMA AccessStoredGoal ==
    ASSUME IInv, NEW k \in Slot, AccessStored(k)
    PROVE  Goal(k)
<1>. DEFINE v == task[k]
<1>1. v \in TaskState /\ v.pc = "setAccess" /\ Creates(v)
  BY TypesKept DEF AccessStored, Creates
<1>2. PICK n \in Token : n = v.new
  BY <1>1, Created
<1>3. gone' = gone /\ UNCHANGED <<scenario, clock, codes, refresh, class, history>>
  BY DEF AccessStored, history
<1>4. Writes(k) /\ Stored(n)' /\ StoresTyped'
  BY <1>1, <1>2, <1>3, SetAccess DEF AccessStored
<1>5. Spends(k) /\ Grants(k)
  BY <1>3 DEF Spends, Grants, history
<1>6. n \in Has(v)
  BY <1>1, <1>2 DEF Has
<1>7. CASE v.kind \notin {"code", "refresh"}
  <2>1. Respond(k, v.out \cup {n})
    BY <1>2, <1>7 DEF AccessStored
  <2>2. v.out \subseteq Has(v)
    BY DEF Has
  <2>. QED
    BY <1>3, <1>4, <1>5, <1>6, <2>1, <2>2, EndStep, TypesKept DEF Respond, history
<1>8. CASE v.kind \in {"code", "refresh"}
  <2>1. /\ task' = [task EXCEPT ![k].pc = "session", ![k].out = @ \cup {v.new}]
        /\ held' = held
    BY <1>8 DEF AccessStored
  <2>. DEFINE w == [v EXCEPT !.pc = "session", !.out = @ \cup {n}]
  <2>2. task' = [task EXCEPT ![k] = w] /\ w \in TaskState
    BY <1>1, <1>2, <2>1, TypesKept DEF TaskState
  <2>3. task' \in [Slot -> TaskState] /\ OthersKept(k) /\ task'[k] = w
    BY <2>2, TypesKept DEF OthersKept
  <2>4. /\ w.pc = "session" /\ w.data = v.data /\ w.kind = v.kind /\ w.tok = v.tok
        /\ w.root = v.root /\ w.client = v.client /\ w.out = v.out \cup {n}
    BY <1>1 DEF TaskState
  <2>5. ShapeOf(v) /\ LeftOf(v)
    BY DEF IInv, Shape, Safe, Leaving
  <2>6. ShapeOf(task[k])'
    BY <1>1, <1>3, <1>8, <2>3, <2>4, <2>5 DEF ShapeOf, Creates
  <2>7. LeftOf(task[k])' /\ ~Creates(task'[k])
    BY <1>1, <1>3, <1>8, <2>3, <2>4, <2>5 DEF LeftOf, Creates
  <2>8. Learns(k)
    BY <1>4, <1>6, <2>1, <2>3, <2>4 DEF Learns, Has
  <2>9. Types'
    BY <1>3, <1>4, <2>1, <2>3, TypesKept, TypesNow DEF history
  <2>. QED
    BY <1>3, <1>4, <1>5, <2>3, <2>6, <2>7, <2>8, <2>9, PlainStep DEF history
<1>. QED
  BY <1>7, <1>8

(* A request that is about to answer a rotation has revoked the token.     *)
LEMMA AnswerFacts ==
    ASSUME IInv, NEW k \in Slot, task[k].pc \in {"session", "setRefresh"},
           NEW tokens, AnswerGrant(k, tokens), access' = access,
           \/ refresh' = refresh
           \/ task[k].pc = "setRefresh"
              /\ refresh' = [refresh EXCEPT ![task[k].new] = task[k].data]
    PROVE  Spends(k) /\ spent' \subseteq Token
<1>. DEFINE v == task[k]
<1>1. CASE v.kind = "refresh" /\ v.client \in Rotating
  <2>1. v.tok \in Token /\ class[v.tok] = "refresh" /\ refresh[v.tok] = Nothing
    BY <1>1 DEF IInv, Shape, ShapeOf, Safe, Leaving, LeftOf
  <2>2. access[v.tok] = Nothing
    BY <2>1 DEF IInv, TypeOK
  <2>3. v.pc = "setRefresh" => v.new # v.tok
    BY DEF IInv, Safe, CreatedIsNew, NewTo, Creates
  <2>4. refresh'[v.tok] = Nothing
    BY <2>1, <2>3, TypesKept DEF StoresTyped
  <2>. QED
    BY <1>1, <2>1, <2>2, <2>4, TypesKept DEF AnswerGrant, Spends
<1>2. CASE ~(v.kind = "refresh" /\ v.client \in Rotating)
  BY <1>2, TypesKept DEF AnswerGrant, Spends
<1>. QED
  BY <1>1, <1>2

LEMMA SessionReadGoal ==
    ASSUME IInv, NEW k \in Slot, SessionRead(k)
    PROVE  Goal(k)
<1>1. /\ task[k].pc = "session" /\ AnswerGrant(k, task[k].out)
      /\ UNCHANGED <<scenario, clock, stores, class, gone, grants, root, kept>>
  BY DEF SessionRead
<1>2. Spends(k) /\ spent' \subseteq Token
  BY <1>1, AnswerFacts DEF stores
<1>3. Writes(k) /\ StoresTyped' /\ Grants(k)
  BY <1>1, WritesNothing, TypesKept DEF Grants
<1>4. End(k) /\ held' = held \cup task[k].out
  BY <1>1 DEF AnswerGrant, Respond
<1>5. task[k].out \subseteq Has(task[k])
  BY DEF Has
<1>. QED
  BY <1>1, <1>2, <1>3, <1>4, <1>5, EndStep, TypesKept

LEMMA OfflineAskedGoal ==
    ASSUME IInv, NEW k \in Slot, NEW t \in Token, OfflineAsked(k, t)
    PROVE  Goal(k)
<1>. DEFINE v == task[k]
            d == [v.data EXCEPT !.exp = v.now + TtlRefresh]
            w == [v EXCEPT !.pc = "setRefresh", !.new = t, !.data = d]
<1>1. /\ v.pc = "session" /\ Draw(t, "refresh") /\ task' = [task EXCEPT ![k] = w]
      /\ root' = [root EXCEPT ![t] = v.root]
      /\ UNCHANGED <<scenario, clock, stores, held, gone, spent, grants, kept>>
  BY DEF OfflineAsked
<1>2. v \in TaskState /\ ShapeOf(v) /\ LeftOf(v)
  BY TypesKept DEF IInv, Shape, Safe, Leaving
<1>3. d \in Data
  BY <1>1, <1>2, Expiry, TypesKept DEF Data, ShapeOf, TaskState
<1>4. w \in TaskState
  BY <1>2, <1>3 DEF TaskState
<1>5. /\ w.new = t /\ w.pc = "setRefresh" /\ w.data = d /\ w.kind = v.kind
      /\ w.tok = v.tok /\ w.out = v.out /\ w.root = v.root /\ w.client = v.client
  BY <1>2 DEF TaskState
<1>6. Writes(k) /\ StoresTyped' /\ Grants(k)
  BY <1>1, WritesNothing, TypesKept DEF Grants
<1>7. /\ v.kind \in {"code", "refresh"} /\ v.root \in Token
      /\ v.kind = "refresh" =>
           /\ v.tok \in Token /\ class[v.tok] = "refresh"
           /\ v.client \in Rotating => refresh'[v.tok] = Nothing
  BY <1>1, <1>2 DEF ShapeOf, LeftOf, stores
<1>. HIDE DEF w, d
<1>. QED
  BY <1>1, <1>3, <1>4, <1>5, <1>6, <1>7, DrawStep, TypesKept DEF Class

LEMMA RefreshStoredGoal ==
    ASSUME IInv, NEW k \in Slot, RefreshStored(k)
    PROVE  Goal(k)
<1>. DEFINE v == task[k]
<1>1. /\ v.pc = "setRefresh" /\ Creates(v)
      /\ refresh' = [refresh EXCEPT ![v.new] = v.data]
      /\ AnswerGrant(k, v.out \cup {v.new})
      /\ kept' = kept \cup {v.root}
      /\ UNCHANGED <<scenario, clock, codes, access, class, gone, grants, root>>
  BY DEF RefreshStored, Creates
<1>2. PICK n \in Token : n = v.new
  BY <1>1, Created
<1>3. Writes(k) /\ Stored(n)' /\ StoresTyped'
  BY <1>1, <1>2, SetRefresh
<1>4. Spends(k) /\ spent' \subseteq Token
  BY <1>1, AnswerFacts
<1>5. Grants(k) /\ kept' \subseteq Token
  BY <1>1, TypesKept DEF Grants, IInv, Shape, ShapeOf
<1>6. End(k) /\ held' = held \cup v.out \cup {n}
  BY <1>1, <1>2 DEF AnswerGrant, Respond
<1>7. v.out \cup {n} \subseteq Has(v)
  BY <1>1, <1>2 DEF Has
<1>. QED
  BY <1>1, <1>3, <1>4, <1>5, <1>6, <1>7, EndStep, TypesKept

-----------------------------------------------------------------------------
(* The actions that take out, and those that read.                         *)

LEMMA MoreTyped == \A n \in 0 .. 2 : More(n) \in 0 .. 2
BY DEF More

(* generateTokens, called by a grant.                                      *)
LEMMA GenerateStep ==
    ASSUME IInv, NEW k \in Slot, NEW c \in Client, NEW off \in BOOLEAN,
           NEW r \in Token, Generate(k, c, off, r),
           task[k].kind = "refresh" =>
             /\ task[k].tok \in Token /\ class[task[k].tok] = "refresh"
             /\ c \in Rotating => refresh'[task[k].tok] = Nothing,
           UNCHANGED <<scenario, clock, held, spent, kept, root>>,
           StoresTyped', gone' \subseteq Token, grants' \in [Token -> 0 .. 2],
           Writes(k), Grants(k)
    PROVE  Goal(k)
<1>. DEFINE v == task[k]
            d == [client |-> c, offline |-> off, exp |-> clock + TtlAccess]
<1>1. PICK t \in Token :
        /\ Draw(t, "access")
        /\ task' = [task EXCEPT ![k] = [@ EXCEPT
             !.pc = "setAccess", !.client = c, !.offline = off, !.now = clock,
             !.new = t, !.root = r, !.data = d]]
  BY DEF Generate
<1>. DEFINE w == [v EXCEPT !.pc = "setAccess", !.client = c, !.offline = off,
                    !.now = clock, !.new = t, !.root = r, !.data = d]
<1>2. task' = [task EXCEPT ![k] = w]
  BY <1>1
<1>3. v \in TaskState
  BY TypesKept
<1>4. d \in Data
  BY Expiry, TypesKept DEF Data
<1>5. w \in TaskState
  BY <1>3, <1>4, TypesKept DEF TaskState
<1>6. /\ w.new = t /\ w.pc = "setAccess" /\ w.data = d /\ w.kind = v.kind
      /\ w.tok = v.tok /\ w.out = v.out /\ w.root = r /\ w.client = c
  BY <1>3 DEF TaskState
<1>. HIDE DEF w, d
<1>. QED
  BY <1>1, <1>2, <1>4, <1>5, <1>6, DrawStep DEF Class

LEMMA ConsumedGoal ==
    ASSUME IInv, NEW k \in Slot, Consumed(k)
    PROVE  Goal(k)
<1>. DEFINE v == task[k]
<1>1. v.pc = "consume" /\ v.tok \in Token /\ v.kind = "code" /\ class[v.tok] = "code"
  BY DEF Consumed, IInv, Shape, ShapeOf
<1>2. PICK n \in Token : n = v.tok
  BY <1>1
<1>3. /\ codes[n] # Nothing /\ codes' = [codes EXCEPT ![n] = Nothing]
      /\ gone' = gone \cup {n}
      /\ UNCHANGED <<scenario, clock, access, refresh, held, spent, root, kept>>
  BY <1>2 DEF Consumed
<1>4. Writes(k) /\ StoresTyped' /\ gone' \subseteq Token
  BY <1>3, Taken, TypesKept
<1>5. codes[n] \in Data /\ codes'[n] = Nothing
  BY <1>3, TypesKept DEF StoresTyped
<1>6. CASE Grantable(v)
  <2>1. /\ Generate(k, codes[n].client, codes[n].offline, n)
        /\ grants' = [grants EXCEPT ![n] = More(grants[n])]
    BY <1>2, <1>6 DEF Consumed
  <2>2. codes[n].client \in Client /\ codes[n].offline \in BOOLEAN
    BY <1>5 DEF Data
  <2>3. grants' \in [Token -> 0 .. 2]
    BY <2>1, MoreTyped, TypesKept
  <2>4. Grants(k)
    BY <1>1, <1>2, <1>3, <1>5, <2>1, TypesKept DEF Grants
  <2>. QED
    BY <1>1, <1>2, <1>3, <1>4, <2>1, <2>2, <2>3, <2>4, GenerateStep
<1>7. CASE ~Grantable(v)
  <2>1. End(k) /\ UNCHANGED <<class, grants>>
    BY <1>7 DEF Consumed
  <2>2. Spends(k) /\ Grants(k)
    BY <1>3, <2>1 DEF Spends, Grants
  <2>. QED
    BY <1>3, <1>4, <2>1, <2>2, EndStep, TypesKept
<1>. QED
  BY <1>6, <1>7

LEMMA RefreshReadGoal ==
    ASSUME IInv, NEW k \in Slot, task[k].kind = "refresh", RefreshRead(k)
    PROVE  Goal(k)
<1>. DEFINE v == task[k]
<1>1. v \in TaskState /\ v.tok \in Token /\ class[v.tok] = "refresh"
  BY TypesKept DEF IInv, Shape, ShapeOf
<1>2. PICK n \in Token : n = v.tok
  BY <1>1
<1>. DEFINE d == refresh[n]
<1>3. /\ Valid(d)
      /\ grants' = [grants EXCEPT ![n] = More(grants[n])]
      /\ UNCHANGED <<scenario, clock, stores, held, gone, spent, root, kept>>
  BY <1>2 DEF RefreshRead
<1>4. d \in Data /\ d.client \in Client /\ NewScope(v, d) \in BOOLEAN
  BY <1>1, <1>3, TypesKept DEF Valid, StoresTyped, Data, NewScope, TaskState
<1>5. root[n] \in Token
  BY <1>1, <1>2 DEF IInv, Safe, Rooted
<1>6. Writes(k) /\ StoresTyped'
  BY <1>3, WritesNothing, TypesKept
<1>7. Grants(k) /\ grants' \in [Token -> 0 .. 2]
  BY <1>1, <1>2, <1>3, MoreTyped, TypesKept DEF Grants
<1>8. CASE d.client \in Rotating
  <2>. DEFINE w == [v EXCEPT !.pc = "rotate", !.client = d.client,
                             !.root = root[n], !.offline = NewScope(v, d)]
  <2>1. task' = [task EXCEPT ![k] = w] /\ class' = class
    BY <1>2, <1>8 DEF RefreshRead
  <2>2. w \in TaskState
    BY <1>1, <1>4, <1>5 DEF TaskState
  <2>3. /\ w.pc = "rotate" /\ w.kind = "refresh" /\ w.tok = n /\ w.out = v.out
        /\ w.client \in Client /\ w.root \in Token
    BY <1>1, <1>2, <1>4, <1>5 DEF TaskState
  <2>. HIDE DEF w
  <2>4. task' \in [Slot -> TaskState] /\ OthersKept(k) /\ task'[k] = w
    BY <2>1, <2>2, TypesKept DEF OthersKept
  <2>5. ~Creates(task'[k]) /\ ShapeOf(task[k])' /\ LeftOf(task[k])'
    BY <1>1, <1>2, <2>1, <2>3, <2>4 DEF Creates, ShapeOf, LeftOf
  <2>6. Learns(k) /\ Spends(k)
    BY <1>2, <1>3, <2>3, <2>4 DEF Learns, Has, Spends
  <2>7. Types'
    BY <1>3, <1>6, <1>7, <2>1, <2>4, TypesKept, TypesNow
  <2>. QED
    BY <1>3, <1>6, <1>7, <2>1, <2>4, <2>5, <2>6, <2>7, PlainStep
<1>9. CASE d.client \notin Rotating
  <2>1. Generate(k, d.client, NewScope(v, d), root[n])
    BY <1>2, <1>9 DEF RefreshRead
  <2>. HIDE DEF d
  <2>. QED
    BY <1>1, <1>3, <1>4, <1>5, <1>6, <1>7, <1>9, <2>1, GenerateStep, TypesKept
<1>. QED
  BY <1>8, <1>9

LEMMA RotatedGoal ==
    ASSUME IInv, NEW k \in Slot, Rotated(k)
    PROVE  Goal(k)
<1>. DEFINE v == task[k]
<1>1. /\ v \in TaskState /\ v.pc = "rotate" /\ v.kind = "refresh"
      /\ v.tok \in Token /\ class[v.tok] = "refresh"
      /\ v.root \in Token /\ v.client \in Client
  BY TypesKept DEF Rotated, IInv, Shape, ShapeOf
<1>2. PICK n \in Token : n = v.tok
  BY <1>1
<1>3. /\ refresh' = [refresh EXCEPT ![n] = Nothing]
      /\ gone' = gone \cup {n}
      /\ Generate(k, v.client, v.offline, v.root)
      /\ UNCHANGED <<scenario, clock, codes, access, held, spent, grants, root, kept>>
  BY <1>2 DEF Rotated
<1>4. Writes(k) /\ StoresTyped' /\ gone' \subseteq Token
  BY <1>3, Taken, TypesKept
<1>5. refresh'[n] = Nothing
  BY <1>3, TypesKept DEF StoresTyped
<1>6. Grants(k) /\ v.offline \in BOOLEAN
  BY <1>1, <1>3 DEF Grants, TaskState
<1>. QED
  BY <1>1, <1>2, <1>3, <1>4, <1>5, <1>6, GenerateStep, TypesKept

LEMMA UserInfoGoal ==
    ASSUME IInv, NEW k \in Slot, UserInfoProceeds(k)
    PROVE  Goal(k)
<1>. DEFINE v == task[k]
<1>1. ShapeOf(v) /\ v.kind \in {"userinfo", "introspect"}
  BY DEF IInv, Shape, UserInfoProceeds
<1>2. UNCHANGED <<scenario, clock, stores, class, held, history>>
  BY DEF UserInfoProceeds
<1>3. CASE v.pc = "getAccess" /\ task' = [task EXCEPT ![k].pc = "claims"]
  BY <1>1, <1>2, <1>3, PcStep DEF ShapeOf
<1>4. CASE v.pc = "claims" /\ task' = [task EXCEPT ![k].pc = "getAgain"]
  BY <1>1, <1>2, <1>4, PcStep DEF ShapeOf
<1>5. CASE End(k)
  BY <1>2, <1>5, QuietEnd
<1>. QED
  BY <1>3, <1>4, <1>5 DEF UserInfoProceeds

LEMMA IntrospectGoal ==
    ASSUME IInv, NEW k \in Slot, Introspect(k)
    PROVE  Goal(k)
<1>. DEFINE v == task[k]
<1>1. ShapeOf(v) /\ v.kind \in {"userinfo", "introspect"}
  BY DEF IInv, Shape, Introspect
<1>2. UNCHANGED <<scenario, clock, stores, class, held, history>>
  BY DEF Introspect
<1>3. CASE v.pc = "getAccess" /\ task' = [task EXCEPT ![k].pc = "getRefresh"]
  BY <1>1, <1>2, <1>3, PcStep DEF ShapeOf
<1>4. CASE End(k)
  BY <1>2, <1>4, QuietEnd
<1>. QED
  BY <1>3, <1>4 DEF Introspect

LEMMA RefusedGoal ==
    ASSUME IInv, NEW k \in Slot,
           CodeNotFound(k) \/ RefreshRefused(k) \/ UserInfoRefused(k)
    PROVE  Goal(k)
BY QuietEnd DEF CodeNotFound, RefreshRefused, UserInfoRefused

LEMMA AccessRevokedGoal ==
    ASSUME IInv, NEW k \in Slot, AccessRevoked(k)
    PROVE  Goal(k)
<1>. DEFINE v == task[k]
            w == [v EXCEPT !.pc = "revokeRefresh"]
<1>1. v \in TaskState /\ ShapeOf(v) /\ v.pc = "revokeAccess" /\ v.tok \in Token
  BY TypesKept DEF AccessRevoked, IInv, Shape, ShapeOf
<1>2. PICK n \in Token : n = v.tok
  BY <1>1
<1>3. /\ access' = [access EXCEPT ![n] = Nothing]
      /\ gone' = IF access[n] # Nothing THEN gone \cup {n} ELSE gone
      /\ task' = [task EXCEPT ![k] = w]
      /\ UNCHANGED <<scenario, clock, codes, refresh, class, held, spent,
                     grants, root, kept>>
  BY <1>2 DEF AccessRevoked
<1>4. access'[n] = Nothing
  BY <1>3, TypesKept DEF StoresTyped
<1>5. access[n] = Nothing => access' = access
  BY <1>3, TypesKept DEF StoresTyped
<1>6. Writes(k) /\ StoresTyped' /\ gone' \subseteq Token
  BY <1>3, <1>5, Taken, TypesKept DEF stores
<1>7. w \in TaskState
  BY <1>1 DEF TaskState
<1>8. task' \in [Slot -> TaskState] /\ OthersKept(k) /\ task'[k] = w
  BY <1>3, <1>7, TypesKept DEF OthersKept
<1>9. /\ w.pc = "revokeRefresh" /\ w.tok = n /\ w.out = v.out /\ w.kind = v.kind
  BY <1>1, <1>2 DEF TaskState
<1>10. ~Creates(task'[k]) /\ ShapeOf(task[k])' /\ LeftOf(task[k])'
  BY <1>1, <1>2, <1>3, <1>4, <1>8, <1>9 DEF Creates, ShapeOf, LeftOf
<1>11. Learns(k) /\ Spends(k) /\ Grants(k)
  BY <1>2, <1>3, <1>8, <1>9 DEF Learns, Has, Spends, Grants
<1>12. Types'
  BY <1>3, <1>6, <1>8, TypesKept, TypesNow
<1>. QED
  BY <1>3, <1>6, <1>8, <1>10, <1>11, <1>12, PlainStep

LEMMA RefreshRevokedGoal ==
    ASSUME IInv, NEW k \in Slot, RefreshRevoked(k)
    PROVE  Goal(k)
<1>. DEFINE v == task[k]
<1>1. v.pc = "revokeRefresh" /\ v.tok \in Token /\ access[v.tok] = Nothing
  BY DEF RefreshRevoked, IInv, Shape, ShapeOf, Safe, Leaving, LeftOf
<1>2. PICK n \in Token : n = v.tok
  BY <1>1
<1>3. /\ refresh' = [refresh EXCEPT ![n] = Nothing]
      /\ gone' = IF refresh[n] # Nothing THEN gone \cup {n} ELSE gone
      /\ spent' = spent \cup {n}
      /\ kept' = kept \ {root[n]}
      /\ End(k)
      /\ UNCHANGED <<scenario, clock, codes, access, class, held, grants, root>>
  BY <1>2 DEF RefreshRevoked
<1>4. refresh[n] = Nothing => refresh' = refresh
  BY <1>3, TypesKept DEF StoresTyped
<1>5. Writes(k) /\ StoresTyped' /\ gone' \subseteq Token
  BY <1>3, <1>4, Taken, TypesKept DEF stores
<1>6. refresh'[n] = Nothing
  BY <1>3, TypesKept DEF StoresTyped
<1>7. Spends(k) /\ Grants(k)
  BY <1>1, <1>2, <1>3, <1>6 DEF Spends, Grants
<1>. QED
  BY <1>3, <1>5, <1>7, EndStep, TypesKept

LEMMA StoreFailsGoal ==
    ASSUME IInv, NEW k \in Slot, StoreFails(k)
    PROVE  Goal(k)
<1>. DEFINE v == task[k]
<1>1. /\ v.pc # "idle" /\ End(k)
      /\ UNCHANGED <<scenario, clock, class, held, spent, grants, root, kept>>
  BY DEF StoreFails
<1>2. SUFFICES Writes(k) /\ StoresTyped' /\ gone' \subseteq Token
  <2>1. Spends(k) /\ Grants(k)
    BY <1>1 DEF Spends, Grants
  <2>. QED
    BY <1>1, <1>2, <2>1, EndStep, TypesKept
<1>3. CASE UNCHANGED <<stores, gone>>
  BY <1>3, WritesNothing, TypesKept
<1>4. CASE /\ v.pc = "setCode" /\ codes' = [codes EXCEPT ![v.new] = v.data]
           /\ UNCHANGED <<access, refresh, gone>>
  BY <1>4, SetCode, TypesKept
<1>5. CASE /\ v.pc = "setAccess" /\ access' = [access EXCEPT ![v.new] = v.data]
           /\ UNCHANGED <<codes, refresh, gone>>
  BY <1>5, SetAccess, TypesKept
<1>6. CASE /\ v.pc = "setRefresh" /\ refresh' = [refresh EXCEPT ![v.new] = v.data]
           /\ UNCHANGED <<codes, access, gone>>
  BY <1>6, SetRefresh, TypesKept
<1>7. v.pc \in {"consume", "rotate", "revokeRefresh", "revokeAccess"} => v.tok \in Token
  BY DEF IInv, Shape, ShapeOf
<1>8. CASE /\ v.pc \in {"consume", "rotate", "revokeRefresh", "revokeAccess"}
           /\ \/ codes' = [codes EXCEPT ![v.tok] = Nothing] /\ UNCHANGED <<access, refresh>>
              \/ refresh' = [refresh EXCEPT ![v.tok] = Nothing] /\ UNCHANGED <<codes, access>>
              \/ access' = [access EXCEPT ![v.tok] = Nothing] /\ UNCHANGED <<codes, refresh>>
           /\ gone' = gone \cup {v.tok}
  BY <1>7, <1>8, Taken, TypesKept
<1>. QED
  BY <1>3, <1>4, <1>5, <1>6, <1>8 DEF StoreFails

-----------------------------------------------------------------------------
(* The specification.                                                      *)

LEMMA BeginGoal ==
    ASSUME IInv, NEW k \in Slot, Begin(k)
    PROVE  Goal(k)
<1>1. Checks \subseteq BOOLEAN
  BY BoundsAssumption DEF IInv, TypeOK, Checks, Range
<1>2. CASE \E kind \in Kinds, c \in Client, t \in Token, off \in Scopes :
             Authorize(k, kind, c, off, t)
  BY <1>2, AuthorizeGoal
<1>3. CASE \E kind \in Kinds, c \in Client, t \in Token : AskAccess(k, kind, c, t)
  BY <1>3, AskAccessGoal
<1>4. CASE \E t \in Token, ok \in Checks : Redeem(k, t, ok)
  BY <1>1, <1>4, RedeemGoal
<1>5. CASE \E t \in Token, narrow \in BOOLEAN : UseRefresh(k, t, narrow)
  BY <1>5, UseRefreshGoal
<1>6. CASE \E kind \in Kinds, t \in Token : Present(k, kind, t)
  BY <1>6, PresentGoal
<1>7. CASE \E t \in Token : Revoke(k, t)
  BY <1>7, RevokeGoal
<1>. QED
  BY <1>2, <1>3, <1>4, <1>5, <1>6, <1>7 DEF Begin

LEMMA ContinueGoal ==
    ASSUME IInv, NEW k \in Slot, Continue(k)
    PROVE  Goal(k)
<1>1. CASE CodeStored(k)
  BY <1>1, CodeStoredGoal
<1>2. CASE AccessStored(k)
  BY <1>2, AccessStoredGoal
<1>3. CASE SessionRead(k)
  BY <1>3, SessionReadGoal
<1>4. CASE \E t \in Token : OfflineAsked(k, t)
  BY <1>4, OfflineAskedGoal
<1>5. CASE RefreshStored(k)
  BY <1>5, RefreshStoredGoal
<1>6. CASE CodeNotFound(k) \/ RefreshRefused(k) \/ UserInfoRefused(k)
  BY <1>6, RefusedGoal
<1>7. CASE Consumed(k)
  BY <1>7, ConsumedGoal
<1>8. CASE task[k].kind = "refresh" /\ RefreshRead(k)
  BY <1>8, RefreshReadGoal
<1>9. CASE Rotated(k)
  BY <1>9, RotatedGoal
<1>10. CASE UserInfoProceeds(k)
  BY <1>10, UserInfoGoal
<1>11. CASE Introspect(k)
  BY <1>11, IntrospectGoal
<1>12. CASE AccessRevoked(k)
  BY <1>12, AccessRevokedGoal
<1>13. CASE RefreshRevoked(k)
  BY <1>13, RefreshRevokedGoal
<1>. QED
  BY <1>1, <1>2, <1>3, <1>4, <1>5, <1>6, <1>7, <1>8, <1>9, <1>10, <1>11,
     <1>12, <1>13 DEF Continue

LEMMA RestartInv == IInv /\ Restart => IInv'
<1>. SUFFICES ASSUME IInv, Restart PROVE IInv'
  OBVIOUS
<1>1. /\ task' = [k \in Slot |-> Idle]
      /\ UNCHANGED <<scenario, clock, stores, class, held, history>>
  BY DEF Restart
<1>2. task' \in [Slot -> TaskState] /\ \A k \in Slot : task'[k] = Idle
  BY <1>1, IdleFacts
<1>3. TypeOK'
  BY <1>1, <1>2 DEF IInv, TypeOK, MaxClock, stores, history
<1>4. \A k \in Slot : /\ ~Creates(task'[k])
                      /\ task'[k].out = {} /\ task'[k].tok = None
  BY <1>2, IdleFacts
<1>5. Shape' /\ Leaving'
  BY <1>2 DEF Shape, Leaving, Idle, Creates, ShapeOf, LeftOf
<1>6. UndrawnUnknown'
  BY <1>1, <1>4, BoundsAssumption DEF IInv, Safe, UndrawnUnknown, history
<1>7. CreatedIsNew' /\ OutStored'
  BY <1>4 DEF CreatedIsNew, OutStored
<1>8. GrantedOnce' /\ Rooted' /\ SpentStaysSpent' /\ HeldIsStored'
  BY <1>1 DEF IInv, Safe, GrantedOnce, Rooted, SpentStaysSpent, HeldIsStored,
              stores, history
<1>. QED
  BY <1>3, <1>5, <1>6, <1>7, <1>8 DEF IInv, Safe

LEMMA StillInv ==
    ASSUME IInv, UNCHANGED <<scenario, stores, task, class, held, history>>,
           clock' \in 0 .. MaxClock
    PROVE  IInv'
<1>1. TypeOK'
  BY DEF IInv, TypeOK, MaxClock, stores, history
<1>2. Shape' /\ Leaving'
  BY DEF IInv, Safe, Shape, Leaving, Creates, ShapeOf, LeftOf, stores
<1>3. UndrawnUnknown' /\ GrantedOnce' /\ Rooted'
  BY DEF IInv, Safe, UndrawnUnknown, GrantedOnce, Rooted, stores, history
<1>4. CreatedIsNew'
  BY DEF IInv, Safe, CreatedIsNew, NewTo, Creates, Stored, stores, history
<1>5. OutStored' /\ SpentStaysSpent' /\ HeldIsStored'
  BY DEF IInv, Safe, OutStored, Stored, SpentStaysSpent, HeldIsStored, stores, history
<1>. QED
  BY <1>1, <1>2, <1>3, <1>4, <1>5 DEF IInv, Safe

LEMMA StepInv == IInv /\ [Next]_vars => IInv'
<1>. SUFFICES ASSUME IInv, [Next]_vars PROVE IInv'
  OBVIOUS
<1>1. clock \in Nat /\ clock <= MaxClock /\ MaxClock \in Nat
  BY BoundsAssumption DEF IInv, TypeOK, MaxClock, Range
<1>2. CASE \E k \in Slot : Begin(k) \/ Continue(k) \/ StoreFails(k)
  BY <1>2, BeginGoal, ContinueGoal, StoreFailsGoal, OwnStepSafe DEF Goal
<1>3. CASE Restart
  BY <1>3, RestartInv
<1>4. CASE Tick
  BY <1>1, <1>4, StillInv DEF Tick
<1>5. CASE UNCHANGED vars
  BY <1>1, <1>5, StillInv DEF vars
<1>. QED
  BY <1>2, <1>3, <1>4, <1>5 DEF Next

LEMMA InitInv == Init => IInv
<1>. SUFFICES ASSUME Init PROVE IInv
  OBVIOUS
<1>1. MaxClock \in Nat
  BY BoundsAssumption DEF Init, MaxClock, Range
<1>2. \A k \in Slot : task[k] = Idle
  BY DEF Init
<1>3. TypeOK
  BY <1>1, IdleFacts DEF Init, TypeOK, Empty
<1>4. Shape /\ Leaving
  BY <1>2, IdleFacts DEF Shape, Leaving
<1>5. UndrawnUnknown /\ CreatedIsNew /\ OutStored
  BY <1>2, IdleFacts, BoundsAssumption
     DEF Init, UndrawnUnknown, CreatedIsNew, OutStored
<1>6. GrantedOnce /\ Rooted /\ SpentStaysSpent /\ HeldIsStored
  BY BoundsAssumption DEF Init, GrantedOnce, Rooted, SpentStaysSpent, HeldIsStored
<1>. QED
  BY <1>3, <1>4, <1>5, <1>6 DEF IInv, Safe

LEMMA Invariance == Spec => []IInv
BY InitInv, StepInv, PTL DEF Spec

(***************************************************************************)
(* Type correctness: the stores, the requests and the histories keep their *)
(* types, and each store holds only what was made for it.                  *)
(***************************************************************************)
THEOREM TypeCorrect == Spec => []TypeOK
<1>1. IInv => TypeOK
  BY DEF IInv
<1>. QED
  BY <1>1, Invariance, PTL

(***************************************************************************)
(* A code gives tokens to one request, whatever requests present it at the *)
(* same time, whatever fails and whenever the process is restarted         *)
(* (handleAuthorizationCodeGrant).                                         *)
(***************************************************************************)
THEOREM CodeGrantedOnce == Spec => []CodeOnce
<1>1. IInv => CodeOnce
  <2>. SUFFICES ASSUME IInv, NEW t \in Token, root[t] = None
                PROVE  grants[t] <= 1
    BY DEF CodeOnce
  <2>1. class[t] \in {"code", "access", "none"}
    BY BoundsAssumption DEF IInv, Safe, Rooted, TypeOK, Class
  <2>2. grants[t] = 0 \/ grants[t] = 1
    BY <2>1 DEF IInv, Safe, GrantedOnce
  <2>. QED
    BY <2>2
<1>. QED
  BY <1>1, Invariance, PTL

(***************************************************************************)
(* A token whose revocation or rotation was answered is in no store ever   *)
(* after, whatever was running at that time (handleRevocationRequest,      *)
(* handleRefreshTokenGrant).                                               *)
(***************************************************************************)
THEOREM SpentForGood == Spec => []SpentStaysSpent
<1>1. IInv => SpentStaysSpent
  BY DEF IInv, Safe
<1>. QED
  BY <1>1, Invariance, PTL

(***************************************************************************)
(* What a response gives is in the store until a request takes it out      *)
(* (storeAuthorizationCode, storeAccessToken, storeRefreshToken, awaited). *)
(***************************************************************************)
THEOREM GivenIsStored == Spec => []HeldIsStored
<1>1. IInv => HeldIsStored
  BY DEF IInv, Safe
<1>. QED
  BY <1>1, Invariance, PTL

-----------------------------------------------------------------------------
(* GrantKept *)

(* A refresh request that goes on to store a refresh token of the code g.  *)
Renews(v, g) ==
    /\ v.kind = "refresh" /\ v.root = g
    /\ v.pc \in {"rotate", "setAccess", "session", "setRefresh"}

(* What a request will store is of the client and the scope it works for;  *)
(* a refresh request does not lose offline access, unless the client asks  *)
(* for less.                                                               *)
OfflineOf(v) ==
    /\ v.kind \in {"code", "refresh"} /\ v.pc \in {"setAccess", "session"} =>
         v.data.client = v.client /\ v.data.offline = v.offline
    /\ v.pc = "setRefresh" =>
         /\ v.data.client \in Offline /\ v.data.offline
         /\ root[v.new] = v.root
    /\ v.pc = "rotate" => root[v.tok] = v.root
    /\ v.kind = "refresh" =>
         /\ v.pc \in {"getRefresh", "rotate", "setAccess", "session", "setRefresh"}
         /\ ~Narrowing => v.offline
         /\ ~Narrowing /\ v.pc # "getRefresh" => v.client \in Offline

OfflineKept ==
    /\ \A k \in Slot : OfflineOf(task[k])
    /\ \A t \in Token :
         refresh[t] # Nothing => refresh[t].client \in Offline /\ refresh[t].offline

RefreshOf(g) == \E t \in Token : refresh[t] # Nothing /\ root[t] = g

Renewed ==
    \A g \in kept :
      \/ RefreshOf(g)
      \/ \E k \in Slot : Renews(task[k], g)

GrantInv ==
    OfflineKept /\ (~Faulty /\ ~Restarting /\ ~Narrowing => Renewed)

LEMMA GrantStep ==
    ASSUME TypeOK, Shape, GrantInv, NEW k \in Slot, OthersKept(k),
           UNCHANGED scenario, OfflineOf(task[k])',
           \A t \in Token : class[t] # "none" => root'[t] = root[t],
           \A t \in Token :
             \/ refresh'[t] \in {refresh[t], Nothing}
             \/ refresh'[t].client \in Offline /\ refresh'[t].offline,
           ~Faulty /\ ~Restarting /\ ~Narrowing =>
             \A g \in kept' :
               /\ g \in kept \/ RefreshOf(g)'
               /\ Renews(task[k], g) => Renews(task[k], g)' \/ RefreshOf(g)'
               /\ \A t \in Token :
                    refresh[t] # Nothing /\ root[t] = g =>
                      refresh'[t] # Nothing \/ Renews(task[k], g)'
    PROVE  GrantInv'
<1>1. ASSUME NEW l \in Slot \ {k}
      PROVE  OfflineOf(task[l])'
  <2>1. task'[l] = task[l] /\ OfflineOf(task[l])
    BY DEF OthersKept, GrantInv, OfflineKept
  <2>2. task[l].pc = "setRefresh" => root'[task[l].new] = root[task[l].new]
    BY DEF Shape, ShapeOf, Creates
  <2>3. task[l].pc = "rotate" => root'[task[l].tok] = root[task[l].tok]
    BY DEF Shape, ShapeOf
  <2>. QED
    BY <2>1, <2>2, <2>3 DEF OfflineOf, Narrowing
<1>2. \A l \in Slot : OfflineOf(task[l])'
  BY <1>1
<1>3. \A t \in Token :
        refresh'[t] # Nothing => refresh'[t].client \in Offline /\ refresh'[t].offline
  BY DEF GrantInv, OfflineKept
<1>4. OfflineKept'
  BY <1>2, <1>3 DEF OfflineKept
<1>5. ASSUME ~Faulty, ~Restarting, ~Narrowing, NEW g \in kept'
      PROVE  \/ RefreshOf(g)'
             \/ \E l \in Slot : Renews(task[l], g)'
  <2>1. CASE g \in kept
    <3>1. ASSUME NEW t \in Token, refresh[t] # Nothing, root[t] = g
          PROVE  \/ refresh'[t] # Nothing /\ root'[t] = g
                 \/ Renews(task[k], g)'
      <4>1. root'[t] = root[t]
        BY <3>1 DEF TypeOK
      <4>. QED
        BY <1>5, <3>1, <4>1
    <3>2. ASSUME NEW l \in Slot, Renews(task[l], g)
          PROVE  \/ RefreshOf(g)'
                 \/ \E m \in Slot : Renews(task[m], g)'
      <4>1. CASE l = k
        BY <1>5, <3>2, <4>1
      <4>2. CASE l # k
        BY <3>2, <4>2 DEF OthersKept
      <4>. QED
        BY <4>1, <4>2
    <3>3. Renewed
      BY <1>5 DEF GrantInv
    <3>. QED
      BY <2>1, <3>1, <3>2, <3>3 DEF Renewed, RefreshOf
  <2>. QED
    BY <1>5, <2>1
<1>6. ~Faulty /\ ~Restarting /\ ~Narrowing => Renewed'
  BY <1>5 DEF Renewed
<1>. QED
  BY <1>4, <1>6 DEF GrantInv, Faulty, Restarting, Narrowing

(* The steps that leave the refresh tokens alone.                          *)
LEMMA GrantQuiet ==
    ASSUME TypeOK, Shape, GrantInv, NEW k \in Slot, OthersKept(k),
           UNCHANGED <<scenario, refresh, root, kept>>, OfflineOf(task[k])',
           ~Faulty /\ ~Narrowing =>
             \A g \in kept : Renews(task[k], g) => Renews(task[k], g)'
    PROVE  GrantInv'
BY GrantStep

(* A request that ends; what kind of request and step needs nothing.       *)
LEMMA OfflineEnd ==
    ASSUME TypeOK, NEW k \in Slot, End(k)
    PROVE  OthersKept(k) /\ task'[k] = Idle /\ OfflineOf(task[k])'
<1>1. OthersKept(k) /\ task'[k] = Idle
  BY DEF End, OthersKept, TypeOK
<1>. QED
  BY <1>1 DEF Idle, OfflineOf

LEMMA GrantEnd ==
    ASSUME TypeOK, Shape, GrantInv, NEW k \in Slot, End(k),
           UNCHANGED <<scenario, refresh, root, kept>>,
           ~Faulty /\ ~Narrowing => \A g \in kept : ~Renews(task[k], g)
    PROVE  GrantInv'
BY OfflineEnd, GrantQuiet

LEMMA OfflinePlain ==
    ASSUME NEW k \in Slot, task'[k].kind # "refresh",
           task'[k].pc \notin {"setRefresh", "rotate"},
           task'[k].kind = "code" => task'[k].pc \notin {"setAccess", "session"}
    PROVE  OfflineOf(task[k])'
BY DEF OfflineOf

LEMMA BeginGrant ==
    ASSUME TypeOK, Shape, GrantInv, NEW k \in Slot, Begin(k)
    PROVE  GrantInv'
<1>1. /\ task[k] = Idle /\ OthersKept(k)
      /\ UNCHANGED <<scenario, refresh, root, kept>>
  BY ZenonT(60) DEF Begin, Authorize, AskAccess, Redeem, UseRefresh, Present, Revoke,
     OthersKept, TypeOK, stores, history
<1>2. \A g : ~Renews(task[k], g)
  BY <1>1 DEF Idle, Renews
<1>3. ASSUME NEW kind \in Kinds, NEW c \in Client, NEW t \in Token, NEW off \in Scopes,
             Authorize(k, kind, c, off, t)
      PROVE  OfflineOf(task[k])'
  <2>1. task'[k].kind \in {"authorize", "hybrid"} /\ task'[k].pc = "setCode"
    BY <1>3 DEF Authorize, Idle, TypeOK
  <2>. QED
    BY <2>1, OfflinePlain
<1>4. ASSUME NEW kind \in Kinds, NEW c \in Client, NEW t \in Token,
             AskAccess(k, kind, c, t)
      PROVE  OfflineOf(task[k])'
  <2>1. task'[k].kind \in {"implicit", "credentials"} /\ task'[k].pc = "setAccess"
    BY <1>4 DEF AskAccess, Idle, TypeOK
  <2>. QED
    BY <2>1, OfflinePlain
<1>5. ASSUME NEW t \in Token, NEW ok \in Checks, Redeem(k, t, ok)
      PROVE  OfflineOf(task[k])'
  <2>1. task'[k].kind = "code" /\ task'[k].pc = "consume"
    BY <1>5 DEF Redeem, Idle, TypeOK
  <2>. QED
    BY <2>1, OfflinePlain
<1>6. ASSUME NEW t \in Token, NEW narrow \in BOOLEAN, UseRefresh(k, t, narrow)
      PROVE  OfflineOf(task[k])'
  <2>1. /\ task'[k].kind = "refresh" /\ task'[k].pc = "getRefresh"
        /\ task'[k].offline = ~narrow
    BY <1>6 DEF UseRefresh, Idle, TypeOK
  <2>2. (narrow => Narrowing) /\ (Narrowing <=> Narrowing')
    BY <1>6 DEF UseRefresh, Narrowing
  <2>. QED
    BY <2>1, <2>2 DEF OfflineOf
<1>7. ASSUME NEW kind \in Kinds, NEW t \in Token, Present(k, kind, t)
      PROVE  OfflineOf(task[k])'
  <2>1. task'[k].kind \in {"userinfo", "introspect"} /\ task'[k].pc = "getAccess"
    BY <1>7 DEF Present, Idle, TypeOK
  <2>. QED
    BY <2>1, OfflinePlain
<1>8. ASSUME NEW t \in Token, Revoke(k, t)
      PROVE  OfflineOf(task[k])'
  <2>1. task'[k].kind = "revoke" /\ task'[k].pc = "revokeAccess"
    BY <1>8 DEF Revoke, Idle, TypeOK
  <2>. QED
    BY <2>1, OfflinePlain
<1>9. OfflineOf(task[k])'
  BY <1>3, <1>4, <1>5, <1>6, <1>7, <1>8 DEF Begin
<1>. QED
  BY <1>1, <1>2, <1>9, GrantQuiet

LEMMA GenerateGrant ==
    ASSUME TypeOK, NEW k \in Slot, NEW c, NEW off, NEW r, Generate(k, c, off, r)
    PROVE  /\ OthersKept(k)
           /\ task'[k].kind = task[k].kind /\ task'[k].pc = "setAccess"
           /\ task'[k].client = c /\ task'[k].offline = off /\ task'[k].root = r
           /\ task'[k].data.client = c /\ task'[k].data.offline = off
<1>1. task[k] \in TaskState
  BY DEF TypeOK
<1>2. PICK t \in Token :
        task' = [task EXCEPT ![k] = [task[k] EXCEPT
          !.pc = "setAccess", !.client = c, !.offline = off, !.now = clock,
          !.new = t, !.root = r,
          !.data = [client |-> c, offline |-> off, exp |-> clock + TtlAccess]]]
  BY DEF Generate
<1>. QED
  BY <1>1, <1>2 DEF OthersKept, TypeOK, TaskState

LEMMA ContinueGrant ==
    ASSUME TypeOK, Shape, GrantInv, NEW k \in Slot, Continue(k)
    PROVE  GrantInv'
<1>0. /\ ShapeOf(task[k]) /\ task[k] \in TaskState /\ OfflineOf(task[k])
      /\ \A g \in kept : Renews(task[k], g) => task[k].kind = "refresh"
  BY DEF Shape, TypeOK, GrantInv, OfflineKept, Renews
<1>1. CASE CodeStored(k)
  <2>1. task[k].kind \in {"authorize", "hybrid"} /\ UNCHANGED <<scenario, refresh, root, kept>>
    BY <1>1 DEF CodeStored, history
  <2>2. CASE End(k)
    BY <1>0, <2>1, <2>2, GrantEnd
  <2>3. CASE task[k].kind = "hybrid" /\ ~End(k)
    <3>1. PICK t \in Token : task' = [task EXCEPT ![k] = [task[k] EXCEPT
            !.pc = "setAccess", !.new = t, !.out = {task[k].new},
            !.data.exp = clock + TtlAccess]]
      BY <1>1, <2>3 DEF CodeStored
    <3>2. OthersKept(k) /\ task'[k].kind = "hybrid" /\ task'[k].pc = "setAccess"
      BY <1>0, <2>3, <3>1 DEF OthersKept, TypeOK, TaskState
    <3>3. OfflineOf(task[k])'
      BY <3>2, OfflinePlain
    <3>. QED
      BY <1>0, <2>1, <3>2, <3>3, GrantQuiet
  <2>. QED
    BY <1>1, <2>2, <2>3 DEF CodeStored, Respond
<1>2. CASE AccessStored(k)
  <2>1. task[k].pc = "setAccess" /\ UNCHANGED <<scenario, refresh, root, kept>>
    BY <1>2 DEF AccessStored, history
  <2>2. CASE task[k].kind \notin {"code", "refresh"}
    <3>1. End(k)
      BY <1>2, <2>2 DEF AccessStored, Respond
    <3>. QED
      BY <1>0, <2>1, <2>2, <3>1, GrantEnd
  <2>3. CASE task[k].kind \in {"code", "refresh"}
    <3>1. task' = [task EXCEPT ![k].pc = "session", ![k].out = @ \cup {task[k].new}]
      BY <1>2, <2>3 DEF AccessStored
    <3>2. /\ OthersKept(k) /\ task'[k].pc = "session"
          /\ task'[k].kind = task[k].kind /\ task'[k].client = task[k].client
          /\ task'[k].offline = task[k].offline /\ task'[k].data = task[k].data
          /\ task'[k].root = task[k].root
      BY <1>0, <3>1 DEF OthersKept, TypeOK, TaskState
    <3>3. OfflineOf(task[k])'
      BY <1>0, <2>1, <2>3, <3>2 DEF OfflineOf, Narrowing
    <3>4. \A g \in kept : Renews(task[k], g) => Renews(task[k], g)'
      BY <3>2 DEF Renews
    <3>. QED
      BY <2>1, <3>2, <3>3, <3>4, GrantQuiet
  <2>. QED
    BY <2>2, <2>3
<1>3. CASE SessionRead(k)
  <2>1. /\ task[k].pc = "session" /\ End(k)
        /\ UNCHANGED <<scenario, refresh, root, kept>>
        /\ ~(task[k].offline /\ task[k].client \in Offline)
    BY <1>3 DEF SessionRead, AnswerGrant, Respond, stores
  <2>2. ~Narrowing => task[k].kind # "refresh"
    BY <1>0, <2>1 DEF OfflineOf
  <2>. QED
    BY <1>0, <2>1, <2>2, GrantEnd
<1>4. ASSUME NEW t \in Token, OfflineAsked(k, t)
      PROVE  GrantInv'
  <2>1. /\ task[k].pc = "session" /\ task[k].offline /\ task[k].client \in Offline
        /\ class[t] = "none"
        /\ task' = [task EXCEPT ![k] = [task[k] EXCEPT
             !.pc = "setRefresh", !.new = t,
             !.data.exp = task[k].now + TtlRefresh]]
        /\ root' = [root EXCEPT ![t] = task[k].root]
        /\ UNCHANGED <<scenario, refresh, kept>>
    BY <1>4 DEF OfflineAsked, Draw, stores
  <2>2. task[k].data \in Data /\ task[k].kind \in {"code", "refresh"}
    BY <1>0, <2>1 DEF ShapeOf
  <2>3. /\ OthersKept(k) /\ task'[k].pc = "setRefresh" /\ task'[k].new = t
        /\ task'[k].kind = task[k].kind /\ task'[k].client = task[k].client
        /\ task'[k].offline = task[k].offline /\ task'[k].root = task[k].root
        /\ task'[k].data.client = task[k].data.client
        /\ task'[k].data.offline = task[k].data.offline
    BY <1>0, <2>1, <2>2 DEF OthersKept, TypeOK, TaskState, Data
  <2>4. /\ root'[t] = task[k].root
        /\ \A x \in Token : class[x] # "none" => root'[x] = root[x]
    BY <2>1 DEF TypeOK
  <2>5. OfflineOf(task[k])'
    BY <1>0, <2>1, <2>2, <2>3, <2>4 DEF OfflineOf, Narrowing
  <2>6. \A g \in kept : Renews(task[k], g) => Renews(task[k], g)'
    BY <2>3 DEF Renews
  <2>. QED
    BY <2>1, <2>3, <2>4, <2>5, <2>6, GrantStep
<1>5. CASE RefreshStored(k)
  <2>. DEFINE n == task[k].new
              r == task[k].root
              d == task[k].data
  <2>1. /\ task[k].pc = "setRefresh" /\ End(k)
        /\ refresh' = [refresh EXCEPT ![n] = d]
        /\ kept' = kept \cup {r}
        /\ UNCHANGED <<scenario, root>>
    BY <1>5 DEF RefreshStored, AnswerGrant, Respond
  <2>2. n \in Token /\ d \in Data /\ root[n] = r /\ d.client \in Offline /\ d.offline
    BY <1>0, <2>1 DEF ShapeOf, OfflineOf, Creates
  <2>. HIDE DEF n, r, d
  <2>3. d # Nothing
    BY <2>2, BoundsAssumption
  <2>4. /\ refresh'[n] = d
        /\ \A t \in Token : t # n => refresh'[t] = refresh[t]
    BY <2>1, <2>2 DEF TypeOK
  <2>5. \A g : g = r => RefreshOf(g)'
    <3>. SUFFICES ASSUME NEW g, g = r PROVE RefreshOf(g)'
      OBVIOUS
    <3>1. refresh'[n] # Nothing /\ root'[n] = g
      BY <2>1, <2>2, <2>3, <2>4
    <3>. QED
      BY <2>2, <3>1 DEF RefreshOf
  <2>6. \A g : Renews(task[k], g) => g = r
    BY DEF Renews, r
  <2>7. \A g \in kept' : /\ g \in kept \/ RefreshOf(g)'
                         /\ Renews(task[k], g) => RefreshOf(g)'
    BY <2>1, <2>5, <2>6
  <2>8. \A t \in Token : refresh[t] # Nothing => refresh'[t] # Nothing
    BY <2>3, <2>4
  <2>9. OthersKept(k) /\ OfflineOf(task[k])'
    BY <2>1, OfflineEnd
  <2>. QED
    BY <2>1, <2>2, <2>4, <2>7, <2>8, <2>9, GrantStep
<1>6. CASE CodeNotFound(k)
  <2>1. task[k].pc = "consume" /\ End(k) /\ UNCHANGED <<scenario, refresh, root, kept>>
    BY <1>6 DEF CodeNotFound, stores, history
  <2>2. \A g \in kept : ~Renews(task[k], g)
    BY <2>1 DEF Renews
  <2>. QED
    BY <2>1, <2>2, GrantEnd
<1>7. CASE Consumed(k)
  <2>1. task[k].pc = "consume" /\ task[k].kind = "code"
        /\ UNCHANGED <<scenario, refresh, root, kept>>
    BY <1>0, <1>7 DEF Consumed, ShapeOf
  <2>2. CASE End(k)
    BY <1>0, <2>1, <2>2, GrantEnd
  <2>3. CASE Generate(k, codes[task[k].tok].client, codes[task[k].tok].offline,
                      task[k].tok)
    <3>1. /\ OthersKept(k) /\ task'[k].kind = "code" /\ task'[k].pc = "setAccess"
          /\ task'[k].data.client = task'[k].client
          /\ task'[k].data.offline = task'[k].offline
      BY <2>1, <2>3, GenerateGrant
    <3>2. OfflineOf(task[k])'
      BY <3>1 DEF OfflineOf
    <3>. QED
      BY <1>0, <2>1, <3>1, <3>2, GrantQuiet
  <2>. QED
    BY <1>7, <2>2, <2>3 DEF Consumed
<1>8. CASE task[k].kind = "refresh" /\ RefreshRefused(k)
  <2>1. task[k].pc = "getRefresh" /\ End(k) /\ UNCHANGED <<scenario, refresh, root, kept>>
    BY <1>8 DEF RefreshRefused, stores, history
  <2>2. \A g \in kept : ~Renews(task[k], g)
    BY <2>1 DEF Renews
  <2>. QED
    BY <2>1, <2>2, GrantEnd
<1>9. CASE task[k].kind = "refresh" /\ RefreshRead(k)
  <2>. DEFINE d == refresh[task[k].tok]
              off == NewScope(task[k], d)
  <2>1. /\ task[k].pc = "getRefresh" /\ d # Nothing /\ task[k].tok \in Token
        /\ UNCHANGED <<scenario, refresh, root, kept>>
    BY <1>0, <1>9 DEF RefreshRead, Valid, ShapeOf, stores
  <2>2. d.client \in Offline /\ d.offline
    BY <2>1 DEF GrantInv, OfflineKept
  <2>3. ~Narrowing => off
    BY <1>0, <1>9, <2>2 DEF OfflineOf, NewScope
  <2>4. \A g \in kept : ~Renews(task[k], g)
    BY <2>1 DEF Renews
  <2>5. CASE task' = [task EXCEPT ![k] = [task[k] EXCEPT
               !.pc = "rotate", !.client = d.client, !.root = root[task[k].tok],
               !.offline = off]]
    <3>. HIDE DEF off
    <3>1. /\ OthersKept(k) /\ task'[k].pc = "rotate" /\ task'[k].kind = "refresh"
          /\ task'[k].client = d.client /\ task'[k].offline = off
          /\ task'[k].tok = task[k].tok /\ task'[k].root = root[task[k].tok]
      BY <1>0, <1>9, <2>5 DEF OthersKept, TypeOK, TaskState
    <3>2. OfflineOf(task[k])'
      BY <2>1, <2>2, <2>3, <3>1 DEF OfflineOf, Narrowing
    <3>. QED
      BY <2>1, <2>4, <3>1, <3>2, GrantQuiet
  <2>6. CASE Generate(k, d.client, off, root[task[k].tok])
    <3>. HIDE DEF off
    <3>1. /\ OthersKept(k) /\ task'[k].kind = "refresh" /\ task'[k].pc = "setAccess"
          /\ task'[k].client = d.client /\ task'[k].offline = off
          /\ task'[k].data.client = d.client /\ task'[k].data.offline = off
      BY <1>9, <2>6, GenerateGrant
    <3>2. OfflineOf(task[k])'
      BY <2>1, <2>2, <2>3, <3>1 DEF OfflineOf, Narrowing
    <3>. QED
      BY <2>1, <2>4, <3>1, <3>2, GrantQuiet
  <2>. QED
    BY <1>9, <2>5, <2>6 DEF RefreshRead
<1>10. CASE Rotated(k)
  <2>. DEFINE t == task[k].tok
              v == task[k]
  <2>1. /\ v.pc = "rotate" /\ t \in Token /\ v.kind = "refresh" /\ root[t] = v.root
        /\ refresh' = [refresh EXCEPT ![t] = Nothing]
        /\ Generate(k, v.client, v.offline, v.root)
        /\ UNCHANGED <<scenario, root, kept>>
    BY <1>0, <1>10 DEF Rotated, ShapeOf, OfflineOf
  <2>2. /\ OthersKept(k) /\ task'[k].kind = "refresh" /\ task'[k].pc = "setAccess"
        /\ task'[k].client = v.client /\ task'[k].offline = v.offline
        /\ task'[k].root = v.root
        /\ task'[k].data.client = v.client /\ task'[k].data.offline = v.offline
    BY <2>1, GenerateGrant
  <2>3. OfflineOf(task[k])'
    BY <1>0, <2>1, <2>2 DEF OfflineOf, Narrowing
  <2>4. Renews(task[k], v.root)' /\ \A g : Renews(task[k], g) => g = v.root
    BY <2>2 DEF Renews
  <2>5. \A g : Renews(task[k], g) => Renews(task[k], g)'
    BY <2>2 DEF Renews
  <2>6. \A x \in Token : \/ refresh'[x] = refresh[x]
                         \/ x = t /\ refresh'[x] = Nothing
    BY <2>1 DEF TypeOK
  <2>7. \A g, x : x = t /\ root[x] = g => Renews(task[k], g)'
    BY <2>1, <2>2 DEF Renews
  <2>. HIDE DEF t, v
  <2>. QED
    BY <2>1, <2>2, <2>3, <2>5, <2>6, <2>7, GrantStep
<1>11. CASE UserInfoRefused(k) \/ UserInfoProceeds(k) \/ Introspect(k)
  <2>1. /\ task[k].kind \in {"userinfo", "introspect"}
        /\ UNCHANGED <<scenario, refresh, root, kept>>
    BY <1>11 DEF UserInfoRefused, UserInfoProceeds, Introspect, stores, history
  <2>2. CASE End(k)
    BY <1>0, <2>1, <2>2, GrantEnd
  <2>3. CASE \E p \in {"claims", "getAgain", "getRefresh"} :
               task' = [task EXCEPT ![k].pc = p]
    <3>1. /\ OthersKept(k) /\ task'[k].kind = task[k].kind
          /\ task'[k].pc \in {"claims", "getAgain", "getRefresh"}
      BY <1>0, <2>3 DEF OthersKept, TypeOK, TaskState
    <3>2. OfflineOf(task[k])'
      BY <2>1, <3>1, OfflinePlain
    <3>. QED
      BY <1>0, <2>1, <3>1, <3>2, GrantQuiet
  <2>. QED
    BY <1>11, <2>2, <2>3 DEF UserInfoRefused, UserInfoProceeds, Introspect
<1>12. CASE AccessRevoked(k)
  <2>1. /\ task[k].pc = "revokeAccess"
        /\ task' = [task EXCEPT ![k].pc = "revokeRefresh"]
        /\ UNCHANGED <<scenario, refresh, root, kept>>
    BY <1>12 DEF AccessRevoked
  <2>2. task[k].kind # "refresh"
    BY <1>0, <2>1 DEF OfflineOf
  <2>3. /\ OthersKept(k) /\ task'[k].kind = task[k].kind /\ task'[k].pc = "revokeRefresh"
    BY <1>0, <2>1 DEF OthersKept, TypeOK, TaskState
  <2>4. OfflineOf(task[k])'
    BY <2>2, <2>3, OfflinePlain
  <2>. QED
    BY <1>0, <2>1, <2>2, <2>3, <2>4, GrantQuiet
<1>13. CASE RefreshRevoked(k)
  <2>. DEFINE t == task[k].tok
  <2>1. /\ task[k].pc = "revokeRefresh" /\ t \in Token /\ End(k)
        /\ refresh' = [refresh EXCEPT ![t] = Nothing]
        /\ kept' = kept \ {root[t]}
        /\ UNCHANGED <<scenario, root>>
    BY <1>0, <1>13 DEF RefreshRevoked, ShapeOf
  <2>2. \A g : ~Renews(task[k], g)
    BY <2>1 DEF Renews
  <2>3. \A x \in Token : \/ refresh'[x] = refresh[x]
                         \/ x = t /\ refresh'[x] = Nothing
    BY <2>1 DEF TypeOK
  <2>4. OthersKept(k) /\ OfflineOf(task[k])'
    BY <2>1, OfflineEnd
  <2>. HIDE DEF t
  <2>. QED
    BY <2>1, <2>2, <2>3, <2>4, GrantStep
<1>. QED
  BY <1>1, <1>2, <1>3, <1>4, <1>5, <1>6, <1>7, <1>8, <1>9, <1>10, <1>11, <1>12,
     <1>13 DEF Continue

LEMMA FailGrant ==
    ASSUME TypeOK, Shape, GrantInv, NEW k \in Slot, StoreFails(k)
    PROVE  GrantInv'
<1>0. ShapeOf(task[k]) /\ OfflineOf(task[k])
  BY DEF Shape, GrantInv, OfflineKept
<1>1. Faulty /\ End(k) /\ UNCHANGED <<scenario, root, kept>>
  BY DEF StoreFails
<1>2. OthersKept(k) /\ OfflineOf(task[k])'
  BY <1>1, OfflineEnd
<1>3. \/ UNCHANGED refresh
      \/ task[k].pc = "setRefresh"
         /\ refresh' = [refresh EXCEPT ![task[k].new] = task[k].data]
      \/ refresh' = [refresh EXCEPT ![task[k].tok] = Nothing]
  BY DEF StoreFails, stores
<1>4. task[k].pc = "setRefresh" => task[k].data.client \in Offline /\ task[k].data.offline
  BY <1>0 DEF OfflineOf
<1>5. \A t \in Token :
        \/ refresh'[t] \in {refresh[t], Nothing}
        \/ refresh'[t].client \in Offline /\ refresh'[t].offline
  BY <1>3, <1>4 DEF TypeOK
<1>. QED
  BY <1>1, <1>2, <1>5, GrantStep

LEMMA GrantInvStep ==
    ASSUME IInv, GrantInv, [Next]_vars
    PROVE  GrantInv'
<1>0. TypeOK /\ Shape
  BY DEF IInv
<1>1. CASE Restart
  <2>1. /\ Restarting /\ UNCHANGED <<scenario, refresh>>
        /\ \A k \in Slot : task'[k] = Idle
    BY <1>1 DEF Restart, stores
  <2>2. \A k \in Slot : OfflineOf(task[k])'
    BY <2>1 DEF Idle, OfflineOf
  <2>3. OfflineKept'
    BY <2>1, <2>2 DEF GrantInv, OfflineKept
  <2>. QED
    BY <2>1, <2>3 DEF GrantInv, Restarting
<1>2. CASE Tick \/ UNCHANGED vars
  <2>1. UNCHANGED <<scenario, refresh, root, kept, task>>
    BY <1>2 DEF Tick, vars, stores, history
  <2>2. OfflineKept' /\ (Renewed => Renewed')
    BY <2>1 DEF GrantInv, OfflineKept, OfflineOf, Narrowing, Renewed, RefreshOf, Renews
  <2>. QED
    BY <2>1, <2>2 DEF GrantInv, Faulty, Restarting, Narrowing
<1>. QED
  BY <1>0, <1>1, <1>2, BeginGrant, ContinueGrant, FailGrant DEF Next

LEMMA GrantInvInit == Init => GrantInv
BY DEF Init, GrantInv, OfflineKept, OfflineOf, Renewed, Idle, Empty

(***************************************************************************)
(* Rotation does not lose the offline access of a client: unless it        *)
(* revokes it or asks for less, or the store or the process fails, there   *)
(* is a refresh token of its code in the store, or a request that goes on  *)
(* to store one (handleRefreshTokenGrant, generateTokens), in any number   *)
(* of refresh requests that overlap.                                       *)
(***************************************************************************)
THEOREM OfflineAccessIsKept == Spec => []GrantKept
<1>1. Init => IInv /\ GrantInv
  BY InitInv, GrantInvInit
<1>2. (IInv /\ GrantInv) /\ [Next]_vars => (IInv /\ GrantInv)'
  BY StepInv, GrantInvStep
<1>3. GrantInv => GrantKept
  BY DEF GrantInv, Renewed, RefreshOf, Renews, GrantKept
<1>. QED
  BY <1>1, <1>2, <1>3, PTL DEF Spec

=============================================================================
