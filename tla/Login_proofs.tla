---------------------------- MODULE Login_proofs ----------------------------
(***************************************************************************)
(* Proofs about Login, for any number of users, requests, tokens, session  *)
(* infos and secrets, any configurations, devices and passwords: what was  *)
(* verified once is not verified by a later request, the second factor     *)
(* cannot be left out, the password that was acknowledged last is the one  *)
(* that decides, a token of a registration that was acknowledged is spent, *)
(* and acknowledged devices stay.                                          *)
(***************************************************************************)
EXTENDS Login, FiniteSetTheorems, WellFoundedInduction, TLAPS

(* The fields of a task, whatever they hold.                               *)
ALogin(r) ==
    \E pc, u, p, s :
      r = [kind |-> "login", pc |-> pc, user |-> u, pass |-> p, settled |-> s]

AVerification(r) ==
    \E pc, u, p, s, d, t, a, l, b :
      r = [kind |-> "verify", pc |-> pc, user |-> u, pass |-> p, settled |-> s,
           dev |-> d, second |-> t, age |-> a, late |-> l, success |-> b]

AnOpening(r) ==
    \E pc, u, p, s, d, t, a, l :
      r = [kind |-> "open", pc |-> pc, user |-> u, pass |-> p, settled |-> s,
           dev |-> d, second |-> t, age |-> a, late |-> l]

AChange(r) ==
    \E u, o, n, pc, s :
      r = [kind |-> "change", user |-> u, old |-> o, new |-> n, pc |-> pc,
           settled |-> s]

IsTask(r) == r = Idle \/ ALogin(r) \/ AVerification(r) \/ AnOpening(r) \/ AChange(r)

(* The fields that the invariants speak of.                                *)
SameFields(b, r) ==
    /\ b.kind = r.kind /\ b.user = r.user
    /\ r.kind # "change" => b.pass = r.pass
    /\ r.kind = "change" => b.new = r.new
    /\ r.kind \in {"verify", "open"} =>
         b.dev = r.dev /\ b.second = r.second /\ b.age = r.age /\ b.late = r.late

(* A task that goes on keeps the rest of its fields.                       *)
LEMMA OnlyPc ==
    ASSUME NEW r, IsTask(r), r # Idle, NEW x
    PROVE  LET b == [r EXCEPT !.pc = x]
           IN  /\ IsTask(b) /\ SameFields(b, r)
               /\ b.pc = x /\ b.settled = r.settled
<1> DEFINE b == [r EXCEPT !.pc = x]
<1>1. CASE ALogin(r)
  <2>1. PICK pc, u, p, s :
           r = [kind |-> "login", pc |-> pc, user |-> u, pass |-> p, settled |-> s]
    BY <1>1 DEF ALogin
  <2>2. b = [kind |-> "login", pc |-> x, user |-> u, pass |-> p, settled |-> s]
    BY <2>1
  <2> HIDE DEF b
  <2>3. ALogin(b)
    BY <2>2, Zenon DEF ALogin
  <2>4. SameFields(b, r) /\ b.pc = x /\ b.settled = r.settled
    BY <2>1, <2>2 DEF SameFields
  <2>5. IsTask(b)
    BY <2>3 DEF IsTask
  <2> QED BY <2>4, <2>5 DEF b
<1>2. CASE AVerification(r)
  <2>1. PICK pc, u, p, s, d, t, a, l, y :
           r = [kind |-> "verify", pc |-> pc, user |-> u, pass |-> p, settled |-> s,
                dev |-> d, second |-> t, age |-> a, late |-> l, success |-> y]
    BY <1>2 DEF AVerification
  <2>2. b = [kind |-> "verify", pc |-> x, user |-> u, pass |-> p, settled |-> s,
             dev |-> d, second |-> t, age |-> a, late |-> l, success |-> y]
    BY <2>1
  <2> HIDE DEF b
  <2>3. AVerification(b)
    BY <2>2, Zenon DEF AVerification
  <2>4. SameFields(b, r) /\ b.pc = x /\ b.settled = r.settled
    BY <2>1, <2>2 DEF SameFields
  <2>5. IsTask(b)
    BY <2>3 DEF IsTask
  <2> QED BY <2>4, <2>5 DEF b
<1>3. CASE AnOpening(r)
  <2>1. PICK pc, u, p, s, d, t, a, l :
           r = [kind |-> "open", pc |-> pc, user |-> u, pass |-> p, settled |-> s,
                dev |-> d, second |-> t, age |-> a, late |-> l]
    BY <1>3 DEF AnOpening
  <2>2. b = [kind |-> "open", pc |-> x, user |-> u, pass |-> p, settled |-> s,
             dev |-> d, second |-> t, age |-> a, late |-> l]
    BY <2>1
  <2> HIDE DEF b
  <2>3. AnOpening(b)
    BY <2>2, Zenon DEF AnOpening
  <2>4. SameFields(b, r) /\ b.pc = x /\ b.settled = r.settled
    BY <2>1, <2>2 DEF SameFields
  <2>5. IsTask(b)
    BY <2>3 DEF IsTask
  <2> QED BY <2>4, <2>5 DEF b
<1>4. CASE AChange(r)
  <2>1. PICK u, o, n, pc, s :
           r = [kind |-> "change", user |-> u, old |-> o, new |-> n, pc |-> pc,
                settled |-> s]
    BY <1>4 DEF AChange
  <2>2. b = [kind |-> "change", user |-> u, old |-> o, new |-> n, pc |-> x,
             settled |-> s]
    BY <2>1
  <2> HIDE DEF b
  <2>3. AChange(b)
    BY <2>2, Zenon DEF AChange
  <2>4. SameFields(b, r) /\ b.pc = x /\ b.settled = r.settled
    BY <2>1, <2>2 DEF SameFields
  <2>5. IsTask(b)
    BY <2>3 DEF IsTask
  <2> QED BY <2>4, <2>5 DEF b
<1> QED BY <1>1, <1>2, <1>3, <1>4 DEF IsTask

(* So does one that loses the password that was known to be in force.      *)
LEMMA OnlySettled ==
    ASSUME NEW r, IsTask(r), r # Idle
    PROVE  LET b == [r EXCEPT !.settled = None]
           IN  /\ IsTask(b) /\ SameFields(b, r)
               /\ b.pc = r.pc /\ b.settled = None
<1> DEFINE b == [r EXCEPT !.settled = None]
<1>1. CASE ALogin(r)
  <2>1. PICK pc, u, p, s :
           r = [kind |-> "login", pc |-> pc, user |-> u, pass |-> p, settled |-> s]
    BY <1>1 DEF ALogin
  <2>2. b = [kind |-> "login", pc |-> pc, user |-> u, pass |-> p, settled |-> None]
    BY <2>1
  <2> HIDE DEF b
  <2>3. ALogin(b)
    BY <2>2, Zenon DEF ALogin
  <2>4. SameFields(b, r) /\ b.pc = r.pc /\ b.settled = None
    BY <2>1, <2>2 DEF SameFields
  <2>5. IsTask(b)
    BY <2>3 DEF IsTask
  <2> QED BY <2>4, <2>5 DEF b
<1>2. CASE AVerification(r)
  <2>1. PICK pc, u, p, s, d, t, a, l, y :
           r = [kind |-> "verify", pc |-> pc, user |-> u, pass |-> p, settled |-> s,
                dev |-> d, second |-> t, age |-> a, late |-> l, success |-> y]
    BY <1>2 DEF AVerification
  <2>2. b = [kind |-> "verify", pc |-> pc, user |-> u, pass |-> p, settled |-> None,
             dev |-> d, second |-> t, age |-> a, late |-> l, success |-> y]
    BY <2>1
  <2> HIDE DEF b
  <2>3. AVerification(b)
    BY <2>2, Zenon DEF AVerification
  <2>4. SameFields(b, r) /\ b.pc = r.pc /\ b.settled = None
    BY <2>1, <2>2 DEF SameFields
  <2>5. IsTask(b)
    BY <2>3 DEF IsTask
  <2> QED BY <2>4, <2>5 DEF b
<1>3. CASE AnOpening(r)
  <2>1. PICK pc, u, p, s, d, t, a, l :
           r = [kind |-> "open", pc |-> pc, user |-> u, pass |-> p, settled |-> s,
                dev |-> d, second |-> t, age |-> a, late |-> l]
    BY <1>3 DEF AnOpening
  <2>2. b = [kind |-> "open", pc |-> pc, user |-> u, pass |-> p, settled |-> None,
             dev |-> d, second |-> t, age |-> a, late |-> l]
    BY <2>1
  <2> HIDE DEF b
  <2>3. AnOpening(b)
    BY <2>2, Zenon DEF AnOpening
  <2>4. SameFields(b, r) /\ b.pc = r.pc /\ b.settled = None
    BY <2>1, <2>2 DEF SameFields
  <2>5. IsTask(b)
    BY <2>3 DEF IsTask
  <2> QED BY <2>4, <2>5 DEF b
<1>4. CASE AChange(r)
  <2>1. PICK u, o, n, pc, s :
           r = [kind |-> "change", user |-> u, old |-> o, new |-> n, pc |-> pc,
                settled |-> s]
    BY <1>4 DEF AChange
  <2>2. b = [kind |-> "change", user |-> u, old |-> o, new |-> n, pc |-> pc,
             settled |-> None]
    BY <2>1
  <2> HIDE DEF b
  <2>3. AChange(b)
    BY <2>2, Zenon DEF AChange
  <2>4. SameFields(b, r) /\ b.pc = r.pc /\ b.settled = None
    BY <2>1, <2>2 DEF SameFields
  <2>5. IsTask(b)
    BY <2>3 DEF IsTask
  <2> QED BY <2>4, <2>5 DEF b
<1> QED BY <1>1, <1>2, <1>3, <1>4 DEF IsTask

-----------------------------------------------------------------------------
(* Verifications of pending authentications *)

(* A task that is about to open a session may do so, if its code is right. *)
MayOpen(r) ==
    /\ r.kind \in {"verify", "open"} =>
         /\ Is2FARequired(r.dev, Loaded) => r.second # None
         /\ r.age <= Timeout
         /\ r.late = FALSE
    /\ r.kind = "verify" => r.second \in Token

Tasks ==
    /\ DOMAIN task = Slot
    /\ \A k \in Slot : IsTask(task[k]) /\ MayOpen(task[k])

WonAreGone ==
    /\ DOMAIN pending = Token
    /\ \A t \in Token : t \in won => pending[t] = Gone

Inv == Tasks /\ WonAreGone /\ VerifiedIsSpent /\ SecondFactorKept

(* The last step opened no session.                                        *)
Quiet == last' = None \/ last'.verdict # "opened"

LEMMA SameMayOpen ==
    ASSUME NEW b, NEW r, SameFields(b, r), MayOpen(r)
    PROVE  MayOpen(b)
BY DEF SameFields, MayOpen

(* The task of one request changes.                                        *)
LEMMA OneTask ==
    ASSUME Inv, NEW k \in Slot, NEW r, IsTask(r), MayOpen(r),
           task' = [task EXCEPT ![k] = r], conf' = conf, WonAreGone', Quiet
    PROVE  Inv'
<1>1. DOMAIN task' = Slot
  BY DEF Inv, Tasks
<1>2. \A j \in Slot : task'[j] = IF j = k THEN r ELSE task[j]
  BY DEF Inv, Tasks
<1>3. Tasks'
  BY <1>1, <1>2 DEF Inv, Tasks, MayOpen, Loaded
<1>4. VerifiedIsSpent' /\ SecondFactorKept'
  BY DEF Quiet, VerifiedIsSpent, SecondFactorKept
<1>. QED
  BY <1>3, <1>4 DEF Inv

LEMMA PendingAsWere ==
    ASSUME Inv, UNCHANGED <<pending, won>>
    PROVE  WonAreGone'
BY DEF Inv, WonAreGone

LEMMA IdleTask == IsTask(Idle) /\ MayOpen(Idle)
BY DEF Idle, IsTask, MayOpen

LEMMA GoesIdle ==
    ASSUME Inv, NEW k \in Slot, task' = [task EXCEPT ![k] = Idle],
           UNCHANGED <<conf, won, pending>>, Quiet
    PROVE  Inv'
BY IdleTask, OneTask, PendingAsWere

(* A login, an opening or a change goes on.                                *)
LEMMA GoesOn ==
    ASSUME Inv, NEW k \in Slot, NEW x, task' = [task EXCEPT ![k].pc = x],
           UNCHANGED <<conf, won, pending>>, last' = None,
           task[k].kind # "none"
    PROVE  Inv'
<1>. DEFINE r == [task[k] EXCEPT !.pc = x]
<1>1. task' = [task EXCEPT ![k] = r]
  BY DEF Inv, Tasks
<1>2. IsTask(task[k]) /\ MayOpen(task[k]) /\ task[k] # Idle
  BY DEF Inv, Tasks, Idle
<1>3. IsTask(r) /\ SameFields(r, task[k])
  BY <1>2, OnlyPc
<1>. HIDE DEF r
<1>4. MayOpen(r)
  BY <1>2, <1>3, SameMayOpen
<1>. QED
  BY <1>1, <1>3, <1>4, OneTask, PendingAsWere DEF Quiet

-----------------------------------------------------------------------------
(* The steps of a login.                                                   *)

LEMMA LoginInv ==
    ASSUME Inv, NEW k \in Slot, NEW u, NEW p, Login(k, u, p)
    PROVE  Inv'
<1>. DEFINE r == [kind |-> "login", pc |-> "auth", user |-> u, pass |-> p,
                  settled |-> settled[u]]
<1>1. ALogin(r)
  BY Zenon DEF ALogin
<1>2. IsTask(r) /\ MayOpen(r)
  BY <1>1 DEF IsTask, MayOpen
<1>3. /\ task' = [task EXCEPT ![k] = r] /\ UNCHANGED <<conf, won, pending>>
      /\ last' = None
  BY DEF Login
<1>. HIDE DEF r
<1>. QED
  BY <1>2, <1>3, OneTask, PendingAsWere DEF Quiet

LEMMA AuthenticateInv ==
    ASSUME Inv, NEW k \in Slot, Authenticate(k)
    PROVE  Inv'
<1>1. /\ task[k].kind = "login" /\ UNCHANGED <<conf, won, pending>>
      /\ \/ task' = [task EXCEPT ![k].pc = "user"] /\ last' = None
         \/ task' = [task EXCEPT ![k] = Idle] /\ last'.verdict # "opened"
  BY DEF Authenticate, Decide
<1>2. CASE task' = [task EXCEPT ![k].pc = "user"] /\ last' = None
  BY <1>1, <1>2, GoesOn
<1>3. CASE task' = [task EXCEPT ![k] = Idle] /\ last'.verdict # "opened"
  BY <1>1, <1>3, GoesIdle DEF Quiet
<1>. QED
  BY <1>1, <1>2, <1>3

LEMMA OpeningForm ==
    ASSUME NEW u, NEW p, NEW s, NEW d, NEW t, NEW a, NEW l
    PROVE  IsTask(Opening(u, p, s, d, t, a, l))
<1>1. AnOpening(Opening(u, p, s, d, t, a, l))
  BY Zenon DEF AnOpening, Opening
<1>. QED
  BY <1>1 DEF IsTask

LEMMA LoadUserInv ==
    ASSUME Inv, NEW k \in Slot, LoadUser(k)
    PROVE  Inv'
<1>. PICK u : u = task[k].user
  OBVIOUS
<1>1. UNCHANGED <<conf, won>> /\ last' = None /\ DOMAIN pending = Token
  BY DEF LoadUser, Inv, WonAreGone
<1>2. CASE \E t \in Token : CreatePendingSession(k, t)
  <2>1. PICK t \in Token : CreatePendingSession(k, t)
    BY <1>2
  <2>2. /\ task' = [task EXCEPT ![k] = Idle] /\ DOMAIN pending' = Token
        /\ \A v \in Token : v # t => pending'[v] = pending[v]
    BY <1>1, <2>1 DEF CreatePendingSession
  <2>3. pending[t] # Gone
    BY <2>1, TokensAssumption DEF CreatePendingSession
  <2>4. WonAreGone'
    BY <1>1, <2>2, <2>3 DEF Inv, WonAreGone
  <2>. QED
    BY <1>1, <2>2, <2>4, IdleTask, OneTask DEF Quiet
<1>3. CASE /\ ~Is2FARequired(UserData(u), Loaded)
           /\ task' = [task EXCEPT ![k] = Opening(u, task[k].pass, task[k].settled,
                                                  UserData(u), None, 0, FALSE)]
           /\ UNCHANGED pending
  <2>. DEFINE r == Opening(u, task[k].pass, task[k].settled, UserData(u), None, 0, FALSE)
  <2>1. /\ r.kind = "open" /\ r.dev = UserData(u)
        /\ r.second = None /\ r.age = 0 /\ r.late = FALSE
    BY DEF Opening
  <2>2. IsTask(r)
    BY OpeningForm
  <2>3. task' = [task EXCEPT ![k] = r]
    BY <1>3
  <2>. HIDE DEF r
  <2>4. MayOpen(r)
    BY <1>3, <2>1, TokensAssumption DEF MayOpen
  <2>. QED
    BY <1>1, <1>3, <2>2, <2>3, <2>4, OneTask, PendingAsWere DEF Quiet
<1>. QED
  BY <1>2, <1>3 DEF LoadUser

LEMMA OpeningInv ==
    ASSUME Inv, NEW k \in Slot, BlockedByPlugin(k) \/ Create(k)
    PROVE  Inv'
<1>1. CASE BlockedByPlugin(k)
  BY <1>1, GoesIdle DEF BlockedByPlugin, Quiet
<1>2. CASE Create(k)
  BY <1>2, GoesOn DEF Create
<1>. QED
  BY <1>1, <1>2

LEMMA OpenInv ==
    ASSUME Inv, NEW k \in Slot, Open(k)
    PROVE  Inv'
<1>1. PICK r : r = task[k]
  OBVIOUS
<1>2. /\ r.kind = "open" /\ task' = [task EXCEPT ![k] = Idle]
      /\ last' = [verdict |-> "opened", pass |-> r.pass, settled |-> r.settled,
                  dev |-> r.dev, second |-> r.second # None, age |-> r.age,
                  late |-> r.late]
      /\ UNCHANGED <<conf, pending, won>>
  BY <1>1 DEF Open
<1>3. /\ DOMAIN task' = Slot
      /\ \A j \in Slot : task'[j] = IF j = k THEN Idle ELSE task[j]
  BY <1>2 DEF Inv, Tasks
<1>4. Tasks'
  BY <1>2, <1>3, IdleTask DEF Inv, Tasks, MayOpen, Loaded
<1>5. WonAreGone'
  BY <1>2, PendingAsWere
<1>6. MayOpen(r)
  BY <1>1 DEF Inv, Tasks
<1>7. VerifiedIsSpent'
  BY <1>2, <1>6 DEF VerifiedIsSpent, MayOpen
<1>8. SecondFactorKept'
  BY <1>2, <1>6 DEF SecondFactorKept, MayOpen, Loaded
<1>. QED
  BY <1>4, <1>5, <1>7, <1>8 DEF Inv

(* Who reads a pending authentication now comes before any success.        *)
LEMMA VerifySecondFactorInv ==
    ASSUME Inv, NEW k \in Slot, NEW t \in Token, NEW code,
           VerifySecondFactor(k, t, code)
    PROVE  Inv'
<1>. DEFINE p == pending[t]
            y == VerifyTotp(p.dev, code, clock)
            l == t \in won
            r == [kind |-> "verify", pc |-> "module", user |-> p.user,
                  pass |-> p.pass, settled |-> p.settled, dev |-> p.dev,
                  second |-> t, age |-> Age(t), late |-> l, success |-> y]
<1>1. /\ Live(t) /\ Age(t) <= Timeout /\ task' = [task EXCEPT ![k] = r]
      /\ UNCHANGED <<conf, won, pending>> /\ last' = None
  BY DEF VerifySecondFactor, GetPendingSession
<1>2. l = FALSE
  BY <1>1 DEF Live, Inv, WonAreGone
<1>. HIDE DEF l, y, p
<1>3. AVerification(r)
  BY Zenon DEF AVerification
<1>4. MayOpen(r)
  BY <1>1, <1>2, TokensAssumption DEF MayOpen
<1>. HIDE DEF r
<1>. QED
  BY <1>1, <1>3, <1>4, OneTask, PendingAsWere DEF Quiet, IsTask

LEMMA VerifiedInv ==
    ASSUME Inv, NEW k \in Slot, Verified(k)
    PROVE  Inv'
<1>1. PICK s : s = task[k]
  OBVIOUS
<1>2. s.kind = "verify" /\ MayOpen(s) /\ conf' = conf /\ last' = None
  BY <1>1 DEF Verified, Inv, Tasks
<1>3. CASE ~s.success
  BY <1>1, <1>2, <1>3, GoesIdle DEF Verified, Quiet
<1>4. CASE s.success
  <2>. DEFINE r == Opening(s.user, s.pass, s.settled, s.dev, s.second, s.age, s.late)
  <2>1. /\ task' = [task EXCEPT ![k] = r]
        /\ pending' = [pending EXCEPT ![s.second] = Gone]
        /\ won' = won \cup {s.second}
    BY <1>1, <1>4 DEF Verified, DeletePendingSession
  <2>2. /\ r.kind = "open" /\ r.dev = s.dev /\ r.second = s.second
        /\ r.age = s.age /\ r.late = s.late
    BY DEF Opening
  <2>3. IsTask(r)
    BY OpeningForm
  <2>. HIDE DEF r
  <2>4. MayOpen(r)
    BY <1>2, <2>2 DEF MayOpen
  <2>5. WonAreGone'
    BY <1>2, <2>1 DEF Inv, WonAreGone, MayOpen
  <2>. QED
    BY <1>2, <2>1, <2>3, <2>4, <2>5, OneTask DEF Quiet
<1>. QED
  BY <1>3, <1>4

-----------------------------------------------------------------------------
(* What leaves the tasks alone, and changes of passwords.                  *)

LEMMA TasksAlone ==
    ASSUME Inv, UNCHANGED <<conf, task>>, last' = None, WonAreGone'
    PROVE  Inv'
BY DEF Inv, Tasks, MayOpen, Loaded, VerifiedIsSpent, SecondFactorKept

LEMMA GoneInv ==
    ASSUME Inv, NEW t \in Token, ForgetExpired(t) \/ Cleanup(t)
    PROVE  Inv'
<1>1. /\ pending' = [pending EXCEPT ![t] = Gone]
      /\ UNCHANGED <<conf, won, task>> /\ last' = None
  BY DEF ForgetExpired, Cleanup, DeletePendingSession
<1>2. WonAreGone'
  BY <1>1 DEF Inv, WonAreGone
<1>. QED
  BY <1>1, <1>2, TasksAlone

LEMMA OtherStepsInv ==
    ASSUME Inv, Tick \/ Registering
    PROVE  Inv'
<1>. UNCHANGED <<conf, won, task, pending>> /\ last' = None
  BY DEF Tick, Registering, loginVars
<1>. QED
  BY TasksAlone, PendingAsWere

LEMMA ChangePasswordInv ==
    ASSUME Inv, NEW k \in Slot, NEW u, NEW old, NEW new,
           ChangePassword(k, u, old, new)
    PROVE  Inv'
<1>. DEFINE blur(r) == IF r.user = u THEN [r EXCEPT !.settled = None] ELSE r
<1>1. PICK pc, s :
         task' = [j \in Slot |->
                    IF j = k THEN [kind |-> "change", user |-> u, old |-> old,
                                   new |-> new, pc |-> pc, settled |-> s]
                    ELSE IF task[j] = Idle THEN Idle ELSE blur(task[j])]
  BY DEF ChangePassword
<1>2. /\ pending' = [t \in Token |-> IF Live(t) THEN blur(pending[t]) ELSE pending[t]]
      /\ UNCHANGED <<conf, won>> /\ last' = None
  BY DEF ChangePassword
<1>3. ASSUME NEW r, IsTask(r), MayOpen(r), r # Idle
      PROVE  IsTask(blur(r)) /\ MayOpen(blur(r))
  <2>. DEFINE b == [r EXCEPT !.settled = None]
  <2>1. IsTask(b) /\ SameFields(b, r)
    BY <1>3, OnlySettled
  <2>. HIDE DEF b
  <2>2. MayOpen(b)
    BY <1>3, <2>1, SameMayOpen
  <2>3. blur(r) = b \/ blur(r) = r
    BY DEF b
  <2>. QED
    BY <1>3, <2>1, <2>2, <2>3
<1>. HIDE DEF blur
<1>4. WonAreGone'
  BY <1>2 DEF Live, Inv, WonAreGone
<1>5. ASSUME NEW j \in Slot
      PROVE  IsTask(task'[j]) /\ MayOpen(task'[j])
  <2>1. CASE j = k
    <3>. DEFINE r == [kind |-> "change", user |-> u, old |-> old, new |-> new,
                      pc |-> pc, settled |-> s]
    <3>1. AChange(r)
      BY Zenon DEF AChange
    <3>2. IsTask(r) /\ MayOpen(r)
      BY <3>1 DEF IsTask, MayOpen
    <3>3. task'[j] = r
      BY <1>1, <2>1
    <3>. HIDE DEF r
    <3>. QED
      BY <3>2, <3>3
  <2>2. CASE j # k /\ task[j] # Idle
    <3>1. task'[j] = blur(task[j])
      BY <1>1, <2>2
    <3>. QED
      BY <1>3, <2>2, <3>1 DEF Inv, Tasks
  <2>3. CASE j # k /\ task[j] = Idle
    <3>1. task'[j] = Idle
      BY <1>1, <2>3
    <3>. QED
      BY <3>1, IdleTask
  <2>. QED
    BY <2>1, <2>2, <2>3
<1>6. DOMAIN task' = Slot
  BY <1>1
<1>7. Tasks'
  BY <1>2, <1>5, <1>6 DEF Tasks, MayOpen, Loaded
<1>. QED
  BY <1>2, <1>4, <1>7 DEF Inv, VerifiedIsSpent, SecondFactorKept

LEMMA ChangeStepsInv ==
    ASSUME Inv, NEW k \in Slot, Confirm(k) \/ Update(k) \/ Updated(k) \/ Fail(k)
    PROVE  Inv'
<1>1. UNCHANGED <<conf, won, pending>> /\ last' = None
  BY DEF Confirm, Update, Updated, Fail
<1>2. \/ task' = [task EXCEPT ![k] = Idle]
      \/ /\ task[k].kind = "change"
         /\ \E x : task' = [task EXCEPT ![k].pc = x]
  BY DEF Confirm, Update, Updated, Fail, EndChange
<1>. QED
  BY <1>1, <1>2, GoesIdle, GoesOn DEF Quiet

-----------------------------------------------------------------------------

LEMMA Invariant == Spec => []Inv
<1>1. Init => Inv
  <2>. SUFFICES ASSUME Init PROVE Inv
    OBVIOUS
  <2>1. Tasks
    BY IdleTask DEF Init, Tasks
  <2>2. WonAreGone
    BY DEF Init, WonAreGone
  <2>3. VerifiedIsSpent /\ SecondFactorKept
    BY DEF Init, VerifiedIsSpent, SecondFactorKept
  <2>. QED
    BY <2>1, <2>2, <2>3 DEF Inv
<1>2. Inv /\ [Next]_vars => Inv'
  <2>. SUFFICES ASSUME Inv, [Next]_vars PROVE Inv'
    OBVIOUS
  <2>1. ASSUME NEW k \in Slot,
               \/ \E u \in User, p \in Password : Login(k, u, p)
               \/ Authenticate(k) \/ LoadUser(k) \/ BlockedByPlugin(k)
               \/ Create(k) \/ Open(k)
               \/ \E t \in Token, c \in Code(0 .. MaxClock) :
                    VerifySecondFactor(k, t, c)
               \/ Verified(k)
        PROVE  Inv'
    BY <2>1, LoginInv, AuthenticateInv, LoadUserInv, OpeningInv, OpenInv,
       VerifySecondFactorInv, VerifiedInv
  <2>2. ASSUME NEW k \in Slot,
               \/ \E u \in User, old \in Password \cup {None}, new \in Password :
                    ChangePassword(k, u, old, new)
               \/ Confirm(k) \/ Update(k) \/ Updated(k) \/ Fail(k)
        PROVE  Inv'
    BY <2>2, ChangePasswordInv, ChangeStepsInv
  <2>3. CASE UNCHANGED vars
    BY <2>3 DEF vars, loginVars, Inv, Tasks, WonAreGone, VerifiedIsSpent,
       SecondFactorKept, MayOpen, Loaded
  <2>. QED
    BY <2>1, <2>2, <2>3, GoneInv, OtherStepsInv DEF Next, LoginNext
<1>. QED
  BY <1>1, <1>2, PTL DEF Spec

(* A verification that reads a pending authentication after another one of *)
(* it succeeded opens no session, for any number of requests and tokens,   *)
(* although the module is awaited between the reading and the deletion     *)
(* (routes/2fa.ts, getPendingSession, deletePendingSession).               *)
THEOREM VerificationsAreSpent == Spec => []VerifiedIsSpent
<1>. Inv => VerifiedIsSpent
  BY DEF Inv
<1>. QED
  BY Invariant, PTL

(* Who has a device of a loaded module gets a session only with a code, and *)
(* in time, with any devices and however late the timers are               *)
(* (is2FARequired, getPendingSession).                                     *)
THEOREM SecondFactorIsKept == Spec => []SecondFactorKept
<1>. Inv => SecondFactorKept
  BY DEF Inv
<1>. QED
  BY Invariant, PTL

-----------------------------------------------------------------------------
(* The password that is known to be in force *)

InForce(u, p) == stored[AuthColumns(conf)][u] = Kept(conf, p)

(* What opens a session was typed, and is what was known to be in force.   *)
Sure(r) == r.settled # None => r.pass = r.settled

(* The same of a pending authentication.                                   *)
Pends(q) == "settled" \in DOMAIN q /\ Sure(q)

(* What is known of a task.  A login that knows the password in force saw  *)
(* no change of it begin; a change that knows what it leaves is the only   *)
(* one of this user.                                                       *)
Knows(k) ==
    /\ task[k].kind = "login" =>
         /\ task[k].user \in User
         /\ task[k].settled # None => settled[task[k].user] = task[k].settled
         /\ task[k].pc = "user" => Sure(task[k])
    /\ task[k].kind \in {"verify", "open"} => Sure(task[k])
    /\ task[k].kind = "change" =>
         /\ conf.module = "dbi" /\ task[k].user \in User
         /\ task[k].settled # None =>
              /\ Changing(task[k].user) = {k}
              /\ task[k].settled = task[k].new
              /\ task[k].pc = "updated" => InForce(task[k].user, task[k].new)

Columnar ==
    /\ conf \in Confs /\ (conf.module = "dbi" => Starts(conf))
    /\ DOMAIN stored = Columns(conf)
    /\ \A w \in Columns(conf) : DOMAIN stored[w] = User
    /\ DOMAIN settled = User

Tracked ==
    /\ \A u \in User : settled[u] # None =>
         Changing(u) = {} /\ InForce(u, settled[u])
    /\ \A k \in Slot : Knows(k)
    /\ \A t \in Token : Live(t) => Pends(pending[t])

PassInv == Columnar /\ Tracked /\ AcknowledgedPasswordDecides

(* A stored password verifies for no other one, whatever the schemes, the  *)
(* digests and the configuration are.                                      *)
LEMMA NoOtherVerifies ==
    ASSUME NEW c, NEW x, NEW y, Verifies(c, Stored(c, x), y)
    PROVE  x = y
<1> DEFINE v == Stored(c, x)
<1>1. v.pass = x
  BY DEF Stored, HashNewPassword, HashSalted, HashBase64, HashHex, Text, Value
<1>2. Confirms(c, v, y)
  BY DEF Verifies
<1> HIDE DEF v
<1>3. CASE IsTagged(v)
  <2>1. MatchesTagged(v, y)
    BY <1>2, <1>3 DEF Confirms
  <2>2. v.pass = y
    BY <2>1 DEF MatchesTagged, Value
  <2> QED BY <1>1, <2>2
<1>4. CASE ~IsTagged(v)
  <2>1. Compare(c, v, y)
    BY <1>2, <1>4 DEF Confirms
  <2>2. v.pass = y
    BY <2>1 DEF Compare, HashHex, Text, Value
  <2> QED BY <1>1, <2>2
<1> QED BY <1>3, <1>4

(* A password that reads back as what it is verifies.                      *)
LEMMA ItselfVerifies ==
    ASSUME NEW c \in Confs, NEW x \in Storable(c)
    PROVE  Verifies(c, Stored(c, x), x)
<1> DEFINE v == Stored(c, x)
<1>0. /\ c.dynamic \in BOOLEAN
      /\ c.scheme = None \/ (c.scheme # None /\ c.scheme.salted \in BOOLEAN)
      /\ IF v.enc = "text" THEN v.tag = None /\ x \notin Braced \cup CryptLike
         ELSE v.tag = None \/ ~v.tag.salted \/ v.tag.algo # "md5"
  BY ConfsAssumption DEF Scheme, Storable
<1>1. CASE ~c.dynamic
  <2>1. v = IF c.hash # None THEN HashHex(x, c.hash) ELSE Text(x)
    BY <1>1 DEF Stored
  <2>2. v.tag = None /\ v.pass = x /\ v.enc \in {"text", "hex"}
    BY <2>1 DEF HashHex, Text, Value
  <2> HIDE DEF v
  <2>3. ~IsTagged(v) /\ (v.enc # "text" \/ x \notin CryptLike)
    BY <1>0, <2>2 DEF IsTagged
  <2>4. Compare(c, v, x)
    BY <1>1, <2>1 DEF Compare
  <2>5. Verifies(c, v, x)
    BY <2>2, <2>3, <2>4 DEF Verifies, Confirms
  <2> QED BY <2>5 DEF v
<1>2. CASE c.dynamic /\ v = Text(x)
  <2>1. v.tag = None /\ v.pass = x /\ v.enc = "text"
    BY <1>2 DEF Text, Value
  <2> HIDE DEF v
  <2>2. ~IsTagged(v) /\ x \notin CryptLike
    BY <1>0, <2>1 DEF IsTagged
  <2>3. Compare(c, v, x)
    BY <1>2 DEF Compare
  <2>4. Verifies(c, v, x)
    BY <2>1, <2>2, <2>3 DEF Verifies, Confirms
  <2> QED BY <2>4 DEF v
<1>3. CASE c.dynamic /\ v # Text(x)
  <2> DEFINE s == c.scheme
  <2>1. /\ s # None /\ s.salted \in BOOLEAN
        /\ \/ s.salted /\ v = HashSalted(x, s)
           \/ ~s.salted /\ v = HashBase64(x, s)
    BY <1>0, <1>3 DEF Stored, HashNewPassword
  <2> HIDE DEF v, s
  <2>2. v.tag = s
    BY <2>1 DEF HashSalted, HashBase64, Value
  <2>3. v.enc # "text"
    BY <1>0, <2>1, <2>2
  <2>4. \/ s.salted /\ v = Value(s, "salted", s.algo, x)
        \/ ~s.salted /\ v = Value(s, "base64", s.algo, x)
    BY <2>1, <2>3 DEF HashSalted, HashBase64, Value
  <2>5. s.salted => s.algo # "md5"
    BY <1>0, <2>1, <2>2, <2>3
  <2>6. MatchesTagged(v, x)
    BY <2>1, <2>2, <2>4, <2>5 DEF MatchesTagged
  <2>7. IsTagged(v)
    BY <2>1, <2>2 DEF IsTagged
  <2>8. Verifies(c, v, x)
    BY <2>6, <2>7 DEF Verifies, Confirms
  <2> QED BY <2>8 DEF v
<1> QED BY <1>0, <1>1, <1>2, <1>3

(* authenticate() on a column that holds the password in force.            *)
LEMMA AcceptsInForce ==
    ASSUME Columnar, NEW u \in User, NEW p, InForce(u, p), NEW q
    PROVE  /\ Accepts(u, q) => q = p
           /\ q \in Readable(conf) /\ q = p => Accepts(u, q)
<1>1. CASE conf.module = "demo"
  <2>1. Accepts(u, q) <=> Text(p) = Text(q)
    BY <1>1 DEF Accepts, DemoAccepts, InForce, Kept
  <2> QED BY <2>1 DEF Text, Value
<1>2. CASE conf.module # "demo"
  <2>1. Accepts(u, q) <=> AuthSees(conf) /\ Verifies(conf, Stored(conf, p), q)
    BY <1>2 DEF Accepts, DbiAccepts, InForce, Kept
  <2>2. Accepts(u, q) => q = p
    BY <2>1, NoOtherVerifies
  <2>3. ASSUME q \in Readable(conf), q = p PROVE Accepts(u, q)
    <3>1. AuthSees(conf) /\ q \in Storable(conf)
      BY <1>2, <2>3 DEF Readable
    <3> QED BY <2>1, <2>3, <3>1, ItselfVerifies DEF Columnar
  <2> QED BY <2>2, <2>3
<1> QED BY <1>1, <1>2

-----------------------------------------------------------------------------
(* What steps do to a task *)

(* What is known of a task that is no change, or of one that begins.       *)
Fits(r) ==
    /\ r.kind = "login" =>
         /\ r.user \in User
         /\ r.settled # None => settled[r.user] = r.settled
         /\ r.pc = "user" => Sure(r)
    /\ r.kind \in {"verify", "open"} => Sure(r)

(* A task that is no change becomes another that is none.                  *)
LEMMA NoChange ==
    ASSUME Tasks, Columnar, Tracked, NEW k \in Slot, NEW r,
           task' = [task EXCEPT ![k] = r], UNCHANGED <<conf, stored, settled>>,
           task[k].kind # "change", r.kind # "change", Fits(r),
           \A t \in Token : Live(t)' => Pends(pending'[t])
    PROVE  Columnar' /\ Tracked'
<1>1. \A j \in Slot : task'[j] = IF j = k THEN r ELSE task[j]
  BY DEF Tasks
<1>2. \A u \in User : Changing(u)' = Changing(u)
  BY <1>1 DEF Changing
<1>3. Columnar'
  BY DEF Columnar, Columns
<1>4. \A u \in User : settled'[u] # None =>
        Changing(u)' = {} /\ InForce(u, settled[u])'
  BY <1>2 DEF Tracked, InForce
<1>5. ASSUME NEW j \in Slot PROVE Knows(j)'
  <2>1. CASE j = k
    <3>1. task'[j] = r
      BY <1>1, <2>1
    <3> QED BY <3>1 DEF Knows, Fits, Sure
  <2>2. CASE j # k
    <3>1. task'[j] = task[j] /\ Knows(j)
      BY <1>1, <2>2 DEF Tracked
    <3> QED BY <1>2, <3>1 DEF Knows, Sure, InForce
  <2> QED BY <2>1, <2>2
<1>6. \A t \in Token : Live(t)' => Pends(pending[t])'
  BY DEF Pends, Sure
<1> QED BY <1>3, <1>4, <1>5, <1>6 DEF Tracked

(* The tasks and the passwords are left alone.                             *)
LEMMA LeftAlone ==
    ASSUME Columnar, Tracked, UNCHANGED <<conf, stored, settled, task>>,
           \A t \in Token : Live(t)' => Pends(pending'[t])
    PROVE  Columnar' /\ Tracked'
<1>1. \A u \in User : Changing(u)' = Changing(u)
  BY DEF Changing
<1>2. Columnar'
  BY DEF Columnar, Columns
<1>3. \A j \in Slot : Knows(j)'
  BY <1>1 DEF Tracked, Knows, Sure, InForce
<1>4. \A u \in User : settled'[u] # None =>
        Changing(u)' = {} /\ InForce(u, settled[u])'
  BY <1>1 DEF Tracked, InForce
<1>5. \A t \in Token : Live(t)' => Pends(pending[t])'
  BY DEF Pends, Sure
<1> QED BY <1>2, <1>3, <1>4, <1>5 DEF Tracked

LEMMA PendingStay ==
    ASSUME Tracked, NEW t \in Token, Live(t)', pending'[t] = pending[t]
    PROVE  Pends(pending'[t])
BY DEF Tracked, Live, Pends, Sure

(* A change ends, done or not.                                             *)
LEMMA Ends ==
    ASSUME Tasks, Columnar, Tracked, NEW k \in Slot, task[k].kind = "change",
           NEW done \in BOOLEAN, EndChange(k, done), done => task[k].pc = "updated",
           UNCHANGED <<conf, stored, pending>>
    PROVE  Columnar' /\ Tracked'
<1> DEFINE v == task[k].user
           x == IF done THEN task[k].settled ELSE None
<1>1. /\ \A j \in Slot : task'[j] = IF j = k THEN Idle ELSE task[j]
      /\ v \in User /\ DOMAIN settled = User
      /\ settled' = [settled EXCEPT ![v] = x]
  BY DEF EndChange, Tasks, Columnar, Tracked, Knows
<1>2. \A u \in User : settled'[u] = IF u = v THEN x ELSE settled[u]
  BY <1>1
<1>3. \A u \in User : Changing(u)' = Changing(u) \ {k}
  BY <1>1 DEF Changing, Idle
<1>4. k \in Changing(v)
  BY DEF Changing
<1>5. x # None => Changing(v) = {k} /\ InForce(v, x)
  BY DEF Tracked, Knows
<1> HIDE DEF x, v
<1>6. Columnar'
  BY <1>1 DEF Columnar, Columns
<1>7. ASSUME NEW u \in User, settled'[u] # None
      PROVE  Changing(u)' = {} /\ InForce(u, settled[u])'
  <2>1. CASE u = v
    BY <1>2, <1>3, <1>5, <1>7, <2>1 DEF InForce
  <2>2. CASE u # v
    <3>1. Changing(u) = {} /\ InForce(u, settled[u]) /\ settled'[u] = settled[u]
      BY <1>2, <1>7, <2>2 DEF Tracked
    <3> QED BY <1>3, <3>1 DEF InForce
  <2> QED BY <2>1, <2>2
<1>8. settled[v] = None
  BY <1>1, <1>4 DEF Tracked
<1>9. ASSUME NEW j \in Slot PROVE Knows(j)'
  <2>1. CASE j = k
    BY <1>1, <2>1 DEF Knows, Idle
  <2>2. CASE j # k
    <3>1. task'[j] = task[j] /\ Knows(j)
      BY <1>1, <2>2 DEF Tracked
    <3>2. ASSUME task[j].kind = "login", task[j].settled # None
          PROVE  settled'[task[j].user] = task[j].settled
      <4>1. task[j].user \in User /\ settled[task[j].user] = task[j].settled
        BY <3>1, <3>2 DEF Knows
      <4> QED BY <1>2, <1>8, <3>2, <4>1
    <3>3. ASSUME task[j].kind = "change", task[j].settled # None
          PROVE  Changing(task[j].user)' = {j}
      <4>1. task[j].user \in User /\ Changing(task[j].user) = {j}
        BY <3>1, <3>3 DEF Knows
      <4>2. PICK u \in User : u = task[j].user /\ u = task'[j].user
        BY <3>1, <4>1
      <4>3. Changing(u)' = {j}
        BY <1>3, <2>2, <4>1, <4>2
      <4> QED BY <4>2, <4>3
    <3> QED BY <3>1, <3>2, <3>3 DEF Knows, Sure, InForce
  <2> QED BY <2>1, <2>2
<1>10. \A t \in Token : Live(t)' => Pends(pending[t])'
  BY DEF Tracked, Pends, Sure, Live
<1> QED BY <1>6, <1>7, <1>9, <1>10 DEF Tracked

-----------------------------------------------------------------------------
(* The steps *)

LEMMA LoginPass ==
    ASSUME Inv, PassInv, NEW k \in Slot, NEW u \in User, NEW p, Login(k, u, p)
    PROVE  PassInv'
<1> DEFINE r == [kind |-> "login", pc |-> "auth", user |-> u, pass |-> p,
                 settled |-> settled[u]]
<1>1. r.kind # "change" /\ Fits(r)
  BY DEF Fits
<1>2. /\ task' = [task EXCEPT ![k] = r] /\ task[k].kind # "change"
      /\ UNCHANGED <<conf, stored, settled, pending>> /\ last' = None
  BY DEF Login, Idle
<1> HIDE DEF r
<1>3. \A t \in Token : Live(t)' => Pends(pending'[t])
  BY <1>2, PendingStay DEF PassInv
<1>4. Columnar' /\ Tracked'
  BY <1>1, <1>2, <1>3, NoChange DEF Inv, PassInv
<1> QED BY <1>2, <1>4 DEF PassInv, AcknowledgedPasswordDecides

LEMMA AuthenticatePass ==
    ASSUME Inv, PassInv, NEW k \in Slot, Authenticate(k)
    PROVE  PassInv'
<1> DEFINE u == task[k].user
           p == task[k].pass
           x == task[k].settled
<1>1. /\ IsTask(task[k]) /\ task[k].kind = "login" /\ u \in User
      /\ x # None => settled[u] = x
      /\ UNCHANGED <<conf, stored, settled, pending>>
  BY DEF Authenticate, Inv, Tasks, PassInv, Tracked, Knows
<1>2. x # None => InForce(u, x)
  BY <1>1 DEF PassInv, Tracked
<1>3. x # None => /\ Accepts(u, p) => p = x
                  /\ p \in Readable(conf) /\ p = x => Accepts(u, p)
  BY <1>1, <1>2, AcceptsInForce DEF PassInv
<1>4. \A t \in Token : Live(t)' => Pends(pending'[t])
  BY <1>1, PendingStay DEF PassInv
<1>5. CASE Accepts(u, p)
  <2> DEFINE r == [task[k] EXCEPT !.pc = "user"]
  <2>1. task' = [task EXCEPT ![k] = r] /\ last' = None
    BY <1>5 DEF Authenticate
  <2>2. /\ r.kind = "login" /\ r.user = u /\ r.pass = p /\ r.settled = x
    <3>1. task[k] # Idle
      BY <1>1 DEF Idle
    <3> QED BY <1>1, <3>1, OnlyPc DEF SameFields
  <2> HIDE DEF r
  <2>3. Fits(r)
    BY <1>1, <1>3, <1>5, <2>2 DEF Fits, Sure
  <2>4. Columnar' /\ Tracked'
    BY <1>1, <1>4, <2>1, <2>2, <2>3, NoChange DEF Inv, PassInv
  <2> QED BY <2>1, <2>4 DEF PassInv, AcknowledgedPasswordDecides
<1>6. CASE ~Accepts(u, p)
  <2>1. task' = [task EXCEPT ![k] = Idle] /\ Decide(k, "refused")
    BY <1>6 DEF Authenticate
  <2>2. Idle.kind # "change" /\ Fits(Idle)
    BY DEF Idle, Fits
  <2>3. Columnar' /\ Tracked'
    BY <1>1, <1>4, <2>1, <2>2, NoChange DEF Inv, PassInv
  <2>4. last'.verdict = "refused" /\ last'.pass = p /\ last'.settled = x
    BY <2>1 DEF Decide
  <2>5. Readable(conf)' = Readable(conf)
    BY <1>1 DEF Readable
  <2>6. AcknowledgedPasswordDecides'
    BY <1>3, <1>6, <2>4, <2>5 DEF AcknowledgedPasswordDecides
  <2> QED BY <2>3, <2>6 DEF PassInv
<1> QED BY <1>5, <1>6

LEMMA LoadUserPass ==
    ASSUME Inv, PassInv, NEW k \in Slot, LoadUser(k)
    PROVE  PassInv'
<1>1. /\ task[k].kind = "login" /\ Sure(task[k])
      /\ UNCHANGED <<conf, stored, settled>> /\ last' = None
  BY DEF LoadUser, PassInv, Tracked, Knows
<1>2. CASE \E t \in Token : CreatePendingSession(k, t)
  <2>1. PICK t \in Token : CreatePendingSession(k, t)
    BY <1>2
  <2>2. Idle.kind # "change" /\ Fits(Idle) /\ task' = [task EXCEPT ![k] = Idle]
    BY <2>1 DEF Idle, Fits, CreatePendingSession
  <2> DEFINE q == [user |-> task[k].user, pass |-> task[k].pass,
                   settled |-> task[k].settled,
                   dev |-> UserData(task[k].user), stamp |-> clock]
  <2>3. Pends(q)
    BY <1>1 DEF Pends, Sure
  <2>4. \A v \in Token : pending'[v] = IF v = t THEN q ELSE pending[v]
    BY <2>1 DEF CreatePendingSession, Inv, WonAreGone
  <2> HIDE DEF q
  <2>5. \A v \in Token : Live(v)' => Pends(pending'[v])
    BY <2>3, <2>4, PendingStay DEF PassInv
  <2>6. Columnar' /\ Tracked'
    BY <1>1, <2>2, <2>5, NoChange DEF Inv, PassInv
  <2> QED BY <1>1, <2>6 DEF PassInv, AcknowledgedPasswordDecides
<1>3. CASE ~\E t \in Token : CreatePendingSession(k, t)
  <2> DEFINE r == Opening(task[k].user, task[k].pass, task[k].settled,
                          UserData(task[k].user), None, 0, FALSE)
  <2>1. task' = [task EXCEPT ![k] = r] /\ pending' = pending
    BY <1>3 DEF LoadUser
  <2>2. r.kind = "open" /\ r.pass = task[k].pass /\ r.settled = task[k].settled
    BY DEF Opening
  <2> HIDE DEF r
  <2>3. Fits(r)
    BY <1>1, <2>2 DEF Fits, Sure
  <2>4. \A t \in Token : Live(t)' => Pends(pending'[t])
    BY <2>1, PendingStay DEF PassInv
  <2>5. Columnar' /\ Tracked'
    BY <1>1, <2>1, <2>2, <2>3, <2>4, NoChange DEF Inv, PassInv
  <2> QED BY <1>1, <2>5 DEF PassInv, AcknowledgedPasswordDecides
<1> QED BY <1>2, <1>3

(* A task that is no change ends, by an error or a hook.                   *)
LEMMA StopsPass ==
    ASSUME Inv, PassInv, NEW k \in Slot, task[k].kind # "change",
           task' = [task EXCEPT ![k] = Idle],
           UNCHANGED <<conf, stored, settled, pending>>
    PROVE  Columnar' /\ Tracked'
<1>1. Idle.kind # "change" /\ Fits(Idle)
  BY DEF Idle, Fits
<1>2. \A t \in Token : Live(t)' => Pends(pending'[t])
  BY PendingStay DEF PassInv
<1> QED BY <1>1, <1>2, NoChange DEF Inv, PassInv

LEMMA OpeningPass ==
    ASSUME Inv, PassInv, NEW k \in Slot, BlockedByPlugin(k) \/ Create(k) \/ Open(k)
    PROVE  PassInv'
<1>1. CASE BlockedByPlugin(k)
  <2>1. /\ task[k].kind = "login" /\ task' = [task EXCEPT ![k] = Idle]
        /\ UNCHANGED <<conf, stored, settled, pending>> /\ last' = None
    BY <1>1 DEF BlockedByPlugin
  <2>2. Columnar' /\ Tracked'
    BY <2>1, StopsPass
  <2> QED BY <2>1, <2>2 DEF PassInv, AcknowledgedPasswordDecides
<1>2. CASE Create(k)
  <2> DEFINE r == [task[k] EXCEPT !.pc = "info"]
  <2>1. /\ task[k].kind = "open" /\ Sure(task[k]) /\ IsTask(task[k])
        /\ task' = [task EXCEPT ![k] = r]
        /\ UNCHANGED <<conf, stored, settled, pending>> /\ last' = None
    BY <1>2 DEF Create, PassInv, Tracked, Knows, Inv, Tasks
  <2>2. task[k] # Idle
    BY <2>1 DEF Idle
  <2>3. r.kind = "open" /\ r.pass = task[k].pass /\ r.settled = task[k].settled
    BY <2>1, <2>2, OnlyPc DEF SameFields
  <2> HIDE DEF r
  <2>4. Fits(r)
    BY <2>1, <2>3 DEF Fits, Sure
  <2>5. \A v \in Token : Live(v)' => Pends(pending'[v])
    BY <2>1, PendingStay DEF PassInv
  <2>6. Columnar' /\ Tracked'
    BY <2>1, <2>3, <2>4, <2>5, NoChange DEF Inv, PassInv
  <2> QED BY <2>1, <2>6 DEF PassInv, AcknowledgedPasswordDecides
<1>3. CASE Open(k)
  <2>1. /\ task[k].kind = "open" /\ Sure(task[k])
        /\ task' = [task EXCEPT ![k] = Idle]
        /\ UNCHANGED <<conf, stored, settled, pending>>
        /\ last'.verdict = "opened" /\ last'.pass = task[k].pass
        /\ last'.settled = task[k].settled
    BY <1>3 DEF Open, PassInv, Tracked, Knows
  <2>2. Columnar' /\ Tracked'
    BY <2>1, StopsPass
  <2>3. AcknowledgedPasswordDecides'
    BY <2>1 DEF AcknowledgedPasswordDecides, Sure
  <2> QED BY <2>2, <2>3 DEF PassInv
<1> QED BY <1>1, <1>2, <1>3

LEMMA VerifyPass ==
    ASSUME Inv, PassInv, NEW k \in Slot, NEW t \in Token, NEW code,
           VerifySecondFactor(k, t, code)
    PROVE  PassInv'
<1> DEFINE q == pending[t]
           y == VerifyTotp(q.dev, code, clock)
           l == t \in won
           r == [kind |-> "verify", pc |-> "module", user |-> q.user,
                 pass |-> q.pass, settled |-> q.settled, dev |-> q.dev,
                 second |-> t, age |-> Age(t), late |-> l, success |-> y]
<1>1. /\ task[k] = Idle /\ Live(t) /\ task' = [task EXCEPT ![k] = r]
      /\ UNCHANGED <<conf, stored, settled, pending>> /\ last' = None
  BY DEF VerifySecondFactor, GetPendingSession
<1>2. Sure(q)
  BY <1>1 DEF PassInv, Tracked, Pends
<1> HIDE DEF q, y, l
<1>3. r.kind = "verify" /\ r.pass = q.pass /\ r.settled = q.settled
  OBVIOUS
<1> HIDE DEF r
<1>4. Fits(r)
  BY <1>2, <1>3 DEF Fits, Sure
<1>5. \A v \in Token : Live(v)' => Pends(pending'[v])
  BY <1>1, PendingStay DEF PassInv
<1>6. task[k].kind # "change" /\ r.kind # "change"
  BY <1>1, <1>3 DEF Idle
<1>7. Columnar' /\ Tracked'
  BY <1>1, <1>4, <1>5, <1>6, NoChange DEF Inv, PassInv
<1> QED BY <1>1, <1>7 DEF PassInv, AcknowledgedPasswordDecides

LEMMA VerifiedPass ==
    ASSUME Inv, PassInv, NEW k \in Slot, Verified(k)
    PROVE  PassInv'
<1>1. PICK s : s = task[k]
  OBVIOUS
<1>2. /\ s.kind = "verify" /\ Sure(s) /\ s.second \in Token
      /\ UNCHANGED <<conf, stored, settled>> /\ last' = None
  BY <1>1 DEF Verified, PassInv, Tracked, Knows, Inv, Tasks, MayOpen
<1>3. CASE ~s.success
  <2>1. task' = [task EXCEPT ![k] = Idle] /\ pending' = pending
    BY <1>1, <1>3 DEF Verified
  <2>2. Columnar' /\ Tracked'
    BY <1>1, <1>2, <2>1, StopsPass
  <2> QED BY <1>2, <2>2 DEF PassInv, AcknowledgedPasswordDecides
<1>4. CASE s.success
  <2> DEFINE r == Opening(s.user, s.pass, s.settled, s.dev, s.second, s.age, s.late)
  <2>1. /\ task' = [task EXCEPT ![k] = r]
        /\ pending' = [pending EXCEPT ![s.second] = Gone]
    BY <1>1, <1>4 DEF Verified, DeletePendingSession
  <2>2. r.kind = "open" /\ r.pass = s.pass /\ r.settled = s.settled
    BY DEF Opening
  <2> HIDE DEF r
  <2>3. Fits(r)
    BY <1>2, <2>2 DEF Fits, Sure
  <2>4. \A v \in Token : pending'[v] = IF v = s.second THEN Gone ELSE pending[v]
    BY <2>1 DEF Inv, WonAreGone
  <2>5. \A v \in Token : Live(v)' => Pends(pending'[v])
    BY <2>4, PendingStay DEF PassInv, Live
  <2>6. task[k].kind # "change" /\ r.kind # "change"
    BY <1>1, <1>2, <2>2
  <2>7. Columnar' /\ Tracked'
    BY <1>2, <2>1, <2>3, <2>5, <2>6, NoChange DEF Inv, PassInv
  <2> QED BY <1>2, <2>7 DEF PassInv, AcknowledgedPasswordDecides
<1> QED BY <1>3, <1>4

LEMMA PendingPass ==
    ASSUME Inv, PassInv, NEW t \in Token, ForgetExpired(t) \/ Cleanup(t)
    PROVE  PassInv'
<1>1. /\ pending' = [pending EXCEPT ![t] = Gone]
      /\ UNCHANGED <<conf, stored, settled, task>> /\ last' = None
  BY DEF ForgetExpired, Cleanup, DeletePendingSession
<1>2. \A v \in Token : pending'[v] = IF v = t THEN Gone ELSE pending[v]
  BY <1>1 DEF Inv, WonAreGone
<1>3. \A v \in Token : Live(v)' => Pends(pending'[v])
  BY <1>2, PendingStay DEF PassInv, Live
<1>4. Columnar' /\ Tracked'
  BY <1>1, <1>3, LeftAlone DEF PassInv
<1> QED BY <1>1, <1>4 DEF PassInv, AcknowledgedPasswordDecides

LEMMA OtherStepsPass ==
    ASSUME Inv, PassInv, Tick \/ Registering
    PROVE  PassInv'
<1>1. UNCHANGED <<conf, stored, settled, task, pending>> /\ last' = None
  BY DEF Tick, Registering, loginVars
<1>2. \A t \in Token : Live(t)' => Pends(pending'[t])
  BY <1>1, PendingStay DEF PassInv
<1>3. Columnar' /\ Tracked'
  BY <1>1, <1>2, LeftAlone DEF PassInv
<1> QED BY <1>1, <1>3 DEF PassInv, AcknowledgedPasswordDecides

(* A change begins: from here on nobody knows what password is in force.   *)
LEMMA ChangePass ==
    ASSUME Inv, PassInv, NEW k \in Slot, NEW u \in User, NEW old, NEW new,
           ChangePassword(k, u, old, new)
    PROVE  PassInv'
<1> DEFINE blur(r) == IF r.user = u THEN [r EXCEPT !.settled = None] ELSE r
           x == IF Changing(u) = {} THEN new ELSE None
<1>1. PICK pc \in {"confirm", "update"} :
         task' = [j \in Slot |->
                    IF j = k THEN [kind |-> "change", user |-> u, old |-> old,
                                   new |-> new, pc |-> pc, settled |-> x]
                    ELSE IF task[j] = Idle THEN Idle ELSE blur(task[j])]
  BY DEF ChangePassword
<1>2. /\ conf.module = "dbi" /\ task[k] = Idle
      /\ settled' = [settled EXCEPT ![u] = None]
      /\ pending' = [t \in Token |-> IF Live(t) THEN blur(pending[t]) ELSE pending[t]]
      /\ UNCHANGED <<conf, stored>> /\ last' = None
  BY DEF ChangePassword, Unsettle
<1>3. \A v \in User : settled'[v] = IF v = u THEN None ELSE settled[v]
  BY <1>2 DEF PassInv, Columnar
<1>4. /\ task'[k].kind = "change" /\ task'[k].user = u /\ task'[k].new = new
      /\ task'[k].pc # "updated" /\ task'[k].settled = x
  BY <1>1
<1>5. ASSUME NEW j \in Slot, j # k
      PROVE  /\ task[j] = Idle => task'[j] = Idle
             /\ task[j].user # u => task'[j] = task[j]
             /\ task[j] # Idle /\ task[j].user = u =>
                  /\ task'[j].kind = task[j].kind /\ task'[j].user = u
                  /\ task'[j].settled = None
  <2>1. IsTask(task[j])
    BY DEF Inv, Tasks
  <2>2. task'[j] = IF task[j] = Idle THEN Idle ELSE blur(task[j])
    BY <1>1, <1>5
  <2>3. CASE task[j] # Idle /\ task[j].user = u
    <3>1. task'[j] = [task[j] EXCEPT !.settled = None]
      BY <2>2, <2>3
    <3> QED BY <2>1, <2>3, <3>1, OnlySettled DEF SameFields
  <2> QED BY <2>2, <2>3
<1>10. ASSUME NEW t \in Token, Live(t)' PROVE Pends(pending[t])'
  <2> DEFINE q == pending[t]
             b == [q EXCEPT !.settled = None]
  <2>1. pending'[t] = IF Live(t) THEN blur(q) ELSE q
    BY <1>2
  <2>2. CASE ~Live(t)
    BY <1>10, <2>1, <2>2 DEF Live
  <2>3. CASE Live(t) /\ q.user # u
    BY <2>1, <2>3 DEF PassInv, Tracked, Pends, Sure
  <2>4. CASE Live(t) /\ q.user = u
    <3>1. pending'[t] = b /\ "settled" \in DOMAIN q
      BY <2>1, <2>4 DEF PassInv, Tracked, Pends
    <3>2. DOMAIN b = DOMAIN q /\ b.settled = None
      BY <3>1
    <3> HIDE DEF q, b
    <3> QED BY <3>1, <3>2 DEF Pends, Sure
  <2> QED BY <2>2, <2>3, <2>4
<1> HIDE DEF x, blur
<1>6. \A v \in User : Changing(v)' = IF v = u THEN Changing(u) \cup {k} ELSE Changing(v)
  <2>1. \A j \in Slot : j # k => task'[j].kind = task[j].kind
    BY <1>5
  <2>2. \A j \in Slot : j # k /\ task[j].kind = "change" => task'[j].user = task[j].user
    BY <1>5 DEF Idle
  <2>3. task[k].kind # "change"
    BY <1>2 DEF Idle
  <2> QED BY <1>4, <2>1, <2>2, <2>3 DEF Changing
<1>7. Columnar'
  <2>1. DOMAIN settled' = User
    BY <1>2 DEF PassInv, Columnar
  <2> QED BY <1>2, <2>1 DEF PassInv, Columnar, Columns
<1>8. \A v \in User : settled'[v] # None =>
        Changing(v)' = {} /\ InForce(v, settled[v])'
  BY <1>2, <1>3, <1>6 DEF PassInv, Tracked, InForce
<1>9. ASSUME NEW j \in Slot PROVE Knows(j)'
  <2>1. CASE j = k
    <3>1. x # None => Changing(u)' = {k} /\ x = new
      BY <1>6 DEF x
    <3>2. PICK v \in User : v = u /\ v = task'[k].user
      BY <1>4
    <3>3. task'[k].settled # None => Changing(v)' = {k}
      BY <1>4, <3>1, <3>2
    <3> QED BY <1>2, <1>4, <2>1, <3>1, <3>2, <3>3 DEF Knows
  <2>2. CASE j # k /\ task[j] = Idle
    BY <1>5, <2>2 DEF Knows, Idle
  <2>3. CASE j # k /\ task[j] # Idle /\ task[j].user = u
    BY <1>2, <1>5, <2>3 DEF Knows, Sure, PassInv, Tracked
  <2>4. CASE j # k /\ task[j].user # u
    <3>1. task'[j] = task[j] /\ Knows(j)
      BY <1>5, <2>4 DEF PassInv, Tracked
    <3>2. ASSUME task[j].kind = "login" PROVE Knows(j)'
      <4>1. task[j].user \in User /\ settled'[task[j].user] = settled[task[j].user]
        BY <1>3, <2>4, <3>1, <3>2 DEF Knows
      <4> QED BY <3>1, <3>2, <4>1 DEF Knows, Sure
    <3>3. ASSUME task[j].kind = "change" PROVE Knows(j)'
      <4>1. PICK v \in User : v = task[j].user /\ v = task'[j].user
        BY <3>1, <3>3 DEF Knows
      <4>2. Changing(v)' = Changing(v)
        BY <1>6, <2>4, <4>1
      <4> QED BY <1>2, <3>1, <3>3, <4>1, <4>2 DEF Knows, InForce
    <3>4. ASSUME task[j].kind \notin {"login", "change"} PROVE Knows(j)'
      BY <3>1, <3>4 DEF Knows, Sure
    <3> QED BY <3>2, <3>3, <3>4
  <2> QED BY <2>1, <2>2, <2>3, <2>4
<1> QED BY <1>2, <1>7, <1>8, <1>9, <1>10 DEF PassInv, Tracked, AcknowledgedPasswordDecides

(* The update is run: the column holds the new password.                   *)
LEMMA UpdatePass ==
    ASSUME Inv, PassInv, NEW k \in Slot, Update(k)
    PROVE  PassInv'
<1> DEFINE u == task[k].user
           w == PasswordColumns(conf)
           e == Stored(conf, task[k].new)
           r == [task[k] EXCEPT !.pc = "updated"]
<1>1. /\ task[k].kind = "change" /\ IsTask(task[k]) /\ task[k] # Idle
      /\ conf.module = "dbi" /\ u \in User
      /\ task' = [task EXCEPT ![k] = r]
      /\ stored' = [stored EXCEPT ![w][u] = e]
      /\ UNCHANGED <<conf, settled, pending>> /\ last' = None
  BY DEF Update, Inv, Tasks, PassInv, Tracked, Knows, Idle
<1>2. /\ r.kind = "change" /\ r.user = u /\ r.settled = task[k].settled
      /\ r.new = task[k].new
  BY <1>1, OnlyPc DEF SameFields
<1>3. AuthColumns(conf) = w /\ w \in Columns(conf)
  BY <1>1 DEF PassInv, Columnar, Starts, AuthStarts, AuthColumns, PasswordColumns,
     Columns, Or
<1> HIDE DEF r, w
<1>4. \A j \in Slot : task'[j] = IF j = k THEN r ELSE task[j]
  BY <1>1 DEF Inv, Tasks
<1>5. \A v \in User : Changing(v)' = Changing(v)
  BY <1>1, <1>2, <1>4 DEF Changing
<1>6. k \in Changing(u) /\ settled[u] = None
  <2>1. k \in Changing(u)
    BY <1>1 DEF Changing
  <2> QED BY <1>1, <2>1 DEF PassInv, Tracked
<1>7. Columnar'
  <2>1. /\ DOMAIN stored' = DOMAIN stored
        /\ \A x \in DOMAIN stored : DOMAIN stored'[x] = DOMAIN stored[x]
    BY <1>1
  <2> QED BY <1>1, <2>1 DEF PassInv, Columnar, Columns
<1>8. /\ stored'[w][u] = e
      /\ \A v \in User : v # u => stored'[w][v] = stored[w][v]
  <2>1. w \in DOMAIN stored /\ DOMAIN stored[w] = User
    BY <1>3 DEF PassInv, Columnar
  <2> HIDE DEF e, u
  <2>2. stored'[w] = [stored[w] EXCEPT ![u] = e]
    BY <1>1, <2>1
  <2> QED BY <1>1, <2>1, <2>2
<1>9. e = Kept(conf, task[k].new)
  BY <1>1 DEF Kept
<1> HIDE DEF e
<1>10. \A v \in User : settled'[v] # None =>
         Changing(v)' = {} /\ InForce(v, settled[v])'
  <2> SUFFICES ASSUME NEW v \in User, settled'[v] # None
               PROVE  Changing(v)' = {} /\ InForce(v, settled[v])'
    OBVIOUS
  <2>1. v # u /\ Changing(v) = {} /\ InForce(v, settled[v])
    BY <1>1, <1>6 DEF PassInv, Tracked
  <2> QED BY <1>1, <1>3, <1>5, <1>8, <2>1 DEF InForce
<1>11. ASSUME NEW j \in Slot PROVE Knows(j)'
  <2>0. Knows(j)
    BY DEF PassInv, Tracked
  <2>1. CASE j = k
    <3>1. task'[j] = r
      BY <1>4, <2>1
    <3>2. PICK v \in User : v = u /\ v = task'[j].user
      BY <1>1, <1>2, <3>1
    <3>3. InForce(v, task[k].new)'
      <4>1. stored'[w][v] = Kept(conf, task'[k].new)
        BY <1>2, <1>8, <1>9, <2>1, <3>1, <3>2
      <4> QED BY <1>1, <1>3, <4>1 DEF InForce
    <3>4. task'[j].settled # None =>
            Changing(v)' = {k} /\ task'[j].settled = task'[j].new
      BY <1>2, <1>5, <2>0, <2>1, <3>1, <3>2, <1>1 DEF Knows
    <3> QED BY <1>1, <1>2, <2>1, <3>1, <3>2, <3>3, <3>4 DEF Knows
  <2>2. CASE j # k
    <3>1. task'[j] = task[j]
      BY <1>4, <2>2
    <3>2. ASSUME task[j].kind = "change", task[j].settled # None
          PROVE  /\ Changing(task[j].user)' = {j}
                 /\ task[j].pc = "updated" => InForce(task[j].user, task[j].new)'
      <4>1. PICK v \in User : v = task[j].user /\ v = task'[j].user
        BY <2>0, <3>1, <3>2 DEF Knows
      <4>2. Changing(v) = {j} /\ (task[j].pc = "updated" => InForce(v, task[j].new))
        BY <2>0, <3>2, <4>1 DEF Knows
      <4>3. v # u
        BY <1>6, <2>2, <4>2
      <4>4. task[j].pc = "updated" => stored'[w][v] = Kept(conf, task[j].new)
        BY <1>3, <1>8, <4>2, <4>3 DEF InForce
      <4>5. task[j].pc = "updated" => InForce(v, task[j].new)'
        BY <1>1, <1>3, <3>1, <4>4 DEF InForce
      <4> QED BY <1>5, <4>1, <4>2, <4>5
    <3> QED BY <1>1, <2>0, <3>1, <3>2 DEF Knows, Sure
  <2> QED BY <2>1, <2>2
<1>12. \A t \in Token : Live(t)' => Pends(pending'[t])
  BY <1>1, PendingStay DEF PassInv
<1>13. \A t \in Token : Live(t)' => Pends(pending[t])'
  BY <1>12 DEF Pends, Sure
<1> QED BY <1>1, <1>7, <1>10, <1>11, <1>13
        DEF PassInv, Tracked, AcknowledgedPasswordDecides

LEMMA ConfirmPass ==
    ASSUME Inv, PassInv, NEW k \in Slot, Confirm(k)
    PROVE  PassInv'
<1>1. /\ task[k].kind = "change" /\ task[k].pc = "confirm" /\ last' = None
      /\ UNCHANGED <<conf, stored, pending>>
  BY DEF Confirm
<1>2. CASE EndChange(k, FALSE)
  <2>1. Columnar' /\ Tracked'
    BY <1>1, <1>2, Ends DEF Inv, PassInv
  <2> QED BY <1>1, <2>1 DEF PassInv, AcknowledgedPasswordDecides
<1>3. CASE ~EndChange(k, FALSE)
  <2> DEFINE r == [task[k] EXCEPT !.pc = "update"]
  <2>1. task' = [task EXCEPT ![k] = r] /\ settled' = settled
    BY <1>3 DEF Confirm
  <2>2. IsTask(task[k]) /\ task[k] # Idle
    BY <1>1 DEF Inv, Tasks, Idle
  <2>3. /\ r.kind = "change" /\ r.pc = "update" /\ r.user = task[k].user
        /\ r.settled = task[k].settled /\ r.new = task[k].new
    BY <1>1, <2>2, OnlyPc DEF SameFields
  <2> HIDE DEF r
  <2>4. \A j \in Slot : task'[j] = IF j = k THEN r ELSE task[j]
    BY <2>1 DEF Inv, Tasks
  <2>5. \A u \in User : Changing(u)' = Changing(u)
    BY <1>1, <2>3, <2>4 DEF Changing
  <2>6. Columnar'
    BY <1>1, <2>1 DEF PassInv, Columnar, Columns
  <2>7. \A u \in User : settled'[u] # None =>
          Changing(u)' = {} /\ InForce(u, settled[u])'
    BY <1>1, <2>1, <2>5 DEF PassInv, Tracked, InForce
  <2>8. ASSUME NEW j \in Slot PROVE Knows(j)'
    <3>1. Knows(j)
      BY DEF PassInv, Tracked
    <3>2. CASE j = k
      <4>1. task'[j] = r
        BY <2>4, <3>2
      <4> QED BY <1>1, <2>1, <2>3, <2>5, <3>1, <3>2, <4>1 DEF Knows
    <3>3. CASE j # k
      <4>1. task'[j] = task[j]
        BY <2>4, <3>3
      <4> QED BY <1>1, <2>1, <2>5, <3>1, <4>1 DEF Knows, Sure, InForce
    <3> QED BY <3>2, <3>3
  <2>9. \A t \in Token : Live(t)' => Pends(pending[t])'
    BY <1>1, PendingStay DEF PassInv, Pends, Sure
  <2> QED BY <1>1, <2>6, <2>7, <2>8, <2>9
          DEF PassInv, Tracked, AcknowledgedPasswordDecides
<1> QED BY <1>2, <1>3

LEMMA UpdatedPass ==
    ASSUME Inv, PassInv, NEW k \in Slot, Updated(k) \/ Fail(k)
    PROVE  PassInv'
<1>1. UNCHANGED <<conf, stored, pending>> /\ last' = None
  BY DEF Updated, Fail
<1>2. \/ task[k].kind = "change" /\ task[k].pc = "updated" /\ EndChange(k, TRUE)
      \/ task[k].kind = "change" /\ EndChange(k, FALSE)
      \/ /\ task[k].kind # "change" /\ task' = [task EXCEPT ![k] = Idle]
         /\ settled' = settled
  BY DEF Updated, Fail
<1>3. Columnar' /\ Tracked'
  BY <1>1, <1>2, Ends, StopsPass DEF Inv, PassInv
<1> QED BY <1>1, <1>3 DEF PassInv, AcknowledgedPasswordDecides

LEMMA PassInvariant == Spec => [](Inv /\ PassInv)
<1>1. Init => PassInv
  <2> SUFFICES ASSUME Init PROVE PassInv
    OBVIOUS
  <2>1. Columnar
    BY DEF Init, Columnar
  <2>2. Tracked
    <3>1. PICK p \in Password :
            /\ stored = [w \in Columns(conf) |-> [u \in User |-> Kept(conf, p)]]
            /\ settled = [u \in User |-> p]
      BY DEF Init
    <3>2. AuthColumns(conf) \in Columns(conf)
      BY DEF Columns
    <3>3. \A u \in User : Changing(u) = {} /\ InForce(u, settled[u])
      BY <3>1, <3>2 DEF Init, Changing, Idle, InForce
    <3>4. \A k \in Slot : Knows(k)
      BY DEF Init, Knows, Idle
    <3>5. \A t \in Token : ~Live(t)
      BY DEF Init, Live
    <3> QED BY <3>3, <3>4, <3>5 DEF Tracked
  <2>3. AcknowledgedPasswordDecides
    BY DEF Init, AcknowledgedPasswordDecides
  <2> QED BY <2>1, <2>2, <2>3 DEF PassInv
<1>2. Inv /\ PassInv /\ [Next]_vars => PassInv'
  <2> SUFFICES ASSUME Inv, PassInv, [Next]_vars PROVE PassInv'
    OBVIOUS
  <2>1. ASSUME NEW k \in Slot,
               \/ \E u \in User, p \in Password : Login(k, u, p)
               \/ Authenticate(k) \/ LoadUser(k) \/ BlockedByPlugin(k)
               \/ Create(k) \/ Open(k)
               \/ \E t \in Token, c \in Code(0 .. MaxClock) :
                    VerifySecondFactor(k, t, c)
               \/ Verified(k)
        PROVE  PassInv'
    BY <2>1, LoginPass, AuthenticatePass, LoadUserPass, OpeningPass, VerifyPass,
       VerifiedPass
  <2>2. ASSUME NEW k \in Slot,
               \/ \E u \in User, old \in Password \cup {None}, new \in Password :
                    ChangePassword(k, u, old, new)
               \/ Confirm(k) \/ Update(k) \/ Updated(k) \/ Fail(k)
        PROVE  PassInv'
    BY <2>2, ChangePass, ConfirmPass, UpdatePass, UpdatedPass
  <2>3. CASE UNCHANGED vars
    <3>1. UNCHANGED <<conf, stored, settled, task, pending, last>>
      BY <2>3 DEF vars, loginVars
    <3>2. \A t \in Token : Live(t)' => Pends(pending'[t])
      BY <3>1, PendingStay DEF PassInv
    <3>3. Columnar' /\ Tracked'
      BY <3>1, <3>2, LeftAlone DEF PassInv
    <3> QED BY <3>1, <3>3 DEF PassInv, AcknowledgedPasswordDecides, Readable
  <2> QED BY <2>1, <2>2, <2>3, PendingPass, OtherStepsPass DEF Next, LoginNext
<1> QED BY <1>1, <1>2, Invariant, PTL DEF Spec

(* The password that was acknowledged last decides, for any number of      *)
(* users and overlapping requests, with any configuration that starts: a   *)
(* login with another one opens no session, and one with it is not refused *)
(* where authenticate() recognises it (modifyPassword, authenticate).      *)
THEOREM AcknowledgedDecides == Spec => []AcknowledgedPasswordDecides
<1> PassInv => AcknowledgedPasswordDecides
  BY DEF PassInv
<1> QED BY PassInvariant, PTL

-----------------------------------------------------------------------------
(* The lists of devices *)

(* Induction on a set of numbers.                                          *)
LEMMA AllNumbers ==
    ASSUME NEW S, 0 \in S, \A n \in Nat : n \in S => n + 1 \in S
    PROVE  \A n \in Nat : n \in S
<1> SUFFICES ASSUME NEW b \in Nat, b \notin S PROVE FALSE
  OBVIOUS
<1> DEFINE R == StrictSubsetOrdering(Nat)
           F == FiniteSubsetsOf(Nat)
           T == {1..n : n \in Nat \ S}
<1>1. IsWellFoundedOn(R, F)
  BY FS_StrictSubsetOrderingWellFounded
<1>2. \A n \in Nat : 1..n \in F
  BY FS_Interval DEF FiniteSubsetsOf
<1>3. T \subseteq F /\ T # {}
  BY <1>2
<1> HIDE DEF F, R
<1>4. PICK x \in T : \A y \in T : ~(<<y, x>> \in R)
  <2> HIDE DEF T
  <2> QED BY <1>1, <1>3, WFMin
<1>5. PICK n \in Nat \ S : x = 1..n
  BY <1>4
<1>6. n # 0 /\ n - 1 \in Nat \ S
  BY <1>5
<1>7. 1..(n - 1) \in T
  BY <1>6
<1>8. <<1..(n - 1), 1..n>> \in R
  <2>1. 1..(n - 1) \in SUBSET Nat /\ 1..n \in SUBSET Nat
    BY <1>5, <1>6
  <2>2. 1..(n - 1) \subseteq 1..n /\ 1..(n - 1) # 1..n
    BY <1>5, <1>6
  <2> QED BY <2>1, <2>2 DEF R, StrictSubsetOrdering
<1> QED BY <1>4, <1>5, <1>7, <1>8

Grows(f, n) == \A i, j \in 1..n : i < j => f[i] < f[j]

Ordered(m) ==
    \A K \in SUBSET (1..m) :
      \E f \in [1..Cardinality(K) -> K] : Grows(f, Cardinality(K))

(* The positions of a list can be put in their order.                      *)
LEMMA Enumerated ==
    ASSUME NEW n \in Nat, NEW K \in SUBSET (1..n)
    PROVE  \E f \in [1..Cardinality(K) -> K] : Grows(f, Cardinality(K))
<1> DEFINE S == {m \in Nat : Ordered(m)}
<1>1. Ordered(0)
  <2> SUFFICES ASSUME NEW J \in SUBSET (1..0)
               PROVE  \E f \in [1..Cardinality(J) -> J] : Grows(f, Cardinality(J))
    BY DEF Ordered
  <2>1. J = {} /\ Cardinality(J) = 0
    <3>1. J = {}
      OBVIOUS
    <3> QED BY <3>1, FS_EmptySet
  <2>2. [i \in 1..0 |-> i] \in [1..Cardinality(J) -> J]
    BY <2>1
  <2> QED BY <2>1, <2>2 DEF Grows
<1>2. ASSUME NEW m \in Nat, Ordered(m) PROVE Ordered(m + 1)
  <2> SUFFICES ASSUME NEW J \in SUBSET (1..(m + 1))
               PROVE  \E f \in [1..Cardinality(J) -> J] : Grows(f, Cardinality(J))
    BY DEF Ordered
  <2>1. CASE m + 1 \notin J
    <3>1. J \in SUBSET (1..m)
      BY <2>1
    <3> QED BY <1>2, <3>1 DEF Ordered
  <2>2. CASE m + 1 \in J
    <3> DEFINE L == J \ {m + 1}
               c == Cardinality(L)
    <3>1. L \in SUBSET (1..m) /\ L \cup {m + 1} = J
      BY <2>2
    <3>2. IsFiniteSet(L)
      <4>1. IsFiniteSet(1..m)
        BY FS_Interval
      <4> QED BY <3>1, <4>1, FS_Subset
    <3>3. c \in Nat /\ Cardinality(J) = c + 1
      BY <3>1, <3>2, FS_CardinalityType, FS_AddElement
    <3>4. PICK f \in [1..c -> L] : Grows(f, c)
      BY <1>2, <3>1 DEF Ordered
    <3> HIDE DEF c
    <3> DEFINE g == [i \in 1..(c + 1) |-> IF i = c + 1 THEN m + 1 ELSE f[i]]
    <3>5. \A i \in 1..(c + 1) : i = c + 1 \/ i \in 1..c
      BY <3>3
    <3>6. g \in [1..(c + 1) -> J]
      BY <2>2, <3>4, <3>5
    <3>7. Grows(g, c + 1)
      <4> SUFFICES ASSUME NEW i \in 1..(c + 1), NEW j \in 1..(c + 1), i < j
                   PROVE  g[i] < g[j]
        BY DEF Grows
      <4>1. i \in 1..c /\ g[i] = f[i] /\ f[i] \in 1..m
        <5>1. i \in 1..c /\ i # c + 1
          BY <3>3
        <5>2. f[i] \in L
          BY <3>4, <5>1
        <5> QED BY <3>1, <5>1, <5>2
      <4>2. CASE j = c + 1
        BY <4>1, <4>2
      <4>3. CASE j # c + 1
        <5>1. j \in 1..c /\ g[j] = f[j]
          BY <3>3, <4>3
        <5> QED BY <3>4, <4>1, <5>1 DEF Grows
      <4> QED BY <4>2, <4>3
    <3> HIDE DEF g
    <3> QED BY <3>3, <3>6, <3>7
  <2> QED BY <2>1, <2>2
<1>3. 0 \in S /\ \A m \in Nat : m \in S => m + 1 \in S
  BY <1>1, <1>2
<1> HIDE DEF S
<1>4. n \in S
  BY <1>3, AllNumbers
<1> QED BY <1>4 DEF S, Ordered

(* What is filtered out of a list: the elements at these positions, in the *)
(* order of the list.                                                      *)
LEMMA FilteredList ==
    ASSUME NEW D, NEW all \in Seq(D), NEW at \in SUBSET DOMAIN all
    PROVE  LET q == Filtered(all, at)
           IN  /\ q \in Seq(D) /\ Len(q) = Cardinality(at)
               /\ \E f \in [DOMAIN q -> at] :
                    /\ Grows(f, Len(q))
                    /\ \A i \in DOMAIN q : q[i] = all[f[i]]
<1> DEFINE c == Cardinality(at)
           order == CHOOSE f \in [1..c -> at] :
                      \A i, j \in 1..c : i < j => f[i] < f[j]
           q == Filtered(all, at)
<1>1. Len(all) \in Nat /\ DOMAIN all = 1..Len(all)
  OBVIOUS
<1>2. IsFiniteSet(at) /\ c \in Nat
  <2>1. IsFiniteSet(1..Len(all))
    BY <1>1, FS_Interval
  <2> QED BY <1>1, <2>1, FS_Subset, FS_CardinalityType
<1>3. \E f \in [1..c -> at] : \A i, j \in 1..c : i < j => f[i] < f[j]
  BY <1>1, Enumerated DEF Grows
<1>4. order \in [1..c -> at] /\ Grows(order, c)
  BY <1>3 DEF Grows
<1>5. q = [i \in 1..c |-> all[order[i]]]
  BY DEF Filtered
<1> HIDE DEF c, order
<1>6. \A i \in 1..c : all[order[i]] \in D
  BY <1>1, <1>4
<1>7. q \in Seq(D) /\ Len(q) = c /\ DOMAIN q = 1..c
  BY <1>2, <1>5, <1>6
<1>8. \A i \in DOMAIN q : q[i] = all[order[i]]
  BY <1>5
<1> HIDE DEF q
<1> QED BY <1>4, <1>7, <1>8 DEF c, q

(* A device d that was acknowledged is in the list.                        *)
Has(all, d) ==
    \E n \in DOMAIN all : Same(all[n], "TOTP", d.epoch) /\ all[n].secret = d.secret

(* A list is no text that does not parse.                                  *)
LEMMA ParsesItself ==
    ASSUME NEW all \in Seq(Device)
    PROVE  ParseDevices(all) = all
BY TextsAssumption DEF ParseDevices

LEMMA CountsDevices ==
    ASSUME NEW text, ParseDevices(text) \in Seq(Device), NEW type
    PROVE  Len(ByType(text, type)) \in Nat
<1> DEFINE all == ParseDevices(text)
           at == {n \in DOMAIN all : all[n].type = type}
           q == Filtered(all, at)
<1>1. at \in SUBSET DOMAIN all
  OBVIOUS
<1>2. ByType(text, type) = q
  BY DEF ByType
<1> HIDE DEF all, at
<1>3. q \in Seq(Device)
  BY <1>1, FilteredList DEF all
<1> HIDE DEF q
<1> QED BY <1>2, <1>3

LEMMA AddKeeps ==
    ASSUME NEW text, ParseDevices(text) \in Seq(Device), NEW x \in Device
    PROVE  LET q == ParseDevices(AddDevice(text, x))
               all == ParseDevices(text)
           IN  /\ q \in Seq(Device) /\ q[Len(all) + 1] = x
               /\ Len(all) + 1 \in DOMAIN q
               /\ \A n \in DOMAIN all : n \in DOMAIN q /\ q[n] = all[n]
<1> DEFINE all == ParseDevices(text)
           r == Append(all, x)
           q == ParseDevices(AddDevice(text, x))
<1>1. AddDevice(text, x) = r
  BY DEF AddDevice
<1> HIDE DEF all
<1>2. /\ r \in Seq(Device) /\ r[Len(all) + 1] = x /\ Len(all) + 1 \in DOMAIN r
      /\ \A n \in DOMAIN all : n \in DOMAIN r /\ r[n] = all[n]
  BY DEF all
<1> HIDE DEF r
<1>3. q = r
  BY <1>1, <1>2, ParsesItself
<1> HIDE DEF q
<1> QED BY <1>2, <1>3 DEF all, q

(* What is left of a list has every device of another second.              *)
LEMMA RemoveKeeps ==
    ASSUME NEW text, ParseDevices(text) \in Seq(Device), NEW epoch
    PROVE  LET q == ParseDevices(RemoveDevice(text, "TOTP", epoch))
           IN  /\ q \in Seq(Device)
               /\ \A d : d.epoch # epoch /\ Has(ParseDevices(text), d) => Has(q, d)
<1> DEFINE all == ParseDevices(text)
           kept == {n \in DOMAIN all : ~Same(all[n], "TOTP", epoch)}
           r == Filtered(all, kept)
           q == ParseDevices(RemoveDevice(text, "TOTP", epoch))
<1>1. RemoveDevice(text, "TOTP", epoch) = IF kept = DOMAIN all THEN text ELSE r
  BY DEF RemoveDevice
<1>2. kept \in SUBSET DOMAIN all
  OBVIOUS
<1>3. \A n \in DOMAIN all : n \notin kept => all[n].epoch = epoch
  BY DEF Same
<1> HIDE DEF all, kept
<1>4. /\ r \in Seq(Device) /\ Len(r) = Cardinality(kept)
      /\ all \in Seq(Device) /\ DOMAIN all = 1..Len(all) /\ Len(all) \in Nat
  BY <1>2, FilteredList DEF all
<1>5. PICK f \in [DOMAIN r -> kept] :
         Grows(f, Len(r)) /\ \A i \in DOMAIN r : r[i] = all[f[i]]
  BY <1>2, FilteredList DEF all
<1> HIDE DEF r
<1>6. DOMAIN r = 1..Len(r) /\ Len(r) \in Nat
  BY <1>4
<1>7. f \in Injection(DOMAIN r, kept)
  <2>1. \A i \in DOMAIN r : f[i] \in Int
    BY <1>2, <1>4, <1>5
  <2>2. \A i, j \in DOMAIN r : f[i] = f[j] => i = j
    BY <1>5, <1>6, <2>1 DEF Grows
  <2> QED BY <1>5, <2>2 DEF Injection, IsInjective
<1>8. f \in Surjection(DOMAIN r, kept)
  <2>1. IsFiniteSet(1..Len(all))
    BY <1>4, FS_Interval
  <2>2. IsFiniteSet(kept)
    BY <1>2, <1>4, <2>1, FS_Subset
  <2>3. Cardinality(DOMAIN r) = Cardinality(kept)
    <3> PICK c \in Nat : c = Len(r)
      BY <1>6
    <3>1. Cardinality(1..c) = IF 1 > c THEN 0 ELSE c - 1 + 1
      <4>1. 1 \in Int /\ c \in Int
        OBVIOUS
      <4> QED BY <4>1, FS_Interval, Zenon
    <3>2. Cardinality(1..c) = c
      BY <3>1
    <3> QED BY <1>4, <1>6, <3>2
  <2> QED BY <1>7, <2>2, <2>3, FS_Injection
<1>9. ASSUME NEW d, d.epoch # epoch, Has(all, d)
      PROVE  Has(r, d)
  <2>1. PICK n \in DOMAIN all : Same(all[n], "TOTP", d.epoch) /\ all[n].secret = d.secret
    BY <1>9 DEF Has
  <2>2. n \in kept
    BY <1>3, <1>9, <2>1 DEF Same
  <2>3. PICK i \in DOMAIN r : f[i] = n
    BY <1>8, <2>2 DEF Surjection
  <2> QED BY <1>5, <2>1, <2>3 DEF Has
<1>10. q \in {all, r}
  BY <1>1, <1>4, ParsesItself DEF all
<1> HIDE DEF q
<1>11. q \in Seq(Device) /\ \A d : d.epoch # epoch /\ Has(all, d) => Has(q, d)
  BY <1>4, <1>9, <1>10
<1> QED BY <1>11 DEF q, all

LEMMA UpdateKeeps ==
    ASSUME NEW text, ParseDevices(text) \in Seq(Device), NEW epoch
    PROVE  LET q == ParseDevices(UpdateDevice(text, "TOTP", epoch, Given))
           IN  q \in Seq(Device) /\ \A d : Has(ParseDevices(text), d) => Has(q, d)
<1> DEFINE all == ParseDevices(text)
           at == {n \in DOMAIN all : Same(all[n], "TOTP", epoch)}
           x == CHOOSE n \in at : \A m \in at : n <= m
           r == [all EXCEPT ![x].name = Given]
           q == ParseDevices(UpdateDevice(text, "TOTP", epoch, Given))
<1>1. UpdateDevice(text, "TOTP", epoch, Given) = IF at = {} THEN text ELSE r
  BY DEF UpdateDevice
<1> HIDE DEF all, at, x
<1>2. /\ all \in Seq(Device) /\ DOMAIN all = 1..Len(all) /\ Len(all) \in Nat
      /\ \A i \in DOMAIN all : all[i] \in Device
  BY DEF all
<1>3. DOMAIN r = DOMAIN all
  BY <1>2
<1>4. ASSUME NEW i \in DOMAIN all
      PROVE  /\ r[i] \in Device /\ r[i].secret = all[i].secret
             /\ r[i].type = all[i].type /\ r[i].epoch = all[i].epoch
  <2>1. CASE i # x
    BY <1>2, <2>1
  <2>2. CASE i = x
    <3>1. r[i] = [all[i] EXCEPT !.name = Given]
      BY <1>2, <2>2
    <3> QED BY <1>2, <3>1 DEF Device, Given
  <2> QED BY <2>1, <2>2
<1>5. r \in Seq(Device)
  <2>1. r = [i \in 1..Len(all) |-> r[i]]
    BY <1>2
  <2> HIDE DEF r
  <2> QED BY <1>2, <1>4, <2>1
<1> HIDE DEF r
<1>6. \A d : Has(all, d) => Has(r, d)
  BY <1>3, <1>4 DEF Has, Same
<1>7. q \in {all, r}
  BY <1>1, <1>5, ParsesItself DEF all
<1> HIDE DEF q
<1>8. q \in Seq(Device) /\ \A d : Has(all, d) => Has(q, d)
  BY <1>2, <1>5, <1>6, <1>7
<1> QED BY <1>8 DEF q, all

-----------------------------------------------------------------------------
(* Registrations *)

AnEnrolment(e) ==
    \E pc, o, s, n, l :
      e = [pc |-> pc, object |-> o, secret |-> s, number |-> n, late |-> l]

(* A verification that found its token was not late, and once it deleted   *)
(* the token, that is gone.                                                *)
Enrols(e) ==
    \/ e = NoEnrolment
    \/ /\ AnEnrolment(e)
       /\ e.object \in DOMAIN info /\ e.number \in Nat /\ e.secret \in drawn
       /\ e.late = FALSE \/ e.secret \in acked
       /\ e.pc = "register" => e.secret \notin DOMAIN tokens
       /\ e.pc \in {"delete", "register"} => e.late = FALSE

Enrolling ==
    /\ DOMAIN enrol = Enrolment
    /\ \A k \in Enrolment : Enrols(enrol[k])

(* The token of a registration that was acknowledged is not stored.        *)
Tokens ==
    /\ drawn \subseteq Secret
    /\ DOMAIN tokens \subseteq drawn
    /\ acked \subseteq drawn
    /\ \A s \in acked : s \notin DOMAIN tokens

(* Acknowledged devices are in the lists, which are lists of devices.      *)
Holding ==
    /\ clock \in Nat
    /\ devices \in [User -> {Absent, Malformed} \cup Lists]
    /\ DOMAIN held = Object /\ DOMAIN info \subseteq Object
    /\ \A o \in Object : o \notin DOMAIN info => held[o] = {}
    /\ \A o \in DOMAIN info :
         /\ ParseDevices(info[o]) \in Seq(Device)
         /\ \A d \in held[o] : Has(ParseDevices(info[o]), d)

RegInv == Tokens /\ Enrolling /\ Holding

(* No token that was drawn comes back.                                     *)
Later ==
    /\ DOMAIN info \subseteq DOMAIN info'
    /\ drawn \subseteq drawn' /\ acked \subseteq acked'
    /\ \A s \in drawn : s \in DOMAIN tokens' => s \in DOMAIN tokens

LEMMA EnrolsLater ==
    ASSUME Later, NEW k \in Enrolment, Enrols(enrol[k]), enrol'[k] = enrol[k]
    PROVE  Enrols(enrol[k])'
BY DEF Later, Enrols, NoEnrolment, AnEnrolment

LEMMA EnrolmentsAlone ==
    ASSUME Enrolling, Later, enrol' = enrol
    PROVE  Enrolling'
<1>1. \A k \in Enrolment : Enrols(enrol[k])'
  BY EnrolsLater DEF Enrolling
<1> QED BY <1>1 DEF Enrolling

LEMMA OneEnrolment ==
    ASSUME Enrolling, Later, NEW k \in Enrolment, NEW r,
           enrol' = [enrol EXCEPT ![k] = r], Enrols(r)'
    PROVE  Enrolling'
<1>1. DOMAIN enrol' = Enrolment
  BY DEF Enrolling
<1>2. \A j \in Enrolment : enrol'[j] = IF j = k THEN r ELSE enrol[j]
  BY DEF Enrolling
<1>3. ASSUME NEW j \in Enrolment PROVE Enrols(enrol[j])'
  <2>1. CASE j = k
    <3>1. enrol'[j] = r
      BY <1>2, <2>1
    <3> QED BY <3>1 DEF Enrols, AnEnrolment
  <2>2. CASE j # k
    BY <1>2, <2>2, EnrolsLater DEF Enrolling
  <2> QED BY <2>1, <2>2
<1> QED BY <1>1, <1>3 DEF Enrolling

LEMMA NoneEnrols == Enrols(NoEnrolment)'
BY DEF Enrols

(* A verification that goes on keeps the rest of its fields.               *)
LEMMA OnlyStage ==
    ASSUME NEW e, AnEnrolment(e), NEW x
    PROVE  LET b == [e EXCEPT !.pc = x]
           IN  /\ AnEnrolment(b) /\ b.pc = x /\ b.object = e.object
               /\ b.secret = e.secret /\ b.number = e.number /\ b.late = e.late
<1> DEFINE b == [e EXCEPT !.pc = x]
<1>1. PICK pc, o, s, n, l :
         e = [pc |-> pc, object |-> o, secret |-> s, number |-> n, late |-> l]
  BY DEF AnEnrolment
<1>2. b = [pc |-> x, object |-> o, secret |-> s, number |-> n, late |-> l]
  BY <1>1
<1> HIDE DEF b
<1>3. AnEnrolment(b)
  BY <1>2, Zenon DEF AnEnrolment
<1>4. /\ b.pc = x /\ b.object = e.object
      /\ b.secret = e.secret /\ b.number = e.number /\ b.late = e.late
  BY <1>1, <1>2
<1> QED BY <1>3, <1>4 DEF b

LEMMA AtWork ==
    ASSUME Enrolling, NEW k \in Enrolment, NEW e, e = enrol[k],
           e.pc \in {"get", "delete", "register"}
    PROVE  /\ e # NoEnrolment /\ AnEnrolment(e)
           /\ e.object \in DOMAIN info /\ e.number \in Nat /\ e.secret \in drawn
           /\ e.late = FALSE \/ e.secret \in acked
           /\ e.pc = "register" => e.secret \notin DOMAIN tokens
           /\ e.pc \in {"delete", "register"} => e.late = FALSE
<1>1. Enrols(e)
  BY DEF Enrolling
<1>2. e # NoEnrolment
  BY DEF NoEnrolment
<1> QED BY <1>1, <1>2 DEF Enrols

(* The lists and what is held are left alone.                              *)
LEMMA HeldAlone ==
    ASSUME Holding, UNCHANGED <<devices, info, held>>, clock' \in Nat
    PROVE  Holding'
BY DEF Holding, Has

LEMMA Edited ==
    ASSUME Holding, NEW o \in DOMAIN info, NEW text, NEW h,
           info' = [info EXCEPT ![o] = text], DOMAIN held' = Object,
           \A x \in Object : held'[x] = IF x = o THEN h ELSE held[x],
           ParseDevices(text) \in Seq(Device),
           \A d \in h : Has(ParseDevices(text), d),
           UNCHANGED <<devices, clock>>
    PROVE  Holding'
<1>1. /\ DOMAIN info' = DOMAIN info /\ o \in Object
      /\ \A x \in DOMAIN info : info'[x] = IF x = o THEN text ELSE info[x]
  BY DEF Holding
<1>2. ASSUME NEW x \in DOMAIN info'
      PROVE  /\ ParseDevices(info'[x]) \in Seq(Device)
             /\ \A d \in held'[x] : Has(ParseDevices(info'[x]), d)
  BY <1>1 DEF Holding
<1>3. \A x \in Object : x \notin DOMAIN info' => held'[x] = {}
  BY <1>1 DEF Holding
<1> QED BY <1>1, <1>2, <1>3 DEF Holding, Has

-----------------------------------------------------------------------------
(* The steps of registrations *)

LEMMA SessionStep ==
    ASSUME RegInv, NEW u \in User, NEW o \in Object,
           SessionToInfo(o, UserData(u)), UNCHANGED <<clock, loginVars>>
    PROVE  RegInv'
<1> DEFINE text == UserData(u)
<1>1. ParseDevices(text) \in Seq(Device)
  <2>1. text \in {Absent, Malformed} \cup Lists
    BY DEF UserData, Attribute, RegInv, Holding
  <2>2. Lists \subseteq Seq(Device)
    BY ConfsAssumption
  <2> HIDE DEF text
  <2>3. CASE text \in Lists
    BY <2>2, <2>3, ParsesItself
  <2>4. CASE text \in {Absent, Malformed}
    BY <2>4 DEF ParseDevices
  <2> QED BY <2>1, <2>3, <2>4
<1>2. /\ o \notin DOMAIN info
      /\ info' = [x \in DOMAIN info \cup {o} |-> IF x = o THEN text ELSE info[x]]
      /\ UNCHANGED <<drawn, tokens, enrol, acked, held, devices, clock>>
  BY DEF SessionToInfo, loginVars
<1> HIDE DEF text
<1>3. Later
  BY <1>2 DEF Later
<1>4. Tokens'
  BY <1>2 DEF RegInv, Tokens
<1>5. Enrolling'
  BY <1>2, <1>3, EnrolmentsAlone DEF RegInv
<1>6. ASSUME NEW x \in DOMAIN info'
      PROVE  /\ ParseDevices(info'[x]) \in Seq(Device)
             /\ \A d \in held'[x] : Has(ParseDevices(info'[x]), d)
  BY <1>1, <1>2 DEF RegInv, Holding
<1>7. Holding'
  BY <1>2, <1>6 DEF RegInv, Holding, Has
<1> QED BY <1>4, <1>5, <1>7 DEF RegInv

LEMMA GetKeyStep ==
    ASSUME RegInv, NEW s \in Secret, GetKey(s), UNCHANGED <<clock, loginVars>>
    PROVE  RegInv'
<1>1. /\ s \notin drawn /\ drawn' = drawn \cup {s}
      /\ DOMAIN tokens' = Unexpired \cup {s}
      /\ UNCHANGED <<info, enrol, acked, held, devices, clock>>
  BY DEF GetKey, loginVars
<1>2. Unexpired \subseteq DOMAIN tokens
  BY DEF Unexpired
<1>3. Later
  BY <1>1, <1>2 DEF Later
<1>4. Tokens'
  BY <1>1, <1>2 DEF RegInv, Tokens
<1>5. Enrolling'
  BY <1>1, <1>3, EnrolmentsAlone DEF RegInv
<1>6. Holding'
  BY <1>1, HeldAlone DEF RegInv, Holding
<1> QED BY <1>4, <1>5, <1>6 DEF RegInv

LEMMA VerifyRegistrationStep ==
    ASSUME RegInv, NEW k \in Enrolment, NEW o \in Object, NEW s \in Secret,
           VerifyRegistration(k, o, s), UNCHANGED <<clock, loginVars>>
    PROVE  RegInv'
<1> DEFINE n == Len(ByType(info[o], "TOTP")) + 1
           l == s \in acked
           r == [pc |-> "get", object |-> o, secret |-> s, number |-> n, late |-> l]
<1>1. /\ o \in DOMAIN info /\ s \in drawn /\ enrol' = [enrol EXCEPT ![k] = r]
      /\ UNCHANGED <<drawn, tokens, info, acked, held, devices, clock>>
  BY DEF VerifyRegistration, loginVars
<1>2. n \in Nat
  <2>1. ParseDevices(info[o]) \in Seq(Device)
    BY <1>1 DEF RegInv, Holding
  <2>2. Len(ByType(info[o], "TOTP")) \in Nat
    BY <2>1, CountsDevices
  <2> QED BY <2>2
<1>3. l = FALSE \/ s \in acked
  OBVIOUS
<1> HIDE DEF n, l
<1>4. AnEnrolment(r)
  BY Zenon DEF AnEnrolment
<1>5. /\ r.pc = "get" /\ r.object = o /\ r.secret = s /\ r.number = n
      /\ r.late = l
  OBVIOUS
<1> HIDE DEF r
<1>6. PICK e : e = r
  OBVIOUS
<1>7. Enrols(e)'
  BY <1>1, <1>2, <1>3, <1>4, <1>5, <1>6 DEF Enrols, AnEnrolment
<1>8. Later
  BY <1>1 DEF Later
<1>9. Enrolling'
  BY <1>1, <1>6, <1>7, <1>8, OneEnrolment DEF RegInv
<1>10. Tokens'
  BY <1>1 DEF RegInv, Tokens
<1>11. Holding'
  BY <1>1, HeldAlone DEF RegInv, Holding
<1> QED BY <1>9, <1>10, <1>11 DEF RegInv

(* The token is found, which means that it was not late, or is not.        *)
LEMMA GetTokenStep ==
    ASSUME RegInv, NEW k \in Enrolment, NEW code, GetToken(k, code),
           UNCHANGED <<clock, loginVars>>
    PROVE  RegInv'
<1>1. PICK e : e = enrol[k]
  OBVIOUS
<1>2. /\ e.pc = "get" /\ UNCHANGED <<drawn, info, acked, held, devices, clock>>
      /\ tokens' = IF Found(e.secret) THEN tokens ELSE Without(e.secret)
      /\ \/ enrol' = [enrol EXCEPT ![k] = NoEnrolment]
         \/ /\ Found(e.secret)
            /\ enrol' = [enrol EXCEPT ![k] = [@ EXCEPT !.pc = "delete"]]
  BY <1>1 DEF GetToken, loginVars
<1>3. DOMAIN tokens' \subseteq DOMAIN tokens
  BY <1>2 DEF Without
<1>4. Later
  BY <1>2, <1>3 DEF Later
<1>5. Enrolling'
  <2>1. CASE enrol' = [enrol EXCEPT ![k] = NoEnrolment]
    BY <1>4, <2>1, NoneEnrols, OneEnrolment DEF RegInv, NoEnrolment
  <2>2. CASE /\ Found(e.secret)
             /\ enrol' = [enrol EXCEPT ![k] = [@ EXCEPT !.pc = "delete"]]
    <3> DEFINE b == [e EXCEPT !.pc = "delete"]
    <3>1. AnEnrolment(e) /\ e.object \in DOMAIN info /\ e.number \in Nat
          /\ e.secret \in drawn /\ (e.late = FALSE \/ e.secret \in acked)
      BY <1>1, <1>2, AtWork DEF RegInv
    <3>2. e.late = FALSE
      BY <2>2, <3>1 DEF Found, RegInv, Tokens
    <3>3. /\ AnEnrolment(b) /\ b.pc = "delete" /\ b.object = e.object
          /\ b.secret = e.secret /\ b.number = e.number /\ b.late = e.late
      BY <3>1, OnlyStage
    <3>4. enrol' = [enrol EXCEPT ![k] = b]
      BY <1>1, <2>2 DEF RegInv, Enrolling
    <3> HIDE DEF b
    <3>5. PICK c : c = b
      OBVIOUS
    <3>6. Enrols(c)'
      BY <1>2, <3>1, <3>2, <3>3, <3>5 DEF Enrols, AnEnrolment
    <3> QED BY <1>4, <3>4, <3>5, <3>6, OneEnrolment DEF RegInv
  <2> QED BY <1>2, <2>1, <2>2
<1>6. Tokens'
  BY <1>2, <1>3 DEF RegInv, Tokens
<1>7. Holding'
  BY <1>2, HeldAlone DEF RegInv, Holding
<1> QED BY <1>5, <1>6, <1>7 DEF RegInv

LEMMA DeleteTokenStep ==
    ASSUME RegInv, NEW k \in Enrolment, DeleteToken(k),
           UNCHANGED <<clock, loginVars>>
    PROVE  RegInv'
<1>1. PICK e : e = enrol[k]
  OBVIOUS
<1> DEFINE b == [e EXCEPT !.pc = "register"]
<1>2. /\ e.pc = "delete" /\ UNCHANGED <<drawn, info, acked, held, devices, clock>>
      /\ tokens' = Without(e.secret) /\ enrol' = [enrol EXCEPT ![k] = b]
  BY <1>1 DEF DeleteToken, Spent, loginVars, RegInv, Enrolling
<1>3. DOMAIN tokens' = DOMAIN tokens \ {e.secret}
  BY <1>2 DEF Without
<1>4. Later
  BY <1>2, <1>3 DEF Later
<1>5. /\ AnEnrolment(e) /\ e.object \in DOMAIN info /\ e.number \in Nat
      /\ e.secret \in drawn /\ e.late = FALSE
  BY <1>1, <1>2, AtWork DEF RegInv
<1>6. /\ AnEnrolment(b) /\ b.pc = "register" /\ b.object = e.object
      /\ b.secret = e.secret /\ b.number = e.number /\ b.late = e.late
  BY <1>5, OnlyStage
<1> HIDE DEF b
<1>7. PICK c : c = b
  OBVIOUS
<1>8. Enrols(c)'
  BY <1>2, <1>3, <1>5, <1>6, <1>7 DEF Enrols, AnEnrolment
<1>9. Enrolling'
  BY <1>2, <1>4, <1>7, <1>8, OneEnrolment DEF RegInv
<1>10. Tokens'
  BY <1>2, <1>3 DEF RegInv, Tokens
<1>11. Holding'
  BY <1>2, HeldAlone DEF RegInv, Holding
<1> QED BY <1>9, <1>10, <1>11 DEF RegInv

LEMMA RegisterDeviceStep ==
    ASSUME RegInv, NEW k \in Enrolment, RegisterDevice(k),
           UNCHANGED <<clock, loginVars>>
    PROVE  RegInv'
<1>1. PICK e : e = enrol[k]
  OBVIOUS
<1> DEFINE o == e.object
           x == [type |-> "TOTP", name |-> e.number, epoch |-> clock,
                 secret |-> e.secret]
           text == AddDevice(info[o], x)
           y == [secret |-> e.secret, epoch |-> clock]
           h == held[o] \cup {y}
<1>2. /\ e.pc = "register" /\ info' = [info EXCEPT ![o] = text]
      /\ enrol' = [enrol EXCEPT ![k] = NoEnrolment]
      /\ acked' = acked \cup {e.secret} /\ held' = [held EXCEPT ![o] = h]
      /\ UNCHANGED <<drawn, tokens, devices, clock>>
  BY <1>1 DEF RegisterDevice, Registered, NewDevice, loginVars, RegInv, Holding
<1>3. /\ e.object \in DOMAIN info /\ e.number \in Nat /\ e.secret \in drawn
      /\ e.secret \notin DOMAIN tokens
  BY <1>1, <1>2, AtWork DEF RegInv
<1>4. Later
  BY <1>2 DEF Later
<1>5. Enrolling'
  BY <1>2, <1>4, NoneEnrols, OneEnrolment DEF RegInv, NoEnrolment
<1>6. Tokens'
  BY <1>2, <1>3 DEF RegInv, Tokens
<1>7. Holding'
  <2> DEFINE all == ParseDevices(info[o])
  <2>1. all \in Seq(Device) /\ \A d \in held[o] : Has(all, d)
    BY <1>3 DEF RegInv, Holding
  <2>2. x \in Device
    BY <1>3 DEF Device, RegInv, Holding, Tokens
  <2>3. x.type = "TOTP" /\ x.epoch = y.epoch /\ x.secret = y.secret
    OBVIOUS
  <2> DEFINE q == ParseDevices(text)
  <2> HIDE DEF x, y
  <2>4. /\ q \in Seq(Device) /\ q[Len(all) + 1] = x /\ Len(all) + 1 \in DOMAIN q
        /\ \A n \in DOMAIN all : n \in DOMAIN q /\ q[n] = all[n]
    BY <2>1, <2>2, AddKeeps
  <2> HIDE DEF q, all
  <2>5. Has(q, y)
    BY <2>3, <2>4 DEF Has, Same
  <2>6. \A d : Has(all, d) => Has(q, d)
    BY <2>4 DEF Has
  <2>7. \A d \in h : Has(q, d)
    BY <2>1, <2>5, <2>6
  <2> HIDE DEF h, text, o
  <2>8. o \in DOMAIN info
    BY <1>3 DEF o
  <2>9. /\ DOMAIN held' = Object
         /\ \A z \in Object : held'[z] = IF z = o THEN h ELSE held[z]
    BY <1>2 DEF RegInv, Holding
  <2>10. ParseDevices(text) \in Seq(Device) /\ \A d \in h : Has(ParseDevices(text), d)
    BY <2>4, <2>7 DEF q
  <2> QED BY <1>2, <2>8, <2>10, <2>9, Edited DEF RegInv
<1> QED BY <1>5, <1>6, <1>7 DEF RegInv

LEMMA EnrolmentFailsStep ==
    ASSUME RegInv, NEW k \in Enrolment, EnrolmentFails(k),
           UNCHANGED <<clock, loginVars>>
    PROVE  RegInv'
<1>1. /\ enrol' = [enrol EXCEPT ![k] = NoEnrolment]
      /\ UNCHANGED <<drawn, tokens, info, acked, held, devices, clock>>
  BY DEF EnrolmentFails, loginVars
<1>2. Later
  BY <1>1 DEF Later
<1>3. Enrolling'
  BY <1>1, <1>2, NoneEnrols, OneEnrolment DEF RegInv, NoEnrolment
<1>4. Tokens'
  BY <1>1 DEF RegInv, Tokens
<1>5. Holding'
  BY <1>1, HeldAlone DEF RegInv, Holding
<1> QED BY <1>3, <1>4, <1>5 DEF RegInv

LEMMA DeviceStep ==
    ASSUME RegInv, NEW o \in Object, NEW epoch,
           DeleteDevice(o, epoch) \/ ModifyDevice(o, epoch),
           UNCHANGED <<clock, loginVars>>
    PROVE  RegInv'
<1>1. /\ o \in DOMAIN info /\ DOMAIN info' = DOMAIN info
      /\ UNCHANGED <<drawn, tokens, enrol, acked, devices, clock>>
  BY DEF DeleteDevice, ModifyDevice, loginVars
<1>2. Later
  BY <1>1 DEF Later
<1>3. Enrolling'
  BY <1>1, <1>2, EnrolmentsAlone DEF RegInv
<1>4. Tokens'
  BY <1>1 DEF RegInv, Tokens
<1>5. /\ ParseDevices(info[o]) \in Seq(Device)
      /\ \A d \in held[o] : Has(ParseDevices(info[o]), d)
      /\ DOMAIN held = Object
  BY <1>1 DEF RegInv, Holding
<1>6. Holding'
  <2>1. CASE DeleteDevice(o, epoch)
    <3> DEFINE text == RemoveDevice(info[o], "TOTP", epoch)
               h == {d \in held[o] : d.epoch # epoch}
    <3>1. /\ info' = [info EXCEPT ![o] = text] /\ DOMAIN held' = Object
          /\ \A x \in Object : held'[x] = IF x = o THEN h ELSE held[x]
      BY <1>1, <1>5, <2>1 DEF DeleteDevice
    <3>2. /\ ParseDevices(text) \in Seq(Device)
          /\ \A d \in h : Has(ParseDevices(text), d)
      BY <1>5, RemoveKeeps
    <3> HIDE DEF text, h
    <3> QED BY <1>1, <3>1, <3>2, Edited DEF RegInv
  <2>2. CASE ModifyDevice(o, epoch)
    <3> DEFINE text == UpdateDevice(info[o], "TOTP", epoch, Given)
               h == held[o]
    <3>1. /\ info' = [info EXCEPT ![o] = text] /\ DOMAIN held' = Object
          /\ \A x \in Object : held'[x] = IF x = o THEN h ELSE held[x]
      BY <1>1, <1>5, <2>2 DEF ModifyDevice
    <3>2. /\ ParseDevices(text) \in Seq(Device)
          /\ \A d \in h : Has(ParseDevices(text), d)
      BY <1>5, UpdateKeeps
    <3> HIDE DEF text, h
    <3> QED BY <1>1, <3>1, <3>2, Edited DEF RegInv
  <2> QED BY <2>1, <2>2
<1> QED BY <1>3, <1>4, <1>6 DEF RegInv

LEMMA RegisteringStep ==
    ASSUME RegInv, Registering
    PROVE  RegInv'
<1>1. UNCHANGED <<clock, loginVars>>
  BY DEF Registering
<1>2. \/ \E u \in User, o \in Object : SessionToInfo(o, UserData(u))
      \/ RegNext
  BY DEF Registering
<1> QED BY <1>1, <1>2, SessionStep, GetKeyStep, VerifyRegistrationStep,
        GetTokenStep, DeleteTokenStep, RegisterDeviceStep, EnrolmentFailsStep,
        DeviceStep DEF RegNext

(* The steps of logins leave registrations alone.                          *)
LEMMA LoginStep ==
    ASSUME RegInv, (LoginNext /\ UNCHANGED regVars) \/ UNCHANGED vars
    PROVE  RegInv'
<1>1. UNCHANGED <<devices, drawn, tokens, info, enrol, acked, held>>
  BY ZenonT(60) DEF LoginNext, Login, Authenticate, LoadUser, BlockedByPlugin,
     Create, Open, VerifySecondFactor, Verified, ChangePassword, Confirm, Update,
     Updated, Fail, ForgetExpired, Cleanup, Tick, vars, loginVars, regVars
<1>2. clock' \in {clock, clock + 1}
  BY ZenonT(60) DEF LoginNext, Login, Authenticate, LoadUser, BlockedByPlugin,
     Create, Open, VerifySecondFactor, Verified, ChangePassword, Confirm, Update,
     Updated, Fail, ForgetExpired, Cleanup, Tick, vars, loginVars, regVars
<1>3. clock' \in Nat
  BY <1>2 DEF RegInv, Holding
<1>4. Later
  BY <1>1 DEF Later
<1>5. Enrolling'
  BY <1>1, <1>4, EnrolmentsAlone DEF RegInv
<1>6. Tokens'
  BY <1>1 DEF RegInv, Tokens
<1>7. Holding'
  BY <1>1, <1>3, HeldAlone DEF RegInv
<1> QED BY <1>5, <1>6, <1>7 DEF RegInv

LEMMA RegistrationInvariant == Spec => []RegInv
<1>1. Init => RegInv
  <2> SUFFICES ASSUME Init PROVE RegInv
    OBVIOUS
  <2>1. Tokens
    BY DEF Init, RegInit, Tokens
  <2>2. Enrolling
    BY DEF Init, RegInit, Enrolling, Enrols
  <2>3. Holding
    BY DEF Init, RegInit, Holding
  <2> QED BY <2>1, <2>2, <2>3 DEF RegInv
<1>2. RegInv /\ [Next]_vars => RegInv'
  BY RegisteringStep, LoginStep DEF Next
<1> QED BY <1>1, <1>2, PTL DEF Spec

(* The token of a registration that was acknowledged serves no             *)
(* verification that comes later, for any number of requests, secrets and  *)
(* session infos, with a store of tokens that may fail (verifyRegistration,*)
(* OneTimeTokenManager).                                                   *)
THEOREM TokensAreSpent == Spec => []AcknowledgedTokenIsSpent
<1>1. RegInv => AcknowledgedTokenIsSpent
  <2> SUFFICES ASSUME RegInv, NEW k \in Enrolment,
                      enrol[k].pc \in {"delete", "register"}
               PROVE  enrol[k].late = FALSE
    BY DEF AcknowledgedTokenIsSpent
  <2> QED BY AtWork DEF RegInv
<1> QED BY <1>1, RegistrationInvariant, PTL

(* An acknowledged device stays in the list of its session info until a    *)
(* deletion of its second is asked for, for lists of any length and any    *)
(* number of overlapping requests (registerDevice, removeDevice,           *)
(* updateDevice).                                                          *)
THEOREM DevicesAreKept == Spec => []AcknowledgedDevicesStay
<1>1. RegInv => AcknowledgedDevicesStay
  BY DEF RegInv, Holding, Has, AcknowledgedDevicesStay
<1> QED BY <1>1, RegistrationInvariant, PTL
=============================================================================
