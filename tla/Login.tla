------------------------------- MODULE Login -------------------------------
(***************************************************************************)
(* How a user gets a session from the portal with a password and, for a    *)
(* user who has second-factor devices, with a TOTP code; how the user      *)
(* changes that password (packages/portal: middleware/auth,                *)
(* middleware/userdb, routes/index, routes/2fa, 2fa/manager;               *)
(* packages/auth-dbi, userdb-dbi, password-dbi, auth-demo, userdb-demo,    *)
(* 2fa-common, 2fa-totp); and, beside them, the registrations of devices   *)
(* that the portal loads a module for.                                     *)
(*                                                                         *)
(* A request waits for one SQL query, one session update or one            *)
(* verification of a code at a time, and every await ends an action: two   *)
(* verifications may both have read a pending authentication before one of *)
(* them deletes it.  What sessions become is Portal's subject.             *)
(***************************************************************************)
EXTENDS DbiPasswords, Registration

CONSTANTS
    Slot,           \* requests being served
    User,
    Token,          \* tokens of pending authentications
    Gone,           \* a token that is no more
    Confs,          \* the configurations, see DbiPasswords
    Lists,          \* the device lists that users may have
    Timeout,        \* sfLoginTimeout
    Changes         \* whether users change their passwords

ASSUME TokensAssumption ==
    None \notin Token /\ Gone # None /\ Timeout \in Nat

(* registers is a bound: the configurations in which devices are           *)
(* registered.                                                             *)
ASSUME ConfsAssumption ==
    /\ \A c \in Confs : /\ c.module \in {"dbi", "demo"}
                        /\ {c.dynamic, c.registers} \subseteq BOOLEAN
                        /\ c.scheme \in Scheme \cup {None}
    /\ Lists \subseteq Seq(Device)

VARIABLES
    conf,       \* the configuration of the portal
    stored,     \* the password columns, by table and column names
    devices,    \* the column that _2fDevices is exported from
    pending,    \* pendingStore: None before, Gone after
    task,
    member,     \* the users who got a session
    settled,    \* history: the password that is known to be in force, or None
    won,        \* history: the pending authentications that were verified
    last        \* history: the login that the last step decided, if it did

loginVars == <<conf, stored, devices, pending, task, member, settled, won>>

vars == <<clock, loginVars, last, regVars>>

Idle == [kind |-> "none"]
Request == [user : User, pass : Password]

(* The tasks that may change u's password.                                 *)
Changing(u) == {k \in Slot : task[k].kind = "change" /\ task[k].user = u}

(* TwoFactorManager.init: the modules that are activated, if they load.    *)
Loaded == IF conf.totp THEN {"TOTP"} ELSE {}

(* The portal starts when its three modules do.                            *)
Starts(c) == AuthStarts(c) /\ UserStarts(c) /\ PasswordStarts(c)

Columns(c) == {AuthColumns(c), PasswordColumns(c)}

(* What holds a password: the demo module has it in clear, in its part of  *)
(* the configuration.                                                      *)
Kept(c, p) == IF c.module = "demo" THEN Text(p) ELSE Stored(c, p)

Init ==
    /\ conf \in {c \in Confs : c.module = "dbi" => Starts(c)}
    /\ clock = 0
    /\ \E p \in Password :
         /\ stored = [w \in Columns(conf) |-> [u \in User |-> Kept(conf, p)]]
         /\ settled = [u \in User |-> p]
    /\ devices \in [User -> {Absent, Malformed} \cup Lists]
    /\ pending = [t \in Token |-> None]
    /\ task = [k \in Slot |-> Idle]
    /\ member = {}
    /\ won = {}
    /\ last = None
    /\ RegInit

-----------------------------------------------------------------------------
(* POST /: authMiddleware, userDBMiddleware, then the route *)

(* extractCredentials() gave a user and a password.                        *)
Login(k, u, p) ==
    /\ task[k] = Idle
    /\ task' = [task EXCEPT ![k] = [kind |-> "login", pc |-> "auth", user |-> u,
                                    pass |-> p, settled |-> settled[u]]]
    /\ UNCHANGED <<conf, clock, stored, devices, pending, member, settled,
                   won>>
    /\ last' = None

Decide(k, verdict) ==
    last' = [verdict |-> verdict, pass |-> task[k].pass, settled |-> task[k].settled,
             dev |-> Absent, second |-> FALSE, age |-> 0, late |-> FALSE]

(* authenticate() of the demo module: the clear text of the configuration. *)
DemoAccepts(u, p) == stored[AuthColumns(conf)][u] = Text(p)

(* authenticate() of the SQL module: the row, if it shows a password.      *)
DbiAccepts(u, p) ==
    /\ AuthSees(conf)
    /\ Verifies(conf, stored[AuthColumns(conf)][u], p)

Accepts(u, p) ==
    IF conf.module = "demo" THEN DemoAccepts(u, p) ELSE DbiAccepts(u, p)

Authenticate(k) ==
    /\ task[k].kind = "login"
    /\ task[k].pc = "auth"
    /\ IF Accepts(task[k].user, task[k].pass)
       THEN task' = [task EXCEPT ![k].pc = "user"] /\ last' = None
       ELSE task' = [task EXCEPT ![k] = Idle] /\ Decide(k, "refused")
    /\ UNCHANGED <<conf, clock, stored, devices, pending, member, settled, won>>

(* What the task that opens a session remembers: its second factor, the    *)
(* age of the pending authentication when it was read, and whether another *)
(* verification of it had succeeded by then.                               *)
Opening(u, p, sure, dev, second, age, late) ==
    [kind |-> "open", pc |-> "create", user |-> u, pass |-> p, settled |-> sure,
     dev |-> dev, second |-> second, age |-> age, late |-> late]

(* getUser(): the attributes of the user, of which _2fDevices matters.     *)
UserData(u) == Attribute(conf, "_2fDevices", devices[u], Absent)

(* createPendingSession, and its timer.                                    *)
CreatePendingSession(k, t) ==
    /\ pending[t] = None
    /\ pending' = [pending EXCEPT ![t] =
                     [user |-> task[k].user, pass |-> task[k].pass,
                      settled |-> task[k].settled,
                      dev |-> UserData(task[k].user), stamp |-> clock]]
    /\ task' = [task EXCEPT ![k] = Idle]

(* getUser() answered.  The route asks the hooks of beforeAuth, which may  *)
(* refuse, then for a second factor if the user has devices of a module.   *)
LoadUser(k) ==
    LET u == task[k].user
    IN  /\ task[k].kind = "login"
        /\ task[k].pc = "user"
        /\ \/ /\ Is2FARequired(UserData(u), Loaded)
              /\ \E t \in Token : CreatePendingSession(k, t)
           \/ /\ ~Is2FARequired(UserData(u), Loaded)
              /\ task' = [task EXCEPT ![k] =
                            Opening(u, task[k].pass, task[k].settled,
                                    UserData(u), None, 0, FALSE)]
              /\ UNCHANGED pending
    /\ UNCHANGED <<conf, clock, stored, devices, member, settled, won>>
    /\ last' = None

BlockedByPlugin(k) ==
    /\ task[k].kind = "login"
    /\ task[k].pc = "user"
    /\ task' = [task EXCEPT ![k] = Idle]
    /\ UNCHANGED <<conf, clock, stored, devices, pending, member, settled,
                   won>>
    /\ last' = None

(* createSession() answered: the user's data goes into the session, which  *)
(* is updated.                                                             *)
Create(k) ==
    /\ task[k].kind = "open"
    /\ task[k].pc = "create"
    /\ task' = [task EXCEPT ![k].pc = "info"]
    /\ UNCHANGED <<conf, clock, stored, devices, pending, member, settled,
                   won>>
    /\ last' = None

(* updateSession() answered: the browser gets its cookie.                  *)
Open(k) ==
    LET s == task[k]
    IN  /\ s.kind = "open"
        /\ s.pc = "info"
        /\ task' = [task EXCEPT ![k] = Idle]
        /\ member' = member \cup {s.user}
        /\ last' = [verdict |-> "opened", pass |-> s.pass, settled |-> s.settled,
                    dev |-> s.dev, second |-> s.second # None, age |-> s.age,
                    late |-> s.late]
    /\ UNCHANGED <<conf, clock, stored, devices, pending, settled, won>>

-----------------------------------------------------------------------------
(* POST /2fa/:type *)

Live(t) == pending[t] \notin {None, Gone}
Age(t) == clock - pending[t].stamp

(* Mutant of DeletePendingSession: it is left to the timer. *)
KeepPendingSession(t) == pending' = pending

DeletePendingSession(t) == pending' = [pending EXCEPT ![t] = Gone]

(* Mutant of GetPendingSession: the timer is trusted to be on time. *)
GetPendingSessionAnyAge(t) == Live(t)

GetPendingSession(t) == Live(t) /\ Age(t) <= Timeout

(* The route reads the pending authentication, and awaits the module; that *)
(* of TOTP compares the code at once.                                      *)
VerifySecondFactor(k, t, code) ==
    LET p == pending[t]
    IN  /\ task[k] = Idle
        /\ GetPendingSession(t)
        /\ "TOTP" \in Loaded
        /\ task' = [task EXCEPT ![k] =
                      [kind |-> "verify", pc |-> "module", user |-> p.user,
                       pass |-> p.pass, settled |-> p.settled, dev |-> p.dev,
                       second |-> t, age |-> Age(t), late |-> t \in won,
                       success |-> VerifyTotp(p.dev, code, clock)]]
        /\ UNCHANGED <<conf, clock, stored, devices, pending, member, settled, won>>
        /\ last' = None

(* The module answered.  After a code that verified the pending            *)
(* authentication is deleted, if it still is there, and a session is       *)
(* created; any other code shows the challenge again.                      *)
Verified(k) ==
    LET s == task[k]
    IN  /\ s.kind = "verify"
        /\ IF s.success
           THEN /\ DeletePendingSession(s.second)
                /\ won' = won \cup {s.second}
                /\ task' = [task EXCEPT ![k] =
                      Opening(s.user, s.pass, s.settled, s.dev, s.second, s.age,
                              s.late)]
           ELSE /\ task' = [task EXCEPT ![k] = Idle]
                /\ UNCHANGED <<pending, won>>
        /\ UNCHANGED <<conf, clock, stored, devices, member, settled>>
        /\ last' = None

(* Any route that looks up a pending authentication which is too old.      *)
ForgetExpired(t) ==
    /\ Live(t)
    /\ Age(t) > Timeout
    /\ DeletePendingSession(t)
    /\ UNCHANGED <<conf, clock, stored, devices, task, member, settled,
                   won>>
    /\ last' = None

(* The timer of a pending authentication, which may be late.               *)
Cleanup(t) ==
    /\ Live(t)
    /\ Age(t) >= Timeout
    /\ pending' = [pending EXCEPT ![t] = Gone]
    /\ UNCHANGED <<conf, clock, stored, devices, task, member, settled,
                   won>>
    /\ last' = None

-----------------------------------------------------------------------------
(* POST /password of a user who has a session, with password-dbi *)

(* No password is known to be in force while one is being changed; after   *)
(* that the new one is, if no other change ran meanwhile.                  *)
Unsettle(u) ==
    settled' = [settled EXCEPT ![u] = None]

ChangePassword(k, u, old, new) ==
    LET begun == [kind |-> "change", user |-> u, old |-> old, new |-> new,
                  pc |-> IF RequiresOldPassword(conf) THEN "confirm" ELSE "update",
                  settled |-> IF Changing(u) = {} THEN new ELSE None]
        blur(r) == IF r.user = u THEN [r EXCEPT !.settled = None] ELSE r
    IN  /\ Changes
        /\ conf.module = "dbi" /\ "_dn" \in conf.exports
        /\ task[k] = Idle
        /\ u \in member
        /\ old = None => ~RequiresOldPassword(conf)
        /\ Unsettle(u)
        /\ task' = [j \in Slot |->
                      IF j = k THEN begun
                      ELSE IF task[j] = Idle THEN Idle ELSE blur(task[j])]
        /\ pending' = [t \in Token |->
                         IF Live(t) THEN blur(pending[t]) ELSE pending[t]]
        /\ UNCHANGED <<conf, clock, stored, devices, member, won>>
        /\ last' = None

EndChange(k, done) ==
    /\ task' = [task EXCEPT ![k] = Idle]
    /\ settled' = [settled EXCEPT ![task[k].user] =
                     IF done THEN task[k].settled ELSE None]

(* confirm(): a query of its own.                                          *)
Confirm(k) ==
    /\ task[k].kind = "change"
    /\ task[k].pc = "confirm"
    /\ IF Confirms(conf, stored[PasswordColumns(conf)][task[k].user], task[k].old)
       THEN task' = [task EXCEPT ![k].pc = "update"] /\ UNCHANGED settled
       ELSE EndChange(k, FALSE)
    /\ UNCHANGED <<conf, clock, stored, devices, pending, member, won>>
    /\ last' = None

(* The database runs the update; then the module learns of it.             *)
Update(k) ==
    /\ task[k].kind = "change"
    /\ task[k].pc = "update"
    /\ stored' = [stored EXCEPT ![PasswordColumns(conf)][task[k].user] =
                    Stored(conf, task[k].new)]
    /\ task' = [task EXCEPT ![k].pc = "updated"]
    /\ UNCHANGED <<conf, clock, devices, pending, member, settled, won>>
    /\ last' = None

Updated(k) ==
    /\ task[k].kind = "change"
    /\ task[k].pc = "updated"
    /\ EndChange(k, TRUE)
    /\ UNCHANGED <<conf, clock, stored, devices, pending, member, won>>
    /\ last' = None

(* A query or a session update fails: the request ends with an error.      *)
Fail(k) ==
    /\ Faulty
    /\ task[k] # Idle
    /\ IF task[k].kind = "change"
       THEN EndChange(k, FALSE)
       ELSE task' = [task EXCEPT ![k] = Idle] /\ UNCHANGED settled
    /\ UNCHANGED <<conf, clock, stored, devices, pending, member, won>>
    /\ last' = None

-----------------------------------------------------------------------------
(* The registration module is loaded with that of verification.            *)

Registering ==
    /\ conf.registers
    /\ "TOTP" \in Loaded
    /\ \/ \E u \in User, o \in Object : u \in member /\ SessionToInfo(o, UserData(u))
       \/ RegNext
    /\ UNCHANGED <<clock, loginVars>>
    /\ last' = None

Tick ==
    /\ clock < MaxClock
    /\ clock' = clock + 1
    /\ UNCHANGED <<conf, stored, devices, pending, task, member, settled,
                   won>>
    /\ last' = None

LoginNext ==
    \/ \E k \in Slot :
         \/ \E u \in User, p \in Password : Login(k, u, p)
         \/ Authenticate(k) \/ LoadUser(k) \/ BlockedByPlugin(k)
         \/ Create(k) \/ Open(k)
         \/ \E t \in Token, c \in Code(0 .. MaxClock) : VerifySecondFactor(k, t, c)
         \/ Verified(k)
         \/ \E u \in User, old \in Password \cup {None}, new \in Password :
              ChangePassword(k, u, old, new)
         \/ Confirm(k) \/ Update(k) \/ Updated(k) \/ Fail(k)
    \/ \E t \in Token : ForgetExpired(t) \/ Cleanup(t)
    \/ Tick

Next == (LoginNext /\ UNCHANGED regVars) \/ Registering

Spec == Init /\ [][Next]_vars

-----------------------------------------------------------------------------
(* Once a verification of a pending authentication has succeeded, one that *)
(* is presented later opens no session, while the first session is still   *)
(* being stored or long after: routes/2fa.ts deletes the pending           *)
(* authentication before it awaits the session.  Verifications that all    *)
(* read it before one of them deletes it open a session each.              *)
VerifiedIsSpent == last # None /\ last.verdict = "opened" => ~last.late

(* A user whose attributes list a device of a loaded module gets a session *)
(* only with a code, and within sfLoginTimeout of the password, even when  *)
(* the timer that drops the pending authentication is late.                *)
SecondFactorKept ==
    last # None /\ last.verdict = "opened" =>
      /\ Is2FARequired(last.dev, Loaded) => last.second
      /\ last.age <= Timeout

(* The passwords that authenticate() recognises: those that auth-dbi sees, *)
(* and that are stored in a form that reads back as what it is.            *)
Readable(c) ==
    IF c.module = "demo" THEN Password
    ELSE IF AuthSees(c) THEN Storable(c) ELSE {}

(* Between changes of a password, the last one that was acknowledged       *)
(* decides: it opens a session, if it is one that authenticate()           *)
(* recognises, and no other one does.  What password-dbi writes is what    *)
(* auth-dbi reads.                                                         *)
AcknowledgedPasswordDecides ==
    last # None /\ last.settled # None =>
      /\ last.verdict = "opened" => last.pass = last.settled
      /\ last.verdict = "refused" /\ last.pass \in Readable(conf) =>
           last.pass # last.settled
=============================================================================
