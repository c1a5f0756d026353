------------------------------ MODULE MCLogin ------------------------------
(* Small instances of Login.  Requests are alike, and so are tokens.       *)
EXTENDS Login, TLC

Symmetry == Permutations(Slot) \cup Permutations(Token) \cup Permutations(Enrolment)

(* A user has a TOTP device, or one of another module.                     *)
DeviceLists ==
    {<<[type |-> t, name |-> 1, epoch |-> 0, secret |-> s]>> :
        t \in {"TOTP", "other"}, s \in Secret}

Base ==
    [module |-> "dbi", db |-> "pg", authTable |-> None, userTable |-> "users",
     authLogin |-> None, userLogin |-> None, userPivot |-> "uid",
     passwordCol |-> "password", exports |-> {"_dn", "_2fDevices"},
     dynamic |-> FALSE, scheme |-> None, valid |-> {"sha", "sha256", "sha512"},
     validSalted |-> {"sha", "sha256", "sha512"}, hash |-> None,
     requireOld |-> "a rule", totp |-> TRUE, registers |-> FALSE]

Dynamic(salted, algo) ==
    [Base EXCEPT !.dynamic = TRUE, !.scheme = [salted |-> salted, algo |-> algo]]

(* Salted and unsalted schemes, one that no list allows, a static digest,  *)
(* plain text, a column that authenticate() does not see, the demo module, *)
(* with registrations or without a second factor; and configurations that  *)
(* do not start.                                                           *)
Configurations ==
    {Dynamic(TRUE, "sha256"),
     [Dynamic(FALSE, "sha") EXCEPT !.requireOld = "0"],
     [Dynamic(FALSE, "sha384") EXCEPT !.requireOld = "0", !.exports = {"_dn"}],
     [Base EXCEPT !.hash = "sha512", !.authTable = "auth", !.authLogin = "login"],
     [Base EXCEPT !.requireOld = "0", !.db = "sqlite3", !.passwordCol = "userPassword"],
     [Base EXCEPT !.requireOld = "0", !.passwordCol = "userPassword"],
     [Base EXCEPT !.module = "demo", !.registers = TRUE],
     [Base EXCEPT !.module = "demo", !.totp = FALSE],
     [Base EXCEPT !.passwordCol = None], [Base EXCEPT !.db = None]}

=============================================================================
