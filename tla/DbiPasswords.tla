---------------------------- MODULE DbiPasswords ----------------------------
(***************************************************************************)
(* The SQL modules, as operators: which table and columns each of them     *)
(* takes from the configuration, what of a row they see through perl-dbi,  *)
(* how a password is stored and how it is compared with what a user types  *)
(* (packages/auth-dbi, userdb-dbi, password-dbi, perl-dbi).                *)
(*                                                                         *)
(* A stored value is a record: the scheme of its {SCHEME} prefix, if any,  *)
(* how the rest is encoded, with which digest, and of which password.      *)
(* Digests are ideal: two values are equal when their records are.         *)
(***************************************************************************)
EXTENDS Naturals

CONSTANTS
    Password,   \* what users type
    Braced,     \* the passwords of the form {x}y
    CryptLike,  \* the passwords that start like a Unix crypt: $1$, $5$, $6$
    MixedNames, \* the names of tables and columns with both cases
    UpperNames, \* those in upper case
    None        \* no value

ASSUME PasswordAssumption ==
    /\ Braced \cup CryptLike \subseteq Password
    /\ None \notin Password

-----------------------------------------------------------------------------
(* The configuration: the database of dbiAuthChain (None: a chain that     *)
(* does not parse), tables and columns or None, dbiDynamicHashEnabled,     *)
(* dbiDynamicHashNewPasswordScheme (None, or salted or not, with an        *)
(* algorithm), the valid algorithms of either kind, dbiAuthPasswordHash,   *)
(* portalRequireOldPassword, and the exported variables.                   *)

Or(a, b) == IF a # None THEN a ELSE b

(* extractDBIAuthConfig ...                                                *)
AuthColumns(c) ==
    [table |-> Or(c.authTable, c.userTable), login |-> Or(c.authLogin, c.userPivot),
     password |-> c.passwordCol]

(* ... extractDBIPasswordConfig, which has defaults of its own ...         *)
PasswordColumns(c) ==
    [table |-> Or(c.authTable, c.userTable),
     login |-> Or(Or(c.authLogin, c.userPivot), "user"),
     password |-> Or(c.passwordCol, "password")]

(* ... and extractDBIUserDBConfig.                                         *)
UserColumns(c) ==
    [table |-> Or(c.userTable, c.authTable),
     login |-> Or(Or(Or(c.userLogin, c.authLogin), c.userPivot), "user")]

(* init() of the modules: what they refuse to start without.               *)
AuthStarts(c) ==
    /\ c.db # None
    /\ None \notin {AuthColumns(c).table, AuthColumns(c).login, AuthColumns(c).password}

PasswordStarts(c) == c.db # None /\ PasswordColumns(c).table # None

UserStarts(c) == c.db # None /\ UserColumns(c).table # None

(* PerlDBI: names are folded as the database folds them, and the columns of*)
(* a result take back the names that a query of this client spelled.       *)
Folds(db, name) ==
    \/ db = "pg" /\ name \in MixedNames \cup UpperNames
    \/ db = "oracledb" /\ name \notin UpperNames

Sees(db, name, spelled) == Folds(db, name) => name \in spelled

(* authenticate() selects "*" by the login column: it spells the table and *)
(* that column; confirm() spells the password column as well.              *)
AuthSees(c) ==
    Sees(c.db, AuthColumns(c).password, {AuthColumns(c).table, AuthColumns(c).login})

(* shouldRequireOldPassword: any rule that is not a plain "no" requires it.*)
RequiresOldPassword(c) == c.requireOld \notin {"false", "0", "undefined"}

(* buildUserData: the exported variables that the row has.                 *)
Attribute(c, name, value, absent) ==
    IF name \in c.exports THEN value ELSE absent

-----------------------------------------------------------------------------
(* Passwords *)

Scheme == [salted : BOOLEAN, algo : {"sha", "sha256", "sha512", "md5", "sha384"}]

(* The digests the modules compute; of any other name the password itself  *)
(* is stored.                                                              *)
Known == {"sha", "sha256", "sha512", "md5"}

Value(tag, encoding, algo, pass) ==
    [tag |-> tag, enc |-> encoding, algo |-> algo, pass |-> pass]

Text(pass) == Value(None, "text", None, pass)

HashHex(pass, algo) ==
    IF algo \in Known THEN Value(None, "hex", algo, pass) ELSE Text(pass)

HashBase64(pass, tag) ==
    IF tag.algo \in Known THEN Value(tag, "base64", tag.algo, pass)
                          ELSE Value(tag, "text", None, pass)

HashSalted(pass, tag) ==
    IF tag.algo \in Known THEN Value(tag, "salted", tag.algo, pass)
                          ELSE Value(tag, "text", None, pass)

(* A scheme that is not valid falls back on the password as it is.         *)
HashNewPassword(conf, pass) ==
    LET s == conf.scheme
    IN  IF s = None THEN Text(pass)
        ELSE IF s.salted /\ s.algo \in conf.validSalted THEN HashSalted(pass, s)
        ELSE IF ~s.salted /\ s.algo \in conf.valid THEN HashBase64(pass, s)
        ELSE Text(pass)

(* What modifyPassword() writes.                                           *)
Stored(conf, pass) ==
    IF conf.dynamic THEN HashNewPassword(conf, pass)
    ELSE IF conf.hash # None THEN HashHex(pass, conf.hash)
    ELSE Text(pass)

(* Mutant of MatchesTagged: a scheme in s is taken for a salted one. *)
MatchesTaggedAnyS(value, pass) ==
    /\ value.tag # None
    /\ IF value.tag.salted \/ value.tag.algo # "md5"
       THEN value = Value(value.tag, "salted", value.tag.algo, pass)
       ELSE value = Value(value.tag, "base64", value.tag.algo, pass)

(* A value read back with a {SCHEME}: one of the schemes "ssha..." is      *)
(* salted; any other name is taken as a digest of node:crypto, which does  *)
(* not know "smd5", nor what a user put in braces.                         *)
MatchesTagged(value, pass) ==
    /\ value.tag # None
    /\ IF value.tag.salted /\ value.tag.algo # "md5"
       THEN value = Value(value.tag, "salted", value.tag.algo, pass)
       ELSE /\ ~value.tag.salted
            /\ value = Value(value.tag, "base64", value.tag.algo, pass)

IsTagged(value) == value.tag # None \/ (value.enc = "text" /\ value.pass \in Braced)

Compare(conf, value, pass) ==
    IF conf.dynamic \/ conf.hash = None THEN value = Text(pass)
                                        ELSE value = HashHex(pass, conf.hash)

(* verifyPassword of password-dbi, which does not know Unix crypt values, *)
Confirms(conf, value, pass) ==
    IF IsTagged(value) THEN MatchesTagged(value, pass)
                       ELSE Compare(conf, value, pass)

(* and that of auth-dbi, which refuses them.                           *)
Verifies(conf, value, pass) ==
    /\ IsTagged(value) \/ value.enc # "text" \/ value.pass \notin CryptLike
    /\ Confirms(conf, value, pass)

(* The passwords that the configuration stores in a form that auth-dbi     *)
(* takes for what it is.                                                   *)
Storable(conf) ==
    {p \in Password :
       IF Stored(conf, p).enc = "text"
       THEN Stored(conf, p).tag = None /\ p \notin Braced \cup CryptLike
       ELSE Stored(conf, p).tag = None \/ ~Stored(conf, p).tag.salted
              \/ Stored(conf, p).tag.algo # "md5"}
=============================================================================
