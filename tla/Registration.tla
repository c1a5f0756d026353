---------------------------- MODULE Registration ----------------------------
(***************************************************************************)
(* The registration of TOTP devices (packages/2fa-totp/src/register.ts,    *)
(* the base class and the token manager of packages/2fa-common).           *)
(*                                                                         *)
(* A request hands over a TwoFactorSessionInfo, and the module edits the   *)
(* list of devices in that object: it stores nothing.  What it awaits are  *)
(* the calls of an injected store of one-time tokens, and each await ends  *)
(* an action; deletion and renaming await nothing.  A token carries a      *)
(* secret, by which it goes here, and a user, whom nobody looks at.        *)
(***************************************************************************)
EXTENDS Devices, FiniteSets

CONSTANTS
    Enrolment,      \* verifications being served
    Object,         \* the session infos that requests hand over
    UserCanRemove,  \* totp2fUserCanRemove
    RegTimeout,     \* the time-out of a token
    MaxClock,       \* bound: the last tick
    Faulty          \* whether stores may fail

(* What does not parse is no list.                                         *)
ASSUME TextsAssumption == \A x \in {Absent, Malformed} : x \notin Seq(Device)

VARIABLES
    clock,
    drawn,      \* the secrets that were generated
    tokens,     \* the expiry of each stored token
    info,       \* _2fDevices of each session info
    enrol,      \* the verifications being served
    acked,      \* history: the tokens whose registration was acknowledged
    held        \* history: the devices acknowledged and not deleted since

regVars == <<drawn, tokens, info, enrol, acked, held>>

NoEnrolment == [pc |-> "none"]

RegInit ==
    /\ drawn = {}
    /\ tokens = [s \in {} |-> 0]
    /\ info = [o \in {} |-> Absent]
    /\ enrol = [k \in Enrolment |-> NoEnrolment]
    /\ acked = {}
    /\ held = [o \in Object |-> {}]

(* TwoFactorManager.sessionToInfo: an object for a session of the portal.  *)
SessionToInfo(o, text) ==
    /\ o \notin DOMAIN info
    /\ info' = [x \in DOMAIN info \cup {o} |-> IF x = o THEN text ELSE info[x]]
    /\ UNCHANGED <<drawn, tokens, enrol, acked, held>>

(* cleanExpired leaves these.                                              *)
Unexpired == {r \in DOMAIN tokens : tokens[r] >= clock}

(* getRegistrationData: a secret is drawn, and createToken() keeps it.     *)
GetKey(s) ==
    /\ DOMAIN info # {}
    /\ s \notin drawn
    /\ drawn' = drawn \cup {s}
    /\ tokens' = [r \in Unexpired \cup {s} |->
                    IF r = s THEN clock + RegTimeout ELSE tokens[r]]
    /\ UNCHANGED <<info, enrol, acked, held>>

(* verifyRegistration() counts the devices, for the name of the new one,   *)
(* and asks for the token.                                                 *)
VerifyRegistration(k, o, s) ==
    /\ enrol[k] = NoEnrolment
    /\ o \in DOMAIN info /\ s \in drawn
    /\ enrol' = [enrol EXCEPT ![k] =
                   [pc |-> "get", object |-> o, secret |-> s,
                    number |-> Len(ByType(info[o], "TOTP")) + 1,
                    late |-> s \in acked]]
    /\ UNCHANGED <<drawn, tokens, info, acked, held>>

Without(s) == [r \in DOMAIN tokens \ {s} |-> tokens[r]]

Found(s) == s \in DOMAIN tokens /\ tokens[s] >= clock

(* getToken(token, true) answered: the token is kept, unless it is too     *)
(* old, and the code that the request brought is verified.                 *)
GetToken(k, code) ==
    LET s == enrol[k].secret
    IN  /\ enrol[k].pc = "get"
        /\ tokens' = IF Found(s) THEN tokens ELSE Without(s)
        /\ enrol' = [enrol EXCEPT ![k] =
                       IF Found(s) /\ VerifyCode(s, code, clock)
                       THEN [@ EXCEPT !.pc = "delete"] ELSE NoEnrolment]
        /\ UNCHANGED <<drawn, info, acked, held>>

(* Mutant of Spent: the token stays for a retry. *)
Unspent(s) == tokens

Spent(s) == Without(s)

(* deleteToken() runs in the store; then the module learns of it.          *)
DeleteToken(k) ==
    /\ enrol[k].pc = "delete"
    /\ tokens' = Spent(enrol[k].secret)
    /\ enrol' = [enrol EXCEPT ![k].pc = "register"]
    /\ UNCHANGED <<drawn, info, acked, held>>

NewDevice(k) == [type |-> "TOTP", name |-> enrol[k].number, epoch |-> clock,
                 secret |-> enrol[k].secret]

(* Mutant of Registered: the device is put after those that were counted   *)
(* when the request came.                                                  *)
RegisteredAsCounted(k) ==
    LET all == ParseDevices(info[enrol[k].object])
    IN  Append([n \in {m \in DOMAIN all : m < enrol[k].number} |-> all[n]], NewDevice(k))

Registered(k) == AddDevice(info[enrol[k].object], NewDevice(k))

(* registerDevice(), and the acknowledgement.                              *)
RegisterDevice(k) ==
    LET o == enrol[k].object
        s == enrol[k].secret
    IN  /\ enrol[k].pc = "register"
        /\ info' = [info EXCEPT ![o] = Registered(k)]
        /\ enrol' = [enrol EXCEPT ![k] = NoEnrolment]
        /\ acked' = acked \cup {s}
        /\ held' = [held EXCEPT ![o] = @ \cup {[secret |-> s, epoch |-> clock]}]
        /\ UNCHANGED <<drawn, tokens>>

(* The store rejects a call, or its answer is lost.                        *)
EnrolmentFails(k) ==
    /\ Faulty
    /\ enrol[k] # NoEnrolment
    /\ enrol' = [enrol EXCEPT ![k] = NoEnrolment]
    /\ UNCHANGED <<drawn, tokens, info, acked, held>>

DeleteDevice(o, epoch) ==
    /\ UserCanRemove
    /\ o \in DOMAIN info
    /\ info' = [info EXCEPT ![o] = RemoveDevice(@, "TOTP", epoch)]
    /\ held' = [held EXCEPT ![o] = {d \in @ : d.epoch # epoch}]
    /\ UNCHANGED <<drawn, tokens, enrol, acked>>

ModifyDevice(o, epoch) ==
    /\ o \in DOMAIN info
    /\ info' = [info EXCEPT ![o] = UpdateDevice(@, "TOTP", epoch, Given)]
    /\ UNCHANGED <<drawn, tokens, enrol, acked, held>>

(* handleAction: the requests, and what they await.                        *)
RegNext ==
    \/ \E s \in Secret : GetKey(s)
    \/ \E k \in Enrolment :
         \/ \E o \in Object, s \in Secret : VerifyRegistration(k, o, s)
         \/ \E c \in Code(0 .. MaxClock) : GetToken(k, c)
         \/ DeleteToken(k) \/ RegisterDevice(k) \/ EnrolmentFails(k)
    \/ \E o \in Object, e \in 0 .. MaxClock : DeleteDevice(o, e) \/ ModifyDevice(o, e)

-----------------------------------------------------------------------------
(* Once a registration was acknowledged, its token serves no request that  *)
(* comes later, although it survives wrong codes.  Verifications of one    *)
(* token that overlap may each find it, and each register a device.        *)
AcknowledgedTokenIsSpent ==
    \A k \in Enrolment :
        enrol[k].pc \in {"delete", "register"} => ~enrol[k].late

(* A device whose registration was acknowledged stays in the session info  *)
(* that it was registered in until a deletion of its second is asked for,  *)
(* whatever verifications, deletions and renamings of the same session     *)
(* info run while one waits for the store of tokens: registerDevice reads  *)
(* the list after the awaits, and not with the devices that it counted     *)
(* before them.                                                            *)
AcknowledgedDevicesStay ==
    \A o \in DOMAIN info : \A d \in held[o] :
        \E n \in DOMAIN ParseDevices(info[o]) :
            /\ Same(ParseDevices(info[o])[n], "TOTP", d.epoch)
            /\ ParseDevices(info[o])[n].secret = d.secret
=============================================================================
