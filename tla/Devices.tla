------------------------------ MODULE Devices ------------------------------
(***************************************************************************)
(* The second-factor devices of a user, as packages/2fa-common keeps them  *)
(* in the attribute _2fDevices: operators from the list before to the list *)
(* after, and the TOTP codes of packages/2fa-totp.                         *)
(*                                                                         *)
(* The attribute is a JSON text.  Here it is Absent, Malformed, or the list *)
(* it holds.  A device is found by its type and its epoch, the second of   *)
(* its registration.                                                       *)
(***************************************************************************)
EXTENDS Integers, Sequences, SequencesExt

CONSTANTS
    Secret,     \* the secrets that are generated
    Absent,     \* no attribute
    WrongCode,  \* a code that no application shows
    Malformed   \* an attribute that does not parse

CONSTANTS
    Interval,   \* totp2fRange: steps accepted before and after
    DeviceTtl   \* totp2fTTL in ticks, 0: none

(* The name of a device is the number that its default name has, or Given. *)
Given == 0

Device == [type : {"TOTP", "other"}, name : Nat, epoch : Nat, secret : Secret]

(* parseDevices: what does not parse is an empty list.                     *)
ParseDevices(text) == IF text \in {Absent, Malformed} THEN <<>> ELSE text

(* What a list has at the positions of a set, in its order.                *)
Filtered(all, at) ==
    LET size  == Cardinality(at)
        order == CHOOSE f \in [1 .. size -> at] :
                   \A i, j \in 1 .. size : i < j => f[i] < f[j]
    IN  [i \in 1 .. size |-> all[order[i]]]

ByType(text, type) ==
    LET all == ParseDevices(text)
    IN  Filtered(all, {n \in DOMAIN all : all[n].type = type})

AddDevice(text, device) == Append(ParseDevices(text), device)

Same(d, type, epoch) == d.type = type /\ d.epoch = epoch

(* Every device of that type and second goes; the answer is whether one    *)
(* did, and nothing is written when none did.                              *)
RemoveDevice(text, type, epoch) ==
    LET all  == ParseDevices(text)
        kept == {n \in DOMAIN all : ~Same(all[n], type, epoch)}
    IN  IF kept = DOMAIN all THEN text ELSE Filtered(all, kept)

(* The first device of that type and second takes the new name.            *)
UpdateDevice(text, type, epoch, name) ==
    LET all == ParseDevices(text)
        at  == {n \in DOMAIN all : Same(all[n], type, epoch)}
    IN  IF at = {} THEN text
        ELSE [all EXCEPT ![CHOOSE n \in at : \A m \in at : n <= m].name = name]

(* What is left of a type once the expired ones are removed.               *)
RemoveExpired(text, type, now) ==
    IF DeviceTtl = 0 THEN text
    ELSE LET all  == ParseDevices(text)
             kept == {n \in DOMAIN all :
                        ~(all[n].type = type /\ now - all[n].epoch > DeviceTtl)}
         IN  IF kept = DOMAIN all THEN text ELSE Filtered(all, kept)

(* The list of TOTP2F: what verification and challenge work on.            *)
TotpDevices(text, now) == ByType(RemoveExpired(text, "TOTP", now), "TOTP")

(* is2FARequired, which does not look at the time-to-live.                 *)
Is2FARequired(text, loaded) ==
    text # Malformed /\ \E t \in loaded : ByType(text, t) # <<>>

-----------------------------------------------------------------------------
(* A code is what the application of a secret shows at a time, or          *)
(* something else.                                                         *)
Code(times) == [secret : Secret, at : times] \cup {WrongCode}

VerifyCode(secret, code, now) ==
    /\ code # WrongCode
    /\ code.secret = secret
    /\ now - code.at \in -Interval .. Interval

(* TOTP2F.verify: a code of any device that is left.                       *)
VerifyTotp(text, code, now) ==
    \E n \in DOMAIN TotpDevices(text, now) :
        VerifyCode(TotpDevices(text, now)[n].secret, code, now)
=============================================================================
