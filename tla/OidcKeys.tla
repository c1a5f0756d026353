------------------------------- MODULE OidcKeys -------------------------------
(***************************************************************************)
(* packages/lib-oidc/src/key-manager.ts: the keys a configuration gives,   *)
(* those that are published, and what they sign and decrypt.  A key file   *)
(* is a record: its number, the type of the key in it, whether it has the  *)
(* traditional form ("BEGIN RSA PRIVATE KEY") or PKCS#8, and whether the   *)
(* key can be read at all.                                                 *)
(***************************************************************************)
EXTENDS Integers, Sequences

CONSTANT NoKey

Type == {"RSA", "EC"}

Pem == [id : Nat, type : Type, traditional : BOOLEAN, readable : BOOLEAN]

(* A key that was loaded; kty is what the manager takes it for.            *)
Key == [id : Nat, type : Type, kty : Type]

(* The header of a PKCS#8 file does not tell an EC key from an RSA key.    *)
DetectKeyType(pem) ==
    IF pem.traditional /\ pem.type = "EC" THEN "EC" ELSE "RSA"

(* Conversion and import take any readable key, whatever the algorithm.    *)
Load(pem, declared) ==
    IF pem = NoKey \/ ~pem.readable THEN NoKey
    ELSE [id |-> pem.id, type |-> pem.type,
          kty |-> IF declared = NoKey THEN DetectKeyType(pem) ELSE declared]

(* The algorithm follows kty: with the wrong one no operation succeeds.    *)
Usable(key) == key # NoKey /\ key.kty = key.type

SignJWT(key) == Usable(key)

(* The public part comes from the configured file or else from the key; a  *)
(* broken file fails the set for signatures, and loses the key for         *)
(* encryption.                                                             *)
Published(key, public) ==
    IF key = NoKey \/ public = "broken" THEN <<>> ELSE <<key>>

JwksFails(sig, publicSig) == sig # NoKey /\ publicSig = "broken"

EncryptionKeys(enc, publicEnc, old) ==
    Published(enc, publicEnc) \o Published(old, "none")

(* Mutant of DecryptJWE: the old key is forgotten. *)
DecryptCurrent(enc, old, id) ==
    Usable(enc) /\ enc.id = id

DecryptJWE(enc, old, id) ==
    \E key \in {enc, old} \ {NoKey} : Usable(key) /\ key.id = id

(* What a client encrypts with: the first key of the set, if it can use it.*)
Preferred(keys) ==
    IF keys # <<>> /\ Usable(keys[1]) THEN keys[1].id ELSE NoKey
=============================================================================
