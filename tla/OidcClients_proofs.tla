-------------------------- MODULE OidcClients_proofs --------------------------
(***************************************************************************)
(* Proofs about OidcClients, for any number of requests, clients and keys, *)
(* any configurations and any registrations: all its invariants.           *)
(*                                                                         *)
(* Fresh keys rest on times: whatever key the provider has of a client was *)
(* published at a time that it remembers or later (Good).  Registrations   *)
(* rest on identifiers: a client that is being registered is new, and one  *)
(* that is registered is not drawn again.                                  *)
(***************************************************************************)
EXTENDS OidcClients, TLAPS

Kind == {"none", "authenticate", "authorize", "userinfo", "register", "logout"}

Pc == {"idle", "fetch", "fetched", "consent", "register", "next", "post"}

Cred == [secret : {None, "right", "wrong"}, signer : Int, exp : Int]

TaskState ==
    [kind : Kind, pc : Pc, client : Client \cup {None}, rp : Rp \cup {None},
     cred : Cred \cup {None}, types : SUBSET {"code", "token", "id_token"},
     now : Nat, got : Nat, todo : SUBSET Client, began : SUBSET Client,
     tried : SUBSET Client]

Types ==
    /\ clock \in Nat
    /\ conf \in Confs
    /\ \A k \in DOMAIN rps : rps[k] \in Rp
    /\ \A k \in DOMAIN saved : saved[k] \in Rp
    /\ cache \in [Client -> [key : Nat, exp : Nat]]
    /\ published \in [Client -> 1 .. MaxKey]
    /\ withdrawn \in [Client -> [1 .. MaxKey -> Nat \cup {Never}]]
    /\ registered \in [Client -> Nat \cup {Never}]
    /\ task \in [Slot -> TaskState]

-----------------------------------------------------------------------------
(* A key that a client published at a time or later.                       *)
Good(c, key, since) ==
    /\ key \in 1 .. MaxKey /\ since <= clock
    /\ withdrawn[c][key] = Never \/ withdrawn[c][key] >= since

Withdrawn ==
    \A c \in Client : \A n \in 1 .. MaxKey :
        n >= published[c] => withdrawn[c][n] = Never

CacheOk ==
    \A c \in Client :
        cache[c] = NoEntry \/ Good(c, cache[c].key, cache[c].exp - Ttl)

(* The options of a client: configured, in use, stored, on their way.      *)
Configured(c) == \E o \in conf.rps : o.client = c

Registering(k) == task[k].pc = "register"

IsOption(o) ==
    \/ \E k \in DOMAIN ConfiguredRps(conf) : o = ConfiguredRps(conf)[k]
    \/ \E k \in DOMAIN rps : o = rps[k]
    \/ \E k \in DOMAIN saved : o = saved[k]
    \/ \E k \in Slot : Registering(k) /\ o = task[k].rp

(* A client has one set of options, and keeps its key if they contain it.  *)
OptionsOk ==
    /\ \A o, p \in Rp :
          IsOption(o) /\ IsOption(p) /\ o.client = p.client => o = p
    /\ \A o \in Rp : IsOption(o) /\ o.jwks = "inline" => published[o.client] = 1

(* Who has options was configured or registered, and configured clients    *)
(* keep theirs.                                                            *)
Known(c) == Configured(c) \/ registered[c] # Never

RpsOk ==
    /\ \A k \in DOMAIN rps : Known(rps[k].client)
    /\ \A k \in DOMAIN saved : registered[saved[k].client] # Never
    /\ ~conf.callback => DOMAIN saved = {}

(* A registration is where it was put, unless another one of its second    *)
(* took the place.                                                         *)
KeptIn(f, r, c) ==
    r[c] # Never =>
        \/ \E d \in Client \ {c} : r[d] = r[c]
        \/ \E k \in DOMAIN f : k = <<"register", r[c]>> /\ f[k].client = c

Kept(c) == IF conf.callback THEN KeptIn(saved, registered, c)
           ELSE KeptIn(rps, registered, c)

TaskOk(t) ==
    /\ t.pc \in {"fetch", "fetched"} =>
         t.client \in Client /\ t.now <= clock
           /\ t.kind \in {"authenticate", "authorize", "userinfo"}
    /\ t.pc = "consent" => t.client \in Client /\ t.kind = "authorize"
    /\ t.pc = "fetched" => Good(t.client, t.got, t.now)
    /\ t.pc = "register" =>
         /\ conf.callback /\ t.client \in Client
         /\ t.rp \in Rp /\ t.rp.client = t.client
         /\ ~Known(t.client)
    /\ t.pc \in {"next", "post"} =>
         /\ \A c \in t.began : /\ c \in t.todo \/ c \in t.tried \/ GetRP(c) = None
                               /\ Known(c)
         /\ t.began # {} => SignJWT(keys.sig)

RegistersApart ==
    \A j, k \in Slot :
        j # k /\ Registering(j) /\ Registering(k) => task[j].client # task[k].client

-----------------------------------------------------------------------------
(* The keys of the provider are those of its stage of loading.             *)
EncsOk ==
    /\ gen \in 1 .. Len(EncPems)
    /\ encs = <<encs[1]>> \/ (gen > 1 /\ encs = <<encs[1], encs[2]>>)
    /\ encs[1] \in EncPems[gen]
    /\ Len(encs) = 2 => encs[2] \in EncPems[gen - 1]

EncLoaded ==
    IF stage \in {"old", "done"} THEN Load(encs[1], NoKey) ELSE NoKey

OldLoaded ==
    IF stage = "done" /\ Len(encs) = 2 THEN Load(encs[2], NoKey) ELSE NoKey

KeysOk ==
    /\ stage \in {"sig", "enc", "old", "done"}
    /\ \E s : /\ keys = [sig |-> s, enc |-> EncLoaded, old |-> OldLoaded]
              /\ stage = "sig" => s = NoKey

(* What clients picked up is a key that can be loaded.                     *)
PickedOk ==
    \A id \in picked :
        \E n \in 1 .. Len(encs) : encs[n].id = id /\ Usable(Load(encs[n], NoKey))

FilesInv == EncsOk /\ KeysOk /\ PickedOk

LastOk == KeyFresh /\ AllAreTold /\ ReturnsHome

ClientsInv ==
    /\ Types /\ Withdrawn /\ CacheOk /\ OptionsOk /\ RpsOk
    /\ \A c \in Client : Kept(c)
    /\ \A k \in Slot : TaskOk(task[k])
    /\ RegistersApart

Inv == ClientsInv /\ FilesInv /\ LastOk

-----------------------------------------------------------------------------
(* The keys that are loaded.                                               *)

LEMMA LoadedRecord ==
    ASSUME NEW s, NEW e, NEW o, NEW x
    PROVE  LET r == [sig |-> s, enc |-> e, old |-> o]
           IN /\ [r EXCEPT !.sig = x] = [sig |-> x, enc |-> e, old |-> o]
              /\ [r EXCEPT !.enc = x] = [sig |-> s, enc |-> x, old |-> o]
              /\ [r EXCEPT !.old = x] = [sig |-> s, enc |-> e, old |-> x]
OBVIOUS

LEMMA KeysLoaded ==
    ASSUME KeysOk
    PROVE  keys.enc = EncLoaded /\ keys.old = OldLoaded
BY DEF KeysOk

LEMMA LoadKeyFiles ==
    ASSUME FilesInv, LoadKey
    PROVE  FilesInv'
<1>1. UNCHANGED <<gen, encs, picked, conf>>
  BY DEF LoadKey
<1>2. EncsOk' /\ PickedOk'
  BY <1>1 DEF FilesInv, EncsOk, PickedOk
<1>3. Len(encs) \in {1, 2}
  BY DEF FilesInv, EncsOk
<1>4. PICK s : keys = [sig |-> s, enc |-> EncLoaded, old |-> OldLoaded]
  BY DEF FilesInv, KeysOk
<1>5. SUFFICES KeysOk'
  BY <1>2 DEF FilesInv
<1>6. CASE stage = "sig" /\ stage' = "enc"
           /\ keys' = [keys EXCEPT !.sig = Load(conf.sig, conf.sigType)]
  <2>1. keys' = [sig |-> Load(conf.sig, conf.sigType),
                 enc |-> EncLoaded, old |-> OldLoaded]
    BY <1>4, <1>6, LoadedRecord, Zenon
  <2>2. EncLoaded' = EncLoaded /\ OldLoaded' = OldLoaded
    BY <1>6 DEF EncLoaded, OldLoaded
  <2>. QED
    BY <1>6, <2>1, <2>2 DEF KeysOk
<1>7. CASE stage = "enc" /\ stage' = "old"
           /\ keys' = [keys EXCEPT !.enc = Load(encs[1], NoKey)]
  <2>1. keys' = [sig |-> s, enc |-> Load(encs[1], NoKey), old |-> OldLoaded]
    BY <1>4, <1>7, LoadedRecord, Zenon
  <2>2. EncLoaded' = Load(encs[1], NoKey) /\ OldLoaded' = OldLoaded
    BY <1>1, <1>7 DEF EncLoaded, OldLoaded
  <2>. QED
    BY <1>7, <2>1, <2>2 DEF KeysOk
<1>8. CASE stage = "old" /\ stage' = "done"
           /\ keys' = [keys EXCEPT !.old =
                         IF Len(encs) = 1 THEN NoKey ELSE Load(encs[2], NoKey)]
  <2>. DEFINE x == IF Len(encs) = 1 THEN NoKey ELSE Load(encs[2], NoKey)
  <2>1. keys' = [sig |-> s, enc |-> EncLoaded, old |-> x]
    BY <1>4, <1>8, LoadedRecord, Zenon
  <2>2. EncLoaded' = EncLoaded /\ OldLoaded' = x
    BY <1>1, <1>3, <1>8 DEF EncLoaded, OldLoaded
  <2>. QED
    BY <1>8, <2>1, <2>2 DEF KeysOk
<1>. QED
  BY <1>6, <1>7, <1>8, Zenon DEF LoadKey

LEMMA BuildJWKSFiles ==
    ASSUME FilesInv, BuildJWKS
    PROVE  FilesInv'
<1>. DEFINE s == EncryptionKeys(keys.enc, conf.publicEnc, keys.old)
            id == Preferred(s)
<1>1. /\ UNCHANGED <<gen, encs, stage, keys>> /\ id # NoKey
      /\ picked' = picked \cup {id}
  BY DEF BuildJWKS, files
<1>2. s # <<>> /\ Usable(s[1]) /\ id = s[1].id
  BY <1>1 DEF Preferred
<1>3. s[1] \in {keys.enc, keys.old}
  <2>1. CASE Published(keys.enc, conf.publicEnc) = <<>>
    <3>1. s = Published(keys.old, "none")
      <4>1. \/ Published(keys.old, "none") = <<>>
            \/ Published(keys.old, "none") = <<keys.old>>
        BY DEF Published
      <4>2. <<>> \o <<>> = <<>> /\ \A x : <<>> \o <<x>> = <<x>>
        OBVIOUS
      <4>. QED
        BY <2>1, <4>1, <4>2, Zenon DEF EncryptionKeys
    <3>. QED
      BY <1>2, <3>1 DEF Published
  <2>2. CASE Published(keys.enc, conf.publicEnc) = <<keys.enc>>
    BY <2>2 DEF EncryptionKeys, Published
  <2>. QED
    BY <2>1, <2>2 DEF Published
<1>4. s[1] # NoKey
  BY <1>2 DEF Usable
<1>5. \E n \in 1 .. Len(encs) : s[1] = Load(encs[n], NoKey)
  BY <1>3, <1>4, KeysLoaded DEF FilesInv, EncsOk, EncLoaded, OldLoaded
<1>6. \E n \in 1 .. Len(encs) : encs[n].id = id /\ Usable(Load(encs[n], NoKey))
  BY <1>2, <1>4, <1>5 DEF Load
<1>. QED
  BY <1>1, <1>6 DEF FilesInv, EncsOk, KeysOk, PickedOk, EncLoaded, OldLoaded

LEMMA RotateFiles ==
    ASSUME conf \in Confs, FilesInv, Rotate
    PROVE  FilesInv'
<1>1. PICK p \in EncPems[gen + 1] : encs' = <<p, encs[1]>>
  BY DEF Rotate
<1>2. /\ gen' = gen + 1 /\ stage' = "sig" /\ keys' = NoKeys /\ gen < conf.maxGen
      /\ picked' = picked \cap {encs[1].id}
  BY DEF Rotate
<1>3. gen \in 1 .. Len(EncPems) /\ gen' \in 1 .. Len(EncPems) /\ conf.maxGen \in Nat
  BY <1>2, EncPemsAssumption, ConfsAssumption DEF FilesInv, EncsOk, Conf
<1>4. EncsOk'
  BY <1>1, <1>2, <1>3 DEF FilesInv, EncsOk
<1>5. KeysOk'
  BY <1>2 DEF KeysOk, NoKeys, EncLoaded, OldLoaded
<1>6. ASSUME NEW id \in picked'
      PROVE  encs[1].id = id /\ Usable(Load(encs[1], NoKey))
  <2>1. PICK n \in 1 .. Len(encs) : encs[n].id = id /\ Usable(Load(encs[n], NoKey))
    BY <1>2, <1>6 DEF FilesInv, PickedOk
  <2>2. encs[1].id = id
    BY <1>2, <1>6
  <2>3. CASE n = 1
    BY <2>1, <2>3
  <2>4. CASE n # 1
    <3>1. n = 2 /\ Len(encs) = 2 /\ gen > 1
      BY <2>1, <2>4 DEF FilesInv, EncsOk
    <3>2. encs[2] \in EncPems[gen - 1] /\ encs[1] \in EncPems[gen]
      BY <3>1 DEF FilesInv, EncsOk
    <3>. QED
      BY <1>3, <2>1, <2>2, <3>1, <3>2, EncPemsAssumption
  <2>. QED
    BY <2>3, <2>4
<1>7. PickedOk'
  BY <1>1, <1>6 DEF PickedOk
<1>. QED
  BY <1>4, <1>5, <1>7 DEF FilesInv

LEMMA SameFiles ==
    ASSUME FilesInv, UNCHANGED <<files, picked>>
    PROVE  FilesInv'
BY DEF files, FilesInv, EncsOk, KeysOk, PickedOk, EncLoaded, OldLoaded

LEMMA InvJwksDecrypts == FilesInv => JwksDecrypts
<1>. SUFFICES ASSUME FilesInv, stage = "done", NEW id \in picked
              PROVE  DecryptJWE(keys.enc, keys.old, id)
  BY DEF JwksDecrypts
<1>1. PICK n \in 1 .. Len(encs) : encs[n].id = id /\ Usable(Load(encs[n], NoKey))
  BY DEF FilesInv, PickedOk
<1>2. Load(encs[n], NoKey) \in {keys.enc, keys.old}
  BY <1>1, KeysLoaded DEF FilesInv, EncsOk, EncLoaded, OldLoaded
<1>3. Load(encs[n], NoKey) # NoKey /\ Load(encs[n], NoKey).id = id
  BY <1>1 DEF Usable, Load
<1>. QED
  BY <1>1, <1>2, <1>3 DEF DecryptJWE

-----------------------------------------------------------------------------
(* The options of clients.                                                 *)

LEMMA ConstantTypes ==
    /\ MaxKey \in Nat /\ Ttl \in Nat /\ MaxClock \in Nat /\ AssertionTtl \in Nat
    /\ Ttl > 0 /\ MaxKey > 0 /\ Never \notin Nat
    /\ None \notin Client /\ None \notin Rp
    /\ \A c \in Confs : c.rps \subseteq Rp /\ c.maxGen \in Nat
BY ConfsAssumption DEF Conf

LEMMA ConfiguredKeys ==
    ASSUME conf \in Confs, NEW k \in DOMAIN ConfiguredRps(conf)
    PROVE  /\ ConfiguredRps(conf)[k] \in conf.rps
           /\ ConfiguredRps(conf)[k] \in Rp
           /\ k = <<"rp", ConfiguredRps(conf)[k].client>>
<1>1. PICK o \in conf.rps : k = <<"rp", o.client>>
  BY DEF ConfiguredRps
<1>2. ConfiguredRps(conf)[k] = CHOOSE q \in conf.rps : q.client = k[2]
  BY <1>1 DEF ConfiguredRps
<1>3. o.client = k[2]
  BY <1>1
<1>4. /\ ConfiguredRps(conf)[k] \in conf.rps
      /\ ConfiguredRps(conf)[k].client = k[2]
  BY <1>1, <1>2, <1>3
<1>. QED
  BY <1>1, <1>4, ConstantTypes

LEMMA GetRPIs ==
    ASSUME Types, NEW c
    PROVE  /\ GetRP(c) # None =>
                \E k \in DOMAIN rps : rps[k] = GetRP(c) /\ rps[k].client = c
                                     /\ rps[k] \in Rp
           /\ GetRP(c) = None => \A k \in DOMAIN rps : rps[k].client # c
<1>1. CASE \E k \in DOMAIN rps : rps[k].client = c
  <2>. DEFINE j == CHOOSE k \in DOMAIN rps : rps[k].client = c
  <2>1. j \in DOMAIN rps /\ rps[j].client = c
    BY <1>1
  <2>2. GetRP(c) = rps[j]
    BY <1>1 DEF GetRP
  <2>3. rps[j] \in Rp
    BY <2>1 DEF Types
  <2>. QED
    BY <2>1, <2>2, <2>3, ConstantTypes
<1>2. CASE ~ \E k \in DOMAIN rps : rps[k].client = c
  BY <1>2 DEF GetRP
<1>. QED
  BY <1>1, <1>2

(* The key at hand is one that was published less than Ttl ago.            *)
FreshKey(c, key, since) ==
    withdrawn[c][key] = Never \/ withdrawn[c][key] > since - Ttl

LEMMA AtHandFresh ==
    ASSUME ClientsInv, NEW c \in Client, GetRP(c) # None
    PROVE  /\ AtHand(GetRP(c)) \in Nat
           /\ AtHand(GetRP(c)) # 0 => FreshKey(c, AtHand(GetRP(c)), clock)
<1>1. PICK k \in DOMAIN rps : rps[k] = GetRP(c) /\ rps[k].client = c /\ rps[k] \in Rp
  BY GetRPIs DEF ClientsInv
<1>2. CASE GetRP(c).jwks = "inline"
  <2>1. published[c] = 1
    BY <1>1, <1>2 DEF ClientsInv, OptionsOk, IsOption
  <2>2. withdrawn[c][1] = Never
    BY <2>1, ConstantTypes DEF ClientsInv, Withdrawn
  <2>. QED
    BY <1>2, <2>2 DEF AtHand, FreshKey
<1>3. CASE GetRP(c).jwks # "inline"
  <2>1. cache[c] \in [key : Nat, exp : Nat] /\ clock \in Nat
    BY DEF ClientsInv, Types
  <2>2. CASE cache[c].exp > clock
    <3>1. cache[c] # NoEntry
      BY <2>1, <2>2 DEF NoEntry
    <3>2. Good(c, cache[c].key, cache[c].exp - Ttl)
      BY <3>1 DEF ClientsInv, CacheOk
    <3>3. withdrawn[c][cache[c].key] \in Nat \cup {Never}
      <4>1. cache[c].key \in 1 .. MaxKey
        BY <3>2 DEF Good
      <4>2. withdrawn[c] \in [1 .. MaxKey -> Nat \cup {Never}]
        BY DEF ClientsInv, Types
      <4>. QED
        BY <4>1, <4>2
    <3>4. AtHand(GetRP(c)) = cache[c].key
      BY <1>1, <1>3, <2>2 DEF AtHand
    <3>5. \/ withdrawn[c][cache[c].key] = Never
          \/ /\ withdrawn[c][cache[c].key] \in Nat
             /\ withdrawn[c][cache[c].key] >= cache[c].exp - Ttl
      BY <3>2, <3>3 DEF Good
    <3>6. FreshKey(c, cache[c].key, clock)
      BY <2>1, <2>2, <3>5, ConstantTypes DEF FreshKey
    <3>. QED
      BY <2>1, <3>4, <3>6
  <2>3. CASE ~(cache[c].exp > clock)
    BY <1>1, <1>3, <2>3 DEF AtHand
  <2>. QED
    BY <2>2, <2>3
<1>. QED
  BY <1>2, <1>3

-----------------------------------------------------------------------------
(* Steps that change one request, and perhaps the cache.                   *)

LEMMA IdleOk == Idle \in TaskState /\ TaskOk(Idle)
BY DEF Idle, TaskState, Kind, Pc, TaskOk

Others == <<clock, conf, rps, saved, published, withdrawn, files, registered>>

LEMMA Served ==
    ASSUME ClientsInv, NEW k \in Slot, NEW t \in TaskState, TaskOk(t),
           t.pc # "register", task' = [task EXCEPT ![k] = t], UNCHANGED Others,
           CacheOk', cache' \in [Client -> [key : Nat, exp : Nat]]
    PROVE  ClientsInv'
<1>1. \A j \in Slot : task'[j] = IF j = k THEN t ELSE task[j]
  BY DEF ClientsInv, Types
<1>2. Types'
  BY <1>1 DEF ClientsInv, Types, Others
<1>3. Withdrawn'
  BY DEF ClientsInv, Withdrawn, Others
<1>4. OptionsOk'
  <2>1. ASSUME NEW o, IsOption(o)'
        PROVE  IsOption(o)
    BY <1>1, <2>1 DEF IsOption, Registering, Others
  <2>. QED
    BY <2>1 DEF ClientsInv, OptionsOk, Others
<1>5. RpsOk'
  BY DEF ClientsInv, RpsOk, Known, Configured, Others
<1>6. \A c \in Client : Kept(c)'
  BY DEF ClientsInv, Kept, Others
<1>7. \A j \in Slot : TaskOk(task[j])'
  <2>1. ASSUME NEW u, TaskOk(u)
        PROVE  TaskOk(u)'
    <3>1. UNCHANGED <<clock, conf, rps, withdrawn, registered, keys>>
      BY DEF Others, files
    <3>2. \A c : (GetRP(c)' = GetRP(c)) /\ (Known(c)' <=> Known(c))
      BY <3>1 DEF GetRP, Known, Configured
    <3>3. \A c, key, since : Good(c, key, since)' <=> Good(c, key, since)
      BY <3>1 DEF Good
    <3>. QED
      BY <2>1, <3>1, <3>2, <3>3 DEF TaskOk
  <2>2. \A j \in Slot : TaskOk(task'[j])
    BY <1>1 DEF ClientsInv
  <2>. QED
    BY <2>1, <2>2
<1>8. RegistersApart'
  BY <1>1 DEF ClientsInv, RegistersApart, Registering
<1>. QED
  BY <1>2, <1>3, <1>4, <1>5, <1>6, <1>7, <1>8 DEF ClientsInv

LEMMA NothingSaid == last' = NoAnswer => LastOk'
BY DEF NoAnswer, LastOk, KeyFresh, AllAreTold, ReturnsHome

LEMMA KeyUsed ==
    ASSUME NEW t \in TaskState, NEW key \in Nat, t.client \in Client,
           key # 0 => FreshKey(t.client, key, t.now),
           UNCHANGED withdrawn, last' = Used(t, key)
    PROVE  LastOk'
<1>1. /\ last'.kind = t.kind /\ last'.client = t.client
      /\ last'.key = key /\ last'.start = t.now
  BY DEF Used, NoAnswer
<1>2. t.kind \notin {"notified", "redirect"}
  BY DEF TaskState, Kind
<1>. QED
  BY <1>1, <1>2 DEF LastOk, KeyFresh, AllAreTold, ReturnsHome, FreshKey

ServedOnly == <<clock, conf, rps, saved, cache, published, withdrawn, files,
                picked, registered>>

LEMMA SameCache ==
    ASSUME ClientsInv, UNCHANGED <<clock, cache, withdrawn>>
    PROVE  CacheOk' /\ cache' \in [Client -> [key : Nat, exp : Nat]]
<1>1. \A c, key, since : Good(c, key, since)' <=> Good(c, key, since)
  BY DEF Good
<1>2. CacheOk'
  BY <1>1 DEF ClientsInv, CacheOk
<1>. QED
  BY <1>2 DEF ClientsInv, Types

LEMMA Changed ==
    ASSUME Inv, NEW k \in Slot, NEW t \in TaskState, TaskOk(t),
           t.pc # "register", task' = [task EXCEPT ![k] = t],
           UNCHANGED ServedOnly, LastOk'
    PROVE  Inv'
<1>1. CacheOk' /\ cache' \in [Client -> [key : Nat, exp : Nat]]
  BY SameCache DEF Inv, ServedOnly
<1>2. ClientsInv'
  BY <1>1, Served DEF Inv, ServedOnly, Others
<1>3. FilesInv'
  BY SameFiles DEF Inv, ServedOnly
<1>. QED
  BY <1>2, <1>3 DEF Inv

LEMMA Awaits ==
    ASSUME Inv, NEW k \in Slot, NEW t \in TaskState, TaskOk(t),
           t.pc # "register", Await(k, t), UNCHANGED ServedOnly
    PROVE  Inv'
BY Changed, NothingSaid DEF Await

LEMMA Answers ==
    ASSUME Inv, NEW k \in Slot, NEW a, Answer(k, a), UNCHANGED ServedOnly,
           last' = a => LastOk'
    PROVE  Inv'
<1>. Idle.pc # "register"
  BY DEF Idle
<1>. QED
  BY Changed, IdleOk DEF Answer

LEMMA Ends ==
    ASSUME Inv, NEW k \in Slot, End(k), UNCHANGED ServedOnly
    PROVE  Inv'
BY Answers, NothingSaid DEF End

LEMMA AnswersWith ==
    ASSUME Inv, NEW k \in Slot, NEW t \in TaskState, NEW key \in Nat,
           t.client \in Client, key # 0 => FreshKey(t.client, key, t.now),
           Answer(k, Used(t, key)), UNCHANGED ServedOnly
    PROVE  Inv'
<1>1. UNCHANGED withdrawn
  BY DEF ServedOnly
<1>2. last' = Used(t, key) => LastOk'
  BY <1>1, KeyUsed
<1>. QED
  BY <1>2, Answers

LEMMA Fetches ==
    ASSUME Inv, NEW k \in Slot, NEW t \in TaskState, t.client \in Client,
           t.kind \in {"authenticate", "authorize", "userinfo"},
           Fetch(k, t), UNCHANGED ServedOnly
    PROVE  Inv'
<1>. DEFINE u(n) == [t EXCEPT !.pc = "fetch", !.now = n]
<1>1. clock \in Nat
  BY DEF Inv, ClientsInv, Types
<1>2. PICK n \in Nat : n = clock
  BY <1>1
<1>3. u(n) \in TaskState
  BY DEF TaskState, Pc
<1>4. TaskOk(u(n)) /\ u(n).pc # "register"
  BY <1>2 DEF TaskState, TaskOk
<1>5. Await(k, u(n))
  BY <1>2 DEF Fetch
<1>. HIDE DEF u
<1>. QED
  BY <1>3, <1>4, <1>5, Awaits

-----------------------------------------------------------------------------
(* The requests that use a key of a client.                                *)

LEMMA UsesKeyAtHand ==
    ASSUME Inv, NEW k \in Slot, NEW t \in TaskState, t.client \in Client,
           t.now = clock, GetRP(t.client) # None, AtHand(GetRP(t.client)) # 0,
           Answer(k, Used(t, AtHand(GetRP(t.client)))), UNCHANGED ServedOnly
    PROVE  Inv'
<1>1. PICK key \in Nat : key = AtHand(GetRP(t.client))
  BY AtHandFresh DEF Inv
<1>2. FreshKey(t.client, key, t.now)
  BY <1>1, AtHandFresh DEF Inv
<1>. QED
  BY <1>1, <1>2, AnswersWith

LEMMA UsesNoKey ==
    ASSUME Inv, NEW k \in Slot, NEW t \in TaskState, t.client \in Client,
           Answer(k, Used(t, 0)), UNCHANGED ServedOnly
    PROVE  Inv'
BY AnswersWith

LEMMA AuthenticateInv ==
    ASSUME Inv, NEW k \in Slot, Authenticate(k)
    PROVE  Inv'
<1>1. UNCHANGED ServedOnly
  BY DEF Authenticate, ServedOnly
<1>2. PICK c \in Client, cred \in Credentials : ValidateClientAuth(k, c, cred)
  BY DEF Authenticate
<1>3. clock \in Nat
  BY DEF Inv, ClientsInv, Types
<1>4. cred \in Cred
  BY <1>3, ConstantTypes DEF Credentials, Cred, Secret
<1>5. PICK n \in Nat : n = clock
  BY <1>3
<1>. DEFINE t == [Idle EXCEPT !.kind = "authenticate", !.client = c,
                              !.cred = cred, !.now = n]
<1>6. t \in TaskState
  BY <1>4, IdleOk DEF TaskState, Kind
<1>7. t.client = c /\ t.now = n /\ t.kind = "authenticate" /\ t.cred = cred
  BY DEF Idle
<1>8. \/ End(k)
      \/ Answer(k, Used(t, 0))
      \/ /\ GetRP(c) # None /\ AtHand(GetRP(c)) # 0
         /\ Answer(k, Used(t, AtHand(GetRP(c))))
      \/ Fetch(k, t)
  BY <1>2, <1>5 DEF ValidateClientAuth, VerifyClientAssertion
<1>. HIDE DEF t
<1>. QED
  BY <1>1, <1>5, <1>6, <1>7, <1>8, Ends, UsesNoKey, UsesKeyAtHand, Fetches

LEMMA TaskTyped ==
    ASSUME Inv, NEW k \in Slot
    PROVE  task[k] \in TaskState /\ TaskOk(task[k]) /\ clock \in Nat
BY DEF Inv, ClientsInv, Types

LEMMA AuthorizeInv ==
    ASSUME Inv, NEW k \in Slot, Authorize(k)
    PROVE  Inv'
<1>1. UNCHANGED ServedOnly
  BY DEF Authorize, ServedOnly
<1>2. PICK c \in Client, types \in SUBSET {"code", "token", "id_token"} :
         Await(k, [Idle EXCEPT !.kind = "authorize", !.pc = "consent",
                               !.client = c, !.types = types \ {"code"}])
  BY DEF Authorize
<1>. DEFINE t == [Idle EXCEPT !.kind = "authorize", !.pc = "consent",
                              !.client = c, !.types = types \ {"code"}]
<1>3. t \in TaskState
  BY IdleOk DEF TaskState, Kind, Pc
<1>4. t.pc = "consent" /\ t.client = c /\ t.kind = "authorize"
  BY DEF Idle
<1>5. Await(k, t)
  BY <1>2
<1>. HIDE DEF t
<1>6. TaskOk(t)
  BY <1>4 DEF TaskOk
<1>. QED
  BY <1>1, <1>3, <1>4, <1>5, <1>6, Awaits

LEMMA ConsentInv ==
    ASSUME Inv, NEW k \in Slot, Consent(k)
    PROVE  Inv'
<1>1. UNCHANGED ServedOnly
  BY DEF Consent, ServedOnly
<1>2. PICK n \in Nat : n = clock
  BY TaskTyped
<1>3. PICK u \in TaskState : u = task[k]
  BY TaskTyped
<1>4. u.client \in Client /\ u.kind = "authorize"
  BY <1>3, TaskTyped DEF Consent, TaskOk
<1>. DEFINE t == [u EXCEPT !.types = {}, !.now = n]
<1>5. t \in TaskState
  BY DEF TaskState
<1>6. t.client = u.client /\ t.now = n /\ t.kind = "authorize"
  BY <1>4 DEF TaskState
<1>7. \/ End(k)
      \/ Answer(k, Used(t, 0))
      \/ /\ GetRP(u.client) # None /\ AtHand(GetRP(u.client)) # 0
         /\ Answer(k, Used(t, AtHand(GetRP(u.client))))
      \/ Fetch(k, t)
  BY <1>2, <1>3 DEF Consent, SignAndEncryptIdToken
<1>. HIDE DEF t
<1>. QED
  BY <1>1, <1>2, <1>4, <1>5, <1>6, <1>7, Ends, UsesNoKey, UsesKeyAtHand, Fetches

LEMMA ConsentRefusedInv ==
    ASSUME Inv, NEW k \in Slot, ConsentRefused(k)
    PROVE  Inv'
BY Ends DEF ConsentRefused, ServedOnly

LEMMA UserInfoInv ==
    ASSUME Inv, NEW k \in Slot, UserInfo(k)
    PROVE  Inv'
<1>1. UNCHANGED ServedOnly
  BY DEF UserInfo, ServedOnly
<1>2. PICK n \in Nat : n = clock
  BY TaskTyped
<1>3. PICK c \in Client :
         \/ End(k)
         \/ LET t == [Idle EXCEPT !.kind = "userinfo", !.client = c, !.now = n]
            IN \/ /\ GetRP(c) # None /\ AtHand(GetRP(c)) # 0
                  /\ Answer(k, Used(t, AtHand(GetRP(c))))
               \/ Fetch(k, t)
  BY <1>2 DEF UserInfo
<1>. DEFINE t == [Idle EXCEPT !.kind = "userinfo", !.client = c, !.now = n]
<1>4. t \in TaskState
  BY IdleOk DEF TaskState, Kind
<1>5. t.client = c /\ t.now = n /\ t.kind = "userinfo"
  BY DEF Idle
<1>6. \/ End(k)
      \/ /\ GetRP(c) # None /\ AtHand(GetRP(c)) # 0
         /\ Answer(k, Used(t, AtHand(GetRP(c))))
      \/ Fetch(k, t)
  BY <1>3
<1>. HIDE DEF t
<1>. QED
  BY <1>1, <1>2, <1>4, <1>5, <1>6, Ends, UsesKeyAtHand, Fetches

-----------------------------------------------------------------------------
(* The answers of a client's server.                                       *)

LEMMA ServerAnswersInv ==
    ASSUME Inv, NEW k \in Slot, ServerAnswers(k)
    PROVE  Inv'
<1>1. UNCHANGED ServedOnly
  BY DEF ServerAnswers, ServedOnly
<1>2. PICK u \in TaskState : u = task[k]
  BY TaskTyped
<1>3. TaskOk(u) /\ u.pc = "fetch"
  BY <1>2, TaskTyped DEF ServerAnswers
<1>4. u.client \in Client /\ u.now <= clock
      /\ u.kind \in {"authenticate", "authorize", "userinfo"}
  BY <1>3 DEF TaskOk
<1>5. PICK n \in 1 .. MaxKey : n = published[u.client]
  BY <1>4 DEF Inv, ClientsInv, Types
<1>6. Good(u.client, n, u.now)
  <2>1. withdrawn[u.client][n] = Never
    BY <1>4, <1>5, ConstantTypes DEF Inv, ClientsInv, Withdrawn
  <2>. QED
    BY <1>4, <2>1 DEF Good
<1>. DEFINE t == [u EXCEPT !.pc = "fetched", !.got = n]
<1>7. t \in TaskState
  <2>. n \in Nat
    BY ConstantTypes
  <2>. QED
    BY DEF TaskState, Pc
<1>8. /\ t.pc = "fetched" /\ t.got = n /\ t.client = u.client
      /\ t.now = u.now /\ t.kind = u.kind
  BY DEF TaskState
<1>9. Await(k, t)
  BY <1>2, <1>5 DEF ServerAnswers
<1>. HIDE DEF t
<1>10. TaskOk(t)
  BY <1>4, <1>6, <1>8 DEF TaskOk
<1>. QED
  BY <1>1, <1>7, <1>8, <1>9, <1>10, Awaits

LEMMA FetchReturnsInv ==
    ASSUME Inv, NEW k \in Slot, FetchReturns(k)
    PROVE  Inv'
<1>1. PICK u \in TaskState : u = task[k]
  BY TaskTyped
<1>2. u.client \in Client /\ Good(u.client, u.got, u.now) /\ u.now \in Nat
  BY <1>1, TaskTyped DEF FetchReturns, TaskOk, TaskState
<1>3. UNCHANGED Others /\ UNCHANGED <<files, picked>>
  BY DEF FetchReturns, Others
<1>4. cache' = [cache EXCEPT ![u.client] = [key |-> u.got, exp |-> u.now + Ttl]]
  BY <1>1 DEF FetchReturns
<1>5. cache' \in [Client -> [key : Nat, exp : Nat]]
  <2>. u.got \in Nat /\ u.now + Ttl \in Nat
    BY <1>2, ConstantTypes DEF TaskState
  <2>. QED
    BY <1>4 DEF Inv, ClientsInv, Types
<1>6. \A c, key, since : Good(c, key, since)' <=> Good(c, key, since)
  BY <1>3 DEF Good, Others
<1>7. CacheOk'
  <2>1. ASSUME NEW c \in Client, c # u.client
        PROVE  cache'[c] = NoEntry \/ Good(c, cache'[c].key, cache'[c].exp - Ttl)
    BY <1>4, <2>1 DEF Inv, ClientsInv, CacheOk, Types
  <2>2. cache'[u.client].key = u.got /\ cache'[u.client].exp = u.now + Ttl
    BY <1>2, <1>4 DEF Inv, ClientsInv, Types
  <2>3. cache'[u.client].exp - Ttl = u.now
    BY <1>2, <2>2, ConstantTypes
  <2>. QED
    BY <1>2, <1>6, <2>1, <2>2, <2>3 DEF CacheOk
<1>8. \/ End(k)
      \/ Answer(k, Used(u, u.got))
  BY <1>1 DEF FetchReturns, WithKey, VerifyClientAssertion
<1>9. FreshKey(u.client, u.got, u.now)
  <2>1. u.got \in 1 .. MaxKey /\ withdrawn[u.client] \in [1 .. MaxKey -> Nat \cup {Never}]
    BY <1>2 DEF Good, Inv, ClientsInv, Types
  <2>2. \/ withdrawn[u.client][u.got] = Never
        \/ /\ withdrawn[u.client][u.got] \in Nat
           /\ withdrawn[u.client][u.got] >= u.now
    BY <1>2, <2>1 DEF Good
  <2>. QED
    BY <1>2, <2>2, ConstantTypes DEF FreshKey
<1>10. task' = [task EXCEPT ![k] = Idle] /\ LastOk'
  <2>1. CASE End(k)
    BY <2>1, NothingSaid DEF End, Answer
  <2>2. CASE Answer(k, Used(u, u.got))
    <3>. u.got \in Nat /\ UNCHANGED withdrawn
      BY <1>3 DEF TaskState, Others
    <3>. QED
      BY <1>2, <1>9, <2>2, KeyUsed DEF Answer
  <2>. QED
    BY <1>8, <2>1, <2>2
<1>11. ClientsInv'
  <2>. Idle.pc # "register"
    BY DEF Idle
  <2>. QED
    BY <1>3, <1>5, <1>7, <1>10, Served, IdleOk DEF Inv
<1>12. FilesInv'
  BY <1>3, SameFiles DEF Inv
<1>. QED
  BY <1>10, <1>11, <1>12 DEF Inv

LEMMA FetchFailsInv ==
    ASSUME Inv, NEW k \in Slot, FetchFails(k)
    PROVE  Inv'
<1>1. UNCHANGED ServedOnly
  BY DEF FetchFails, ServedOnly
<1>2. PICK u \in TaskState : u = task[k]
  BY TaskTyped
<1>3. u.client \in Client
  BY <1>2, TaskTyped DEF FetchFails, TaskOk
<1>4. End(k) \/ Answer(k, Used(u, 0))
  BY <1>2 DEF FetchFails
<1>. QED
  BY <1>1, <1>3, <1>4, Ends, UsesNoKey

-----------------------------------------------------------------------------
(* The logouts.                                                            *)

LEMMA SendBackChannelLogoutToAllInv ==
    ASSUME Inv, NEW k \in Slot, SendBackChannelLogoutToAll(k)
    PROVE  Inv'
<1>1. UNCHANGED ServedOnly
  BY DEF SendBackChannelLogoutToAll, ServedOnly
<1>. DEFINE all == {rps[x].client : x \in {y \in DOMAIN rps :
                                             rps[y].backChannel}}
<1>2. PICK listed : listed = all
  OBVIOUS
<1>3. \A c \in listed : c \in Client /\ Known(c)
  BY <1>2 DEF Inv, ClientsInv, Types, RpsOk, Rp
<1>4. PICK began \in SUBSET listed :
         began = IF SignJWT(keys.sig) THEN listed ELSE {}
  OBVIOUS
<1>. DEFINE t == [Idle EXCEPT !.kind = "logout", !.pc = "next",
                              !.todo = listed, !.began = began]
<1>5. t \in TaskState
  BY <1>3, IdleOk DEF TaskState, Kind, Pc
<1>6. t.pc = "next" /\ t.todo = listed /\ t.began = began
  BY DEF Idle
<1>7. Await(k, t)
  BY <1>2, <1>4 DEF SendBackChannelLogoutToAll
<1>. HIDE DEF t
<1>8. TaskOk(t)
  BY <1>3, <1>4, <1>6 DEF TaskOk
<1>. QED
  BY <1>1, <1>5, <1>6, <1>7, <1>8, Awaits

LEMMA SendBackChannelLogoutInv ==
    ASSUME Inv, NEW k \in Slot, NEW c \in Client, SendBackChannelLogout(k, c)
    PROVE  Inv'
<1>1. UNCHANGED ServedOnly
  BY DEF SendBackChannelLogout, ServedOnly
<1>2. PICK u \in TaskState : u = task[k]
  BY TaskTyped
<1>3. TaskOk(u) /\ u.pc = "next" /\ c \in u.todo
  BY <1>2, TaskTyped DEF SendBackChannelLogout
<1>4. /\ \A d \in u.began : /\ d \in u.todo \/ d \in u.tried \/ GetRP(d) = None
                            /\ Known(d)
      /\ u.began # {} => SignJWT(keys.sig)
  BY <1>3 DEF TaskOk
<1>. DEFINE sent == [u EXCEPT !.todo = @ \ {c}, !.pc = "post",
                              !.tried = @ \cup {c}]
            skipped == [u EXCEPT !.todo = @ \ {c}]
<1>5. \/ GetRP(c) # None /\ SignJWT(keys.sig) /\ Await(k, sent)
      \/ ~(GetRP(c) # None /\ SignJWT(keys.sig)) /\ Await(k, skipped)
  <2>. [[u EXCEPT !.todo = @ \ {c}] EXCEPT !.pc = "post", !.tried = @ \cup {c}] = sent
    BY DEF TaskState
  <2>. QED
    BY <1>2 DEF SendBackChannelLogout
<1>6. sent \in TaskState /\ skipped \in TaskState
  BY DEF TaskState, Pc
<1>7. /\ sent.pc = "post" /\ sent.todo = u.todo \ {c}
      /\ sent.tried = u.tried \cup {c} /\ sent.began = u.began
      /\ skipped.pc = "next" /\ skipped.todo = u.todo \ {c}
      /\ skipped.tried = u.tried /\ skipped.began = u.began
  BY <1>3 DEF TaskState
<1>. HIDE DEF sent, skipped
<1>8. TaskOk(sent)
  BY <1>4, <1>7 DEF TaskOk
<1>9. ~(GetRP(c) # None /\ SignJWT(keys.sig)) => TaskOk(skipped)
  BY <1>4, <1>7 DEF TaskOk
<1>. QED
  BY <1>1, <1>5, <1>6, <1>7, <1>8, <1>9, Awaits

LEMMA PostedInv ==
    ASSUME Inv, NEW k \in Slot, Posted(k)
    PROVE  Inv'
<1>1. UNCHANGED ServedOnly
  BY DEF Posted, ServedOnly
<1>2. PICK u \in TaskState : u = task[k]
  BY TaskTyped
<1>3. TaskOk(u) /\ u.pc = "post"
  BY <1>2, TaskTyped DEF Posted
<1>. DEFINE t == [u EXCEPT !.pc = "next"]
<1>4. t \in TaskState
  BY DEF TaskState, Pc
<1>5. t.pc = "next" /\ t.todo = u.todo /\ t.began = u.began /\ t.tried = u.tried
  BY DEF TaskState
<1>6. Await(k, t)
  BY <1>2 DEF Posted
<1>. HIDE DEF t
<1>7. TaskOk(t)
  BY <1>3, <1>5 DEF TaskOk
<1>. QED
  BY <1>1, <1>4, <1>5, <1>6, <1>7, Awaits

LEMMA AllNotifiedInv ==
    ASSUME Inv, NEW k \in Slot, AllNotified(k)
    PROVE  Inv'
<1>1. UNCHANGED ServedOnly
  BY DEF AllNotified, ServedOnly
<1>2. PICK u \in TaskState : u = task[k]
  BY TaskTyped
<1>3. \A c \in u.began : c \in u.tried \/ GetRP(c) = None
  BY <1>2, TaskTyped DEF AllNotified, TaskOk
<1>4. PICK a : a = [NoAnswer EXCEPT !.kind = "notified",
                      !.began = u.began, !.tried = u.tried]
  OBVIOUS
<1>5. a.kind = "notified" /\ a.began = u.began /\ a.tried = u.tried /\ a.key = 0
  BY <1>4 DEF NoAnswer
<1>6. Answer(k, a)
  BY <1>2, <1>4 DEF AllNotified
<1>7. rps' = rps
  BY <1>1 DEF ServedOnly
<1>8. last' = a => LastOk'
  <2>. \A c : GetRP(c)' = GetRP(c)
    BY <1>7 DEF GetRP
  <2>. QED
    BY <1>3, <1>5 DEF LastOk, KeyFresh, AllAreTold, ReturnsHome
<1>. QED
  BY <1>1, <1>6, <1>8, Answers

LEMMA HandleEndSessionInv ==
    ASSUME Inv, NEW k \in Slot, HandleEndSession(k)
    PROVE  Inv'
<1>1. UNCHANGED ServedOnly
  BY DEF HandleEndSession, ServedOnly
<1>2. PICK hint \in Client \cup {None, "broken"}, client \in Client \cup {None},
          uri \in Uris :
         LET from == LogoutClient(hint, client)
         IN /\ ValidateLogoutRequest(hint, client, uri)
            /\ Answer(k, [NoAnswer EXCEPT !.kind = "redirect",
                             !.client = from, !.uri = uri])
  BY DEF HandleEndSession
<1>3. PICK from : from = LogoutClient(hint, client)
  OBVIOUS
<1>4. PICK a : a = [NoAnswer EXCEPT !.kind = "redirect",
                      !.client = from, !.uri = uri]
  OBVIOUS
<1>5. a.kind = "redirect" /\ a.client = from /\ a.uri = uri /\ a.key = 0
  BY <1>4 DEF NoAnswer
<1>6. Answer(k, a)
  BY <1>2, <1>3, <1>4
<1>7. \E allowed \in GetRP(from).logoutUris : allowed.origin = uri.origin
  BY <1>2, <1>3 DEF ValidateLogoutRequest, UriAllowed
<1>8. last' = a => LastOk'
  <2>. GetRP(from)' = GetRP(from)
    BY <1>1 DEF GetRP, ServedOnly
  <2>. QED
    BY <1>5, <1>7 DEF LastOk, KeyFresh, AllAreTold, ReturnsHome
<1>. QED
  BY <1>1, <1>6, <1>8, Answers

-----------------------------------------------------------------------------
(* Registrations.                                                          *)

LEMMA ConfigureIs ==
    ASSUME NEW f, NEW j, NEW o
    PROVE  /\ DOMAIN Configure(f, j, o) = DOMAIN f \cup {j}
           /\ \A k \in DOMAIN f \cup {j} :
                 Configure(f, j, o)[k] = IF k = j THEN o ELSE f[k]
BY DEF Configure

LEMMA FreshIs ==
    ASSUME ClientsInv, Fresh # None
    PROVE  /\ Fresh \in Client /\ ~Known(Fresh)
           /\ published[Fresh] = 1 /\ registered[Fresh] = Never
           /\ \A k \in Slot : task[k].client # Fresh
<1>. DEFINE free == {c \in Client \ {o.client : o \in conf.rps} :
                        registered[c] = Never /\ published[c] = 1
                        /\ ~\E k \in Slot : task[k].client = c}
<1>1. Fresh \in free
  BY DEF Fresh
<1>. QED
  BY <1>1 DEF Known, Configured

LEMMA NoOption ==
    ASSUME ClientsInv, NEW c \in Client, ~Known(c),
           \A k \in Slot : task[k].client # c
    PROVE  \A o \in Rp : IsOption(o) => o.client # c
<1>. SUFFICES ASSUME NEW o \in Rp, IsOption(o), o.client = c PROVE FALSE
  OBVIOUS
<1>1. ASSUME NEW k \in DOMAIN ConfiguredRps(conf), o = ConfiguredRps(conf)[k]
      PROVE  FALSE
  BY <1>1, ConfiguredKeys DEF ClientsInv, Types, Known, Configured
<1>2. ASSUME NEW k \in DOMAIN rps, o = rps[k]
      PROVE  FALSE
  BY <1>2 DEF ClientsInv, RpsOk
<1>3. ASSUME NEW k \in DOMAIN saved, o = saved[k]
      PROVE  FALSE
  BY <1>3 DEF ClientsInv, RpsOk, Known
<1>4. ASSUME NEW k \in Slot, Registering(k), o = task[k].rp
      PROVE  FALSE
  BY <1>4 DEF ClientsInv, TaskOk, Registering
<1>. QED
  BY <1>1, <1>2, <1>3, <1>4 DEF IsOption

LEMMA OneMoreOption ==
    ASSUME OptionsOk, NEW p \in Rp, published[p.client] = 1,
           \A o \in Rp : IsOption(o) => o.client # p.client,
           \A o \in Rp : IsOption(o)' => IsOption(o) \/ o = p,
           UNCHANGED published
    PROVE  OptionsOk'
BY DEF OptionsOk

LEMMA NoMoreOptions ==
    ASSUME OptionsOk, \A o \in Rp : IsOption(o)' => IsOption(o),
           UNCHANGED published
    PROVE  OptionsOk'
BY DEF OptionsOk

(* A registration is put where Kept says, and displaces none but one of    *)
(* its second.                                                             *)
LEMMA RegisterKeeps ==
    ASSUME NEW r \in [Client -> Nat \cup {Never}], NEW f, NEW new \in Client,
           r[new] = Never, NEW n \in Nat, NEW o, o.client = new,
           NEW c \in Client, KeptIn(f, r, c)
    PROVE  KeptIn(Configure(f, <<"register", n>>, o), [r EXCEPT ![new] = n], c)
<1>. PICK r1, f1 : /\ r1 = [r EXCEPT ![new] = n]
                   /\ f1 = Configure(f, <<"register", n>>, o)
  OBVIOUS
<1>. SUFFICES ASSUME r1[c] # Never
              PROVE  \/ \E d \in Client \ {c} : r1[d] = r1[c]
                     \/ \E k \in DOMAIN f1 : k = <<"register", r1[c]>>
                                            /\ f1[k].client = c
  BY DEF KeptIn
<1>1. /\ DOMAIN f1 = DOMAIN f \cup {<<"register", n>>}
      /\ \A k \in DOMAIN f1 : f1[k] = IF k = <<"register", n>> THEN o ELSE f[k]
  BY DEF Configure
<1>2. \A d \in Client : r1[d] = IF d = new THEN n ELSE r[d]
  OBVIOUS
<1>3. CASE c = new
  <2>. r1[c] = n /\ <<"register", n>> \in DOMAIN f1 /\ f1[<<"register", n>>] = o
    BY <1>1, <1>2, <1>3
  <2>. QED
    BY <1>3
<1>4. CASE c # new /\ r[c] = n
  <2>. r1[new] = n /\ r1[c] = n /\ new \in Client \ {c}
    BY <1>2, <1>4
  <2>. QED
    OBVIOUS
<1>5. CASE c # new /\ r[c] # n
  <2>1. r1[c] = r[c] /\ r[c] # Never
    BY <1>2, <1>5
  <2>. \/ \E d \in Client \ {c} : r[d] = r[c]
       \/ \E k \in DOMAIN f : k = <<"register", r[c]>> /\ f[k].client = c
    BY <2>1 DEF KeptIn
  <2>2. CASE \E d \in Client \ {c} : r[d] = r[c]
    BY <1>2, <2>1, <2>2
  <2>3. CASE \E k \in DOMAIN f : k = <<"register", r[c]>> /\ f[k].client = c
    <3>1. PICK k \in DOMAIN f : k = <<"register", r[c]>> /\ f[k].client = c
      BY <2>3
    <3>2. k # <<"register", n>>
      BY <1>5, <3>1
    <3>. QED
      BY <1>1, <2>1, <3>1, <3>2
  <2>. QED
    BY <2>1, <2>2, <2>3
<1>. QED
  BY <1>3, <1>4, <1>5

LEMMA RpOptionsIs ==
    ASSUME NEW c \in Client, NEW req \in Requests
    PROVE  RpOptions(c, req) \in Rp /\ RpOptions(c, req).client = c
<1>. req \in Metadata
  BY ConfsAssumption
<1>. QED
  BY DEF RpOptions, Rp, Metadata

(* A registration that awaits the callback.                                *)
LEMMA RegistrationAwaits ==
    ASSUME Inv, NEW k \in Slot, NEW c \in Client, NEW p \in Rp, p.client = c,
           conf.callback, ~Known(c), published[c] = 1,
           \A j \in Slot : task[j].client # c,
           Await(k, [Idle EXCEPT !.kind = "register", !.pc = "register",
                       !.client = c, !.rp = p, !.now = clock]),
           UNCHANGED ServedOnly
    PROVE  Inv'
<1>1. PICK n \in Nat : n = clock
  BY TaskTyped
<1>2. PICK t \in TaskState :
         /\ t.pc = "register" /\ t.client = c /\ t.rp = p
         /\ task' = [task EXCEPT ![k] = t] /\ last' = NoAnswer
  <2>. DEFINE t == [Idle EXCEPT !.kind = "register", !.pc = "register",
                       !.client = c, !.rp = p, !.now = n]
  <2>1. t \in TaskState
    BY IdleOk DEF TaskState, Kind, Pc
  <2>2. t.pc = "register" /\ t.client = c /\ t.rp = p
    BY DEF Idle
  <2>3. task' = [task EXCEPT ![k] = t] /\ last' = NoAnswer
    BY <1>1 DEF Await
  <2>. HIDE DEF t
  <2>. QED
    BY <2>1, <2>2, <2>3
<1>3. \A j \in Slot : task'[j] = IF j = k THEN t ELSE task[j]
  BY <1>2 DEF Inv, ClientsInv, Types
<1>4. UNCHANGED <<clock, conf, rps, saved, cache, published, withdrawn, files,
                  picked, registered>>
  BY DEF ServedOnly
<1>5. Types' /\ Withdrawn' /\ CacheOk' /\ RpsOk' /\ \A d \in Client : Kept(d)'
  <2>1. Types'
    BY <1>3, <1>4, <1>2 DEF Inv, ClientsInv, Types
  <2>2. CacheOk'
    BY <1>4, SameCache DEF Inv
  <2>3. Withdrawn' /\ RpsOk' /\ \A d \in Client : Kept(d)'
    BY <1>4 DEF Inv, ClientsInv, Withdrawn, RpsOk, Known, Configured, Kept
  <2>. QED
    BY <2>1, <2>2, <2>3
<1>6. OptionsOk'
  <2>1. \A o \in Rp : IsOption(o)' => IsOption(o) \/ o = p
    BY <1>2, <1>3, <1>4 DEF IsOption, Registering
  <2>2. \A o \in Rp : IsOption(o) => o.client # c
    BY NoOption DEF Inv
  <2>. QED
    BY <1>4, <2>1, <2>2, OneMoreOption DEF Inv, ClientsInv
<1>7. \A j \in Slot : TaskOk(task[j])'
  <2>1. ASSUME NEW u, TaskOk(u)
        PROVE  TaskOk(u)'
    <3>2. \A d : (GetRP(d)' = GetRP(d)) /\ (Known(d)' <=> Known(d))
      BY <1>4 DEF GetRP, Known, Configured
    <3>3. \A d, key, since : Good(d, key, since)' <=> Good(d, key, since)
      BY <1>4 DEF Good
    <3>. QED
      BY <1>4, <2>1, <3>2, <3>3 DEF TaskOk, files
  <2>2. TaskOk(t)
    BY <1>2 DEF TaskOk
  <2>3. \A j \in Slot : TaskOk(task'[j])
    BY <1>3, <2>2 DEF Inv, ClientsInv
  <2>. QED
    BY <2>1, <2>3
<1>8. RegistersApart'
  BY <1>2, <1>3 DEF Inv, ClientsInv, RegistersApart, Registering
<1>9. FilesInv'
  BY <1>4, SameFiles DEF Inv
<1>. QED
  BY <1>2, <1>5, <1>6, <1>7, <1>8, <1>9, NothingSaid DEF Inv, ClientsInv

LEMMA RpsKeeps ==
    ASSUME registered \in [Client -> Nat \cup {Never}], NEW new \in Client,
           registered[new] = Never, NEW n \in Nat, NEW o, o.client = new,
           registered' = [registered EXCEPT ![new] = n],
           rps' = Configure(rps, <<"register", n>>, o),
           NEW c \in Client, KeptIn(rps, registered, c)
    PROVE  KeptIn(rps', registered', c)
BY RegisterKeeps

(* A registration that is done at once.                                    *)
LEMMA RegistrationEnds ==
    ASSUME Inv, NEW k \in Slot, NEW c \in Client, NEW p \in Rp, p.client = c,
           ~conf.callback, ~Known(c), published[c] = 1, registered[c] = Never,
           \A j \in Slot : task[j].client # c,
           rps' = Configure(rps, ConfKey, p),
           registered' = [registered EXCEPT ![c] = clock], End(k),
           UNCHANGED <<clock, conf, saved, cache, published, withdrawn, files,
                       picked>>
    PROVE  Inv'
<1>. DEFINE key == <<"register", clock>>
<1>1. /\ DOMAIN rps' = DOMAIN rps \cup {key}
      /\ \A j \in DOMAIN rps' : rps'[j] = IF j = key THEN p ELSE rps[j]
  BY DEF Configure, ConfKey
<1>2. /\ task' = [task EXCEPT ![k] = Idle] /\ last' = NoAnswer
      /\ \A j \in Slot : task'[j] = IF j = k THEN Idle ELSE task[j]
  BY DEF Inv, ClientsInv, Types, End, Answer
<1>3. \A d \in Client : registered'[d] = IF d = c THEN clock ELSE registered[d]
  BY DEF Inv, ClientsInv, Types
<1>4. clock \in Nat /\ clock # Never
  BY ConstantTypes, TaskTyped
<1>5. \A d \in Client : Known(d)' <=> Known(d) \/ d = c
  BY <1>3, <1>4 DEF Known, Configured
<1>6. Types'
  <2>1. \A j \in DOMAIN rps' : rps'[j] \in Rp
    BY <1>1 DEF Inv, ClientsInv, Types
  <2>2. registered' \in [Client -> Nat \cup {Never}]
    BY <1>4 DEF Inv, ClientsInv, Types
  <2>3. task' \in [Slot -> TaskState]
    BY <1>2, IdleOk DEF Inv, ClientsInv, Types
  <2>. QED
    BY <2>1, <2>2, <2>3 DEF Inv, ClientsInv, Types
<1>7. Withdrawn' /\ CacheOk'
  BY SameCache DEF Inv, ClientsInv, Withdrawn
<1>8. OptionsOk'
  <2>1. \A o \in Rp : IsOption(o)' => IsOption(o) \/ o = p
    <3>. Idle.pc # "register"
      BY DEF Idle
    <3>. HIDE DEF key
    <3>. QED
      BY <1>1, <1>2 DEF IsOption, Registering
  <2>2. \A o \in Rp : IsOption(o) => o.client # c
    BY NoOption DEF Inv
  <2>. QED
    BY <2>1, <2>2, OneMoreOption DEF Inv, ClientsInv
<1>9. RpsOk'
  <2>. HIDE DEF key
  <2>1. ASSUME NEW j \in DOMAIN rps' PROVE Known(rps[j].client)'
    <3>1. PICK d \in Client : d = rps'[j].client
      BY <1>6 DEF Types, Rp
    <3>2. Known(d) \/ d = c
      BY <1>1, <3>1 DEF Inv, ClientsInv, RpsOk
    <3>3. Known(d)'
      BY <1>5, <3>2
    <3>. QED
      BY <3>1, <3>3 DEF Known, Configured
  <2>. QED
    BY <2>1 DEF Inv, ClientsInv, RpsOk
<1>10. ASSUME NEW d \in Client PROVE Kept(d)'
  <2>1. registered \in [Client -> Nat \cup {Never}]
    BY DEF Inv, ClientsInv, Types
  <2>2. KeptIn(rps, registered, d)
    BY DEF Inv, ClientsInv, Kept
  <2>3. rps' = Configure(rps, <<"register", clock>>, p)
    BY DEF ConfKey
  <2>4. KeptIn(rps', registered', d)
    BY <1>4, <2>1, <2>2, <2>3, RpsKeeps
  <2>. QED
    BY <2>4 DEF Kept, KeptIn
<1>11. \A j \in Slot : TaskOk(task[j])'
  <2>1. ASSUME NEW u \in TaskState, TaskOk(u), u.pc # "register"
        PROVE  TaskOk(u)'
    <3>1. ASSUME NEW d \in u.began, u.pc \in {"next", "post"}
          PROVE  Known(d)' /\ (GetRP(d) = None => GetRP(d)' = None)
      <4>1. Known(d) /\ d \in Client
        BY <2>1, <3>1 DEF TaskOk, TaskState
      <4>2. Known(d)' /\ d # c
        BY <1>5, <4>1
      <4>. HIDE DEF key
      <4>3. ASSUME GetRP(d) = None PROVE GetRP(d)' = None
        <5>1. \A j \in DOMAIN rps : rps[j].client # d
          BY <4>3, GetRPIs DEF Inv, ClientsInv
        <5>2. \A j \in DOMAIN rps' : rps'[j].client # d
          BY <1>1, <4>2, <5>1
        <5>. QED
          BY <5>2 DEF GetRP
      <4>. QED
        BY <4>2, <4>3
    <3>2. \A d, i, since : Good(d, i, since)' <=> Good(d, i, since)
      BY DEF Good
    <3>. QED
      BY <2>1, <3>1, <3>2 DEF TaskOk, files
  <2>2. \A j \in Slot : task[j].pc # "register"
    BY DEF Inv, ClientsInv, TaskOk
  <2>3. \A j \in Slot : task'[j] \in TaskState /\ TaskOk(task'[j]) /\ task'[j].pc # "register"
    <3>. Idle.pc # "register"
      BY DEF Idle
    <3>. QED
      BY <1>2, <2>2, IdleOk DEF Inv, ClientsInv, Types
  <2>. QED
    BY <2>1, <2>3
<1>12. RegistersApart'
  <2>. Idle.pc # "register"
    BY DEF Idle
  <2>. QED
    BY <1>2 DEF Inv, ClientsInv, RegistersApart, Registering
<1>13. FilesInv'
  BY SameFiles DEF Inv
<1>. QED
  BY <1>2, <1>6, <1>7, <1>8, <1>9, <1>10, <1>11, <1>12, <1>13, NothingSaid
  DEF Inv, ClientsInv

LEMMA HandleRegistrationInv ==
    ASSUME Inv, NEW k \in Slot, HandleRegistration(k)
    PROVE  Inv'
<1>1. PICK c : c = Fresh
  OBVIOUS
<1>2. /\ c \in Client /\ ~Known(c) /\ published[c] = 1 /\ registered[c] = Never
      /\ \A j \in Slot : task[j].client # c
  BY <1>1, FreshIs DEF HandleRegistration, Inv
<1>3. PICK req \in Requests :
         IF conf.callback
         THEN /\ Await(k, [Idle EXCEPT !.kind = "register",
                             !.pc = "register", !.client = c,
                             !.rp = RpOptions(c, req), !.now = clock])
              /\ UNCHANGED <<rps, registered>>
         ELSE /\ rps' = Configure(rps, ConfKey, RpOptions(c, req))
              /\ registered' = [registered EXCEPT ![c] = clock]
              /\ End(k)
  BY <1>1 DEF HandleRegistration
<1>4. PICK p \in Rp : p = RpOptions(c, req) /\ p.client = c
  BY <1>2, RpOptionsIs
<1>5. UNCHANGED <<clock, conf, saved, cache, published, withdrawn, files, picked>>
  BY DEF HandleRegistration
<1>6. CASE conf.callback
  <2>. UNCHANGED ServedOnly
    BY <1>3, <1>5, <1>6 DEF ServedOnly
  <2>. QED
    BY <1>2, <1>3, <1>4, <1>6, RegistrationAwaits
<1>7. CASE ~conf.callback
  BY <1>2, <1>3, <1>4, <1>5, <1>7, RegistrationEnds
<1>. QED
  BY <1>6, <1>7

LEMMA SavedKeeps ==
    ASSUME registered \in [Client -> Nat \cup {Never}], NEW new \in Client,
           registered[new] = Never, NEW n \in Nat, NEW o, o.client = new,
           registered' = [registered EXCEPT ![new] = n],
           saved' = Configure(saved, <<"register", n>>, o),
           NEW c \in Client, KeptIn(saved, registered, c)
    PROVE  KeptIn(saved', registered', c)
BY RegisterKeeps

(* The callback stores the registration.                                   *)
LEMMA RegistrationStored ==
    ASSUME Inv, NEW k \in Slot, task[k].pc = "register",
           NEW c \in Client, task[k].client = c,
           NEW p \in Rp, task[k].rp = p, NEW n \in Nat,
           saved' = Configure(saved, <<"register", n>>, p),
           registered' = [registered EXCEPT ![c] = n], End(k),
           UNCHANGED <<clock, conf, rps, cache, published, withdrawn, files,
                       picked>>
    PROVE  Inv'
<1>. DEFINE key == <<"register", n>>
<1>0. conf.callback /\ p.client = c /\ ~Known(c)
  BY TaskTyped DEF TaskOk
<1>1. /\ DOMAIN saved' = DOMAIN saved \cup {key}
      /\ \A j \in DOMAIN saved' : saved'[j] = IF j = key THEN p ELSE saved[j]
  BY DEF Configure
<1>2. /\ task' = [task EXCEPT ![k] = Idle] /\ last' = NoAnswer
      /\ \A j \in Slot : task'[j] = IF j = k THEN Idle ELSE task[j]
  BY DEF Inv, ClientsInv, Types, End, Answer
<1>3. \A d \in Client : registered'[d] = IF d = c THEN n ELSE registered[d]
  BY DEF Inv, ClientsInv, Types
<1>4. n # Never /\ registered[c] = Never
  BY <1>0, ConstantTypes DEF Known
<1>5. \A d \in Client : Known(d)' <=> Known(d) \/ d = c
  BY <1>3, <1>4 DEF Known, Configured
<1>. HIDE DEF key
<1>6. Types'
  <2>1. \A j \in DOMAIN saved' : saved'[j] \in Rp
    BY <1>1 DEF Inv, ClientsInv, Types
  <2>2. registered' \in [Client -> Nat \cup {Never}]
    BY DEF Inv, ClientsInv, Types
  <2>3. task' \in [Slot -> TaskState]
    BY <1>2, IdleOk DEF Inv, ClientsInv, Types
  <2>. QED
    BY <2>1, <2>2, <2>3 DEF Inv, ClientsInv, Types
<1>7. Withdrawn' /\ CacheOk'
  BY SameCache DEF Inv, ClientsInv, Withdrawn
<1>8. OptionsOk'
  <2>1. IsOption(p)
    BY DEF IsOption, Registering
  <2>2. \A o \in Rp : IsOption(o)' => IsOption(o) \/ o = p
    <3>. Idle.pc # "register"
      BY DEF Idle
    <3>. QED
      BY <1>1, <1>2 DEF IsOption, Registering
  <2>. QED
    BY <2>1, <2>2, NoMoreOptions DEF Inv, ClientsInv
<1>9. RpsOk'
  <2>1. ASSUME NEW j \in DOMAIN rps' PROVE Known(rps[j].client)'
    <3>1. PICK d \in Client : d = rps[j].client
      BY DEF Inv, ClientsInv, Types, Rp
    <3>2. Known(d)
      BY <3>1 DEF Inv, ClientsInv, RpsOk
    <3>3. Known(d)'
      BY <1>5, <3>2
    <3>. QED
      BY <3>1, <3>3 DEF Known, Configured
  <2>2. ASSUME NEW j \in DOMAIN saved' PROVE registered'[saved'[j].client] # Never
    <3>1. saved'[j].client \in Client
      BY <1>6 DEF Types, Rp
    <3>2. saved'[j].client = c \/ registered[saved'[j].client] # Never
      BY <1>0, <1>1 DEF Inv, ClientsInv, RpsOk
    <3>. QED
      BY <1>3, <1>4, <3>1, <3>2
  <2>. QED
    BY <1>0, <2>1, <2>2 DEF RpsOk
<1>10. ASSUME NEW d \in Client PROVE Kept(d)'
  <2>1. registered \in [Client -> Nat \cup {Never}]
    BY DEF Inv, ClientsInv, Types
  <2>2. KeptIn(saved, registered, d)
    BY <1>0 DEF Inv, ClientsInv, Kept
  <2>3. /\ saved' = Configure(saved, <<"register", n>>, p)
        /\ registered' = [registered EXCEPT ![c] = n]
    OBVIOUS
  <2>5. KeptIn(saved', registered', d)
    BY <1>0, <1>4, <2>1, <2>2, <2>3, SavedKeeps
  <2>. QED
    BY <1>0, <2>5 DEF Kept, KeptIn
<1>11. \A j \in Slot : TaskOk(task[j])'
  <2>1. ASSUME NEW v \in TaskState, TaskOk(v), v.pc = "register" => v.client # c
        PROVE  TaskOk(v)'
    <3>1. \A d : GetRP(d)' = GetRP(d)
      BY DEF GetRP
    <3>2. \A d, i, since : Good(d, i, since)' <=> Good(d, i, since)
      BY DEF Good
    <3>3. v.pc = "register" => ~(Known(v.client)')
      BY <1>5, <2>1 DEF TaskOk
    <3>4. v.pc \in {"next", "post"} => \A d \in v.began : Known(d)'
      BY <1>5, <2>1 DEF TaskOk, TaskState
    <3>. QED
      BY <2>1, <3>1, <3>2, <3>3, <3>4 DEF TaskOk, files
  <2>2. ASSUME NEW j \in Slot
        PROVE  /\ task'[j] \in TaskState /\ TaskOk(task'[j])
               /\ task'[j].pc = "register" => task'[j].client # c
    <3>1. CASE j = k
      <4>. Idle.pc # "register"
        BY DEF Idle
      <4>. QED
        BY <1>2, <3>1, IdleOk
    <3>2. CASE j # k
      BY <1>2, <3>2 DEF Inv, ClientsInv, Types, RegistersApart, Registering
    <3>. QED
      BY <3>1, <3>2
  <2>. QED
    BY <2>1, <2>2
<1>12. RegistersApart'
  <2>. Idle.pc # "register"
    BY DEF Idle
  <2>. QED
    BY <1>2 DEF Inv, ClientsInv, RegistersApart, Registering
<1>13. FilesInv'
  BY SameFiles DEF Inv
<1>. QED
  BY <1>2, <1>6, <1>7, <1>8, <1>9, <1>10, <1>11, <1>12, <1>13, NothingSaid
  DEF Inv, ClientsInv

LEMMA RegisterReturnsInv ==
    ASSUME Inv, NEW k \in Slot, RegisterReturns(k)
    PROVE  Inv'
<1>1. PICK u \in TaskState : u = task[k]
  BY TaskTyped
<1>2. /\ u.pc = "register" /\ End(k)
      /\ UNCHANGED <<clock, conf, rps, cache, published, withdrawn, files, picked>>
      /\ \/ /\ saved' = Configure(saved, <<"register", u.now>>, u.rp)
            /\ registered' = [registered EXCEPT ![u.client] = u.now]
         \/ UNCHANGED <<saved, registered>>
  BY <1>1 DEF RegisterReturns
<1>3. CASE UNCHANGED <<saved, registered>>
  BY <1>2, <1>3, Ends DEF ServedOnly
<1>4. CASE /\ saved' = Configure(saved, <<"register", u.now>>, u.rp)
           /\ registered' = [registered EXCEPT ![u.client] = u.now]
  <2>. u.client \in Client /\ u.rp \in Rp /\ u.now \in Nat
    BY <1>1, <1>2, TaskTyped DEF TaskOk, TaskState
  <2>. QED
    BY <1>1, <1>2, <1>4, RegistrationStored
<1>. QED
  BY <1>2, <1>3, <1>4

-----------------------------------------------------------------------------
(* What is not a request.                                                  *)

LEMMA PublishInv ==
    ASSUME Inv, NEW c \in Client, Publish(c)
    PROVE  Inv'
<1>1. /\ published[c] \in 1 .. MaxKey /\ published[c] < MaxKey
      /\ published \in [Client -> 1 .. MaxKey] /\ clock \in Nat
      /\ withdrawn \in [Client -> [1 .. MaxKey -> Nat \cup {Never}]]
  BY DEF Inv, ClientsInv, Types, Publish
<1>2. /\ UNCHANGED <<clock, conf, rps, saved, cache, files, picked, registered, task>>
      /\ last' = NoAnswer /\ GetRP(c) # None /\ GetRP(c).jwks = "url"
  BY DEF Publish
<1>3. /\ \A d \in Client : published'[d] = IF d = c THEN published[c] + 1
                                           ELSE published[d]
      /\ \A d \in Client, n \in 1 .. MaxKey :
            withdrawn'[d][n] = IF d = c /\ n = published[c] THEN clock
                               ELSE withdrawn[d][n]
  BY <1>1 DEF Publish
<1>4. /\ published' \in [Client -> 1 .. MaxKey]
      /\ withdrawn' \in [Client -> [1 .. MaxKey -> Nat \cup {Never}]]
  <2>1. published[c] + 1 \in 1 .. MaxKey
    BY <1>1, ConstantTypes
  <2>2. [withdrawn[c] EXCEPT ![published[c]] = clock] \in [1 .. MaxKey -> Nat \cup {Never}]
    BY <1>1
  <2>3. withdrawn' = [withdrawn EXCEPT ![c] = [withdrawn[c] EXCEPT ![published[c]] = clock]]
    BY <1>1 DEF Publish
  <2>4. published' = [published EXCEPT ![c] = published[c] + 1]
    BY DEF Publish
  <2>. QED
    BY <1>1, <2>1, <2>2, <2>3, <2>4
<1>5. Types'
  BY <1>2, <1>4 DEF Inv, ClientsInv, Types
<1>6. Withdrawn'
  <2>1. ASSUME NEW d \in Client, NEW n \in 1 .. MaxKey, n >= published'[d]
        PROVE  withdrawn'[d][n] = Never
    <3>1. n >= published[d] /\ ~(d = c /\ n = published[c])
      BY <1>1, <1>3, <2>1
    <3>. QED
      BY <1>3, <3>1 DEF Inv, ClientsInv, Withdrawn
  <2>. QED
    BY <2>1 DEF Withdrawn
<1>7. ASSUME NEW d \in Client, NEW key, NEW since, Good(d, key, since)
      PROVE  Good(d, key, since)'
  <2>1. key \in 1 .. MaxKey /\ since <= clock
        /\ (withdrawn[d][key] = Never \/ withdrawn[d][key] >= since)
    BY <1>7 DEF Good
  <2>2. withdrawn'[d][key] = Never \/ withdrawn'[d][key] >= since
    BY <1>1, <1>3, <2>1
  <2>. QED
    BY <1>2, <2>1, <2>2 DEF Good
<1>8. CacheOk'
  BY <1>2, <1>7 DEF Inv, ClientsInv, CacheOk
<1>9. OptionsOk'
  <2>1. \A o : IsOption(o)' <=> IsOption(o)
    BY <1>2 DEF IsOption, Registering
  <2>2. PICK k \in DOMAIN rps : rps[k] = GetRP(c) /\ rps[k].client = c /\ rps[k] \in Rp
    BY <1>2, GetRPIs DEF Inv, ClientsInv
  <2>3. IsOption(rps[k]) /\ rps[k].jwks = "url"
    BY <1>2, <2>2 DEF IsOption
  <2>4. ASSUME NEW o \in Rp, IsOption(o), o.jwks = "inline"
        PROVE  published'[o.client] = 1
    <3>1. o.client # c
      BY <2>2, <2>3, <2>4 DEF Inv, ClientsInv, OptionsOk
    <3>2. o.client \in Client
      BY DEF Rp
    <3>. QED
      BY <1>3, <2>4, <3>1, <3>2 DEF Inv, ClientsInv, OptionsOk
  <2>. QED
    BY <2>1, <2>4 DEF Inv, ClientsInv, OptionsOk
<1>10. RpsOk' /\ (\A d \in Client : Kept(d)') /\ RegistersApart'
  BY <1>2 DEF Inv, ClientsInv, RpsOk, Known, Configured, Kept, KeptIn,
              RegistersApart, Registering
<1>11. \A j \in Slot : TaskOk(task[j])'
  <2>1. ASSUME NEW v \in TaskState, TaskOk(v)
        PROVE  TaskOk(v)'
    <3>1. \A d : (GetRP(d)' = GetRP(d)) /\ (Known(d)' <=> Known(d))
      BY <1>2 DEF GetRP, Known, Configured
    <3>2. v.pc = "fetched" => Good(v.client, v.got, v.now)'
      BY <1>7, <2>1 DEF TaskOk
    <3>. QED
      BY <1>2, <2>1, <3>1, <3>2 DEF TaskOk, files
  <2>2. \A j \in Slot : task'[j] \in TaskState /\ TaskOk(task'[j])
    BY <1>2 DEF Inv, ClientsInv, Types
  <2>. QED
    BY <2>1, <2>2
<1>12. FilesInv'
  BY <1>2, SameFiles DEF Inv
<1>. QED
  BY <1>2, <1>5, <1>6, <1>8, <1>9, <1>10, <1>11, <1>12, NothingSaid
  DEF Inv, ClientsInv

LEMMA TickInv ==
    ASSUME Inv, Tick
    PROVE  Inv'
<1>1. /\ UNCHANGED <<conf, rps, saved, cache, published, withdrawn, files,
                     picked, registered, task>>
      /\ clock \in Nat /\ clock' = clock + 1 /\ last' = NoAnswer
  BY DEF Tick, Inv, ClientsInv, Types
<1>2. Types' /\ Withdrawn' /\ OptionsOk' /\ RpsOk' /\ RegistersApart'
  <2>1. \A o : IsOption(o)' <=> IsOption(o)
    BY <1>1 DEF IsOption, Registering
  <2>. QED
    BY <1>1, <2>1 DEF Inv, ClientsInv, Types, Withdrawn, OptionsOk, RpsOk, Known,
                      Configured, RegistersApart, Registering
<1>3. \A d \in Client : Kept(d)'
  BY <1>1 DEF Inv, ClientsInv, Kept, KeptIn
<1>4. ASSUME NEW d, NEW key, NEW since \in Int, Good(d, key, since)
      PROVE  Good(d, key, since)'
  BY <1>1, <1>4 DEF Good
<1>5. CacheOk'
  <2>. \A d \in Client : cache[d].exp - Ttl \in Int
    BY ConstantTypes DEF Inv, ClientsInv, Types
  <2>. QED
    BY <1>1, <1>4 DEF Inv, ClientsInv, CacheOk
<1>6. \A j \in Slot : TaskOk(task[j])'
  <2>1. ASSUME NEW v \in TaskState, TaskOk(v)
        PROVE  TaskOk(v)'
    <3>1. \A d : (GetRP(d)' = GetRP(d)) /\ (Known(d)' <=> Known(d))
      BY <1>1 DEF GetRP, Known, Configured
    <3>2. v.now \in Nat
      BY DEF TaskState
    <3>3. v.now <= clock => v.now <= clock'
      BY <1>1, <3>2
    <3>4. v.pc = "fetched" => Good(v.client, v.got, v.now)'
      BY <1>4, <2>1, <3>2 DEF TaskOk
    <3>. QED
      BY <1>1, <2>1, <3>1, <3>3, <3>4 DEF TaskOk, files
  <2>2. \A j \in Slot : task'[j] \in TaskState /\ TaskOk(task'[j])
    BY <1>1 DEF Inv, ClientsInv, Types
  <2>. QED
    BY <2>1, <2>2
<1>7. FilesInv'
  BY <1>1, SameFiles DEF Inv
<1>. QED
  BY <1>1, <1>2, <1>3, <1>5, <1>6, <1>7, NothingSaid DEF Inv, ClientsInv

(* Steps of the provider's keys: a signing key that works stays.           *)
LEMMA KeysChange ==
    ASSUME ClientsInv, SignJWT(keys.sig) => SignJWT(keys'.sig),
           UNCHANGED <<clock, conf, rps, saved, cache, published, withdrawn,
                       registered, task>>
    PROVE  ClientsInv'
<1>1. \A o : IsOption(o)' <=> IsOption(o)
  BY DEF IsOption, Registering
<1>2. Types' /\ Withdrawn' /\ OptionsOk' /\ RpsOk' /\ RegistersApart'
  BY <1>1 DEF ClientsInv, Types, Withdrawn, OptionsOk, RpsOk, Known,
              Configured, RegistersApart, Registering
<1>3. CacheOk' /\ \A d \in Client : Kept(d)'
  BY SameCache DEF ClientsInv, Kept, KeptIn
<1>4. \A j \in Slot : TaskOk(task[j])'
  <2>1. ASSUME NEW v, TaskOk(v)
        PROVE  TaskOk(v)'
    <3>1. \A d : (GetRP(d)' = GetRP(d)) /\ (Known(d)' <=> Known(d))
      BY DEF GetRP, Known, Configured
    <3>2. \A d, i, since : Good(d, i, since)' <=> Good(d, i, since)
      BY DEF Good
    <3>. QED
      BY <2>1, <3>1, <3>2 DEF TaskOk
  <2>2. \A j \in Slot : TaskOk(task'[j])
    BY DEF ClientsInv
  <2>. QED
    BY <2>1, <2>2
<1>. QED
  BY <1>2, <1>3, <1>4 DEF ClientsInv

LEMMA LoadKeyInv ==
    ASSUME Inv, LoadKey
    PROVE  Inv'
<1>1. /\ UNCHANGED <<clock, conf, rps, saved, cache, published, withdrawn,
                     registered, task>>
      /\ last' = NoAnswer
  BY DEF LoadKey
<1>2. PICK s : /\ keys = [sig |-> s, enc |-> EncLoaded, old |-> OldLoaded]
               /\ stage = "sig" => s = NoKey
  BY DEF Inv, FilesInv, KeysOk
<1>3. SignJWT(keys.sig) => SignJWT(keys'.sig)
  <2>1. CASE stage = "sig"
    <3>. keys.sig = NoKey
      BY <1>2, <2>1
    <3>. QED
      BY DEF SignJWT, Usable
  <2>2. CASE stage # "sig"
    <3>. keys'.sig = keys.sig
      <4>1. \/ keys' = [keys EXCEPT !.enc = Load(encs[1], NoKey)]
            \/ keys' = [keys EXCEPT !.old = IF Len(encs) = 1 THEN NoKey
                                            ELSE Load(encs[2], NoKey)]
        BY <2>2 DEF LoadKey
      <4>2. ASSUME NEW x, keys' = [keys EXCEPT !.enc = x]
                          \/ keys' = [keys EXCEPT !.old = x]
            PROVE  keys'.sig = keys.sig
        <5>1. \/ keys' = [sig |-> s, enc |-> x, old |-> OldLoaded]
              \/ keys' = [sig |-> s, enc |-> EncLoaded, old |-> x]
          BY <1>2, <4>2, LoadedRecord, Zenon
        <5>. QED
          BY <1>2, <5>1
      <4>. QED
        BY <4>1, <4>2, Zenon
    <3>. QED
      OBVIOUS
  <2>. QED
    BY <2>1, <2>2
<1>4. ClientsInv'
  BY <1>1, <1>3, KeysChange DEF Inv
<1>5. FilesInv'
  BY LoadKeyFiles DEF Inv
<1>. QED
  BY <1>1, <1>4, <1>5, NothingSaid DEF Inv

LEMMA BuildJWKSInv ==
    ASSUME Inv, BuildJWKS
    PROVE  Inv'
<1>1. /\ UNCHANGED <<clock, conf, rps, saved, cache, published, withdrawn,
                     keys, registered, task>>
      /\ last' = NoAnswer
  BY DEF BuildJWKS, files
<1>2. ClientsInv'
  BY <1>1, KeysChange DEF Inv
<1>3. FilesInv'
  BY BuildJWKSFiles DEF Inv
<1>. QED
  BY <1>1, <1>2, <1>3, NothingSaid DEF Inv

LEMMA RotateInv ==
    ASSUME Inv, Rotate
    PROVE  Inv'
<1>1. /\ UNCHANGED <<clock, conf, saved, published, withdrawn>>
      /\ last' = NoAnswer
      /\ task' = [j \in Slot |-> Idle]
      /\ cache' = [c \in Client |-> NoEntry]
      /\ registered' = IF conf.callback THEN registered
                       ELSE [c \in Client |-> Never]
  BY DEF Rotate
<1>2. /\ DOMAIN rps' = DOMAIN ConfiguredRps(conf) \cup DOMAIN saved
      /\ \A j \in DOMAIN rps' :
            rps'[j] = IF j \in DOMAIN saved THEN saved[j] ELSE ConfiguredRps(conf)[j]
  BY DEF Rotate
<1>3. conf \in Confs
  BY DEF Inv, ClientsInv, Types
<1>4. \A j \in Slot : task'[j].pc = "idle" /\ task'[j] = Idle
  BY <1>1 DEF Idle
<1>5. Types'
  <2>1. \A j \in DOMAIN rps' : rps'[j] \in Rp
    BY <1>2, <1>3, ConfiguredKeys DEF Inv, ClientsInv, Types
  <2>2. cache' \in [Client -> [key : Nat, exp : Nat]]
    BY <1>1 DEF NoEntry
  <2>3. registered' \in [Client -> Nat \cup {Never}]
    BY <1>1 DEF Inv, ClientsInv, Types
  <2>4. task' \in [Slot -> TaskState]
    BY <1>1, IdleOk
  <2>. QED
    BY <1>1, <2>1, <2>2, <2>3, <2>4 DEF Inv, ClientsInv, Types
<1>6. Withdrawn' /\ CacheOk'
  BY <1>1 DEF Inv, ClientsInv, Withdrawn, CacheOk
<1>7. OptionsOk'
  <2>1. ASSUME NEW o \in Rp, IsOption(o)'
        PROVE  IsOption(o)
    <3>1. \/ \E j \in DOMAIN ConfiguredRps(conf) : o = ConfiguredRps(conf)[j]
          \/ \E j \in DOMAIN rps' : o = rps'[j]
          \/ \E j \in DOMAIN saved : o = saved[j]
      BY <1>1, <1>4, <2>1 DEF IsOption, Registering
    <3>. QED
      BY <1>2, <3>1 DEF IsOption
  <2>. QED
    BY <1>1, <2>1, NoMoreOptions DEF Inv, ClientsInv
<1>8. RpsOk'
  <2>1. conf.callback => registered' = registered
    BY <1>1
  <2>2. ~conf.callback => DOMAIN saved = {}
    BY DEF Inv, ClientsInv, RpsOk
  <2>3. ASSUME NEW j \in DOMAIN saved
        PROVE  registered'[saved[j].client] # Never
    BY <2>1, <2>2, <2>3 DEF Inv, ClientsInv, RpsOk
  <2>4. ASSUME NEW j \in DOMAIN rps' PROVE Known(rps[j].client)'
    <3>1. CASE j \in DOMAIN saved
      BY <1>2, <2>3, <3>1 DEF Known
    <3>2. CASE j \notin DOMAIN saved
      <4>1. rps'[j] = ConfiguredRps(conf)[j] /\ j \in DOMAIN ConfiguredRps(conf)
        BY <1>2, <3>2
      <4>2. rps'[j] \in conf.rps
        BY <1>3, <4>1, ConfiguredKeys
      <4>. QED
        BY <1>1, <4>2 DEF Known, Configured
    <3>. QED
      BY <3>1, <3>2
  <2>. QED
    BY <1>1, <2>2, <2>3, <2>4 DEF RpsOk
<1>9. \A d \in Client : Kept(d)'
  BY <1>1 DEF Inv, ClientsInv, Kept, KeptIn
<1>10. (\A j \in Slot : TaskOk(task[j])') /\ RegistersApart'
  BY <1>4 DEF TaskOk, RegistersApart, Registering
<1>11. FilesInv'
  BY <1>3, RotateFiles DEF Inv
<1>. QED
  BY <1>1, <1>5, <1>6, <1>7, <1>8, <1>9, <1>10, <1>11, NothingSaid
  DEF Inv, ClientsInv

LEMMA InitInv == Init => Inv
<1>. SUFFICES ASSUME Init PROVE Inv
  OBVIOUS
<1>1. /\ clock = 0 /\ conf \in Confs /\ rps = ConfiguredRps(conf)
      /\ saved = <<>> /\ DOMAIN saved = {} /\ picked = {} /\ last = NoAnswer
      /\ stage = "sig" /\ keys = NoKeys /\ gen = 1
  BY DEF Init
<1>2. \A j \in Slot : task[j] = Idle /\ task[j].pc = "idle"
  BY DEF Init, Idle
<1>3. \A c \in Client : /\ published[c] = 1 /\ registered[c] = Never
                        /\ cache[c] = NoEntry
                        /\ \A n \in 1 .. MaxKey : withdrawn[c][n] = Never
  BY DEF Init
<1>4. Types
  <2>1. \A j \in DOMAIN rps : rps[j] \in Rp
    BY <1>1, ConfiguredKeys
  <2>2. cache \in [Client -> [key : Nat, exp : Nat]]
    BY DEF Init, NoEntry
  <2>3. task \in [Slot -> TaskState]
    BY IdleOk DEF Init
  <2>4. published \in [Client -> 1 .. MaxKey]
    <3>. 1 \in 1 .. MaxKey
      BY ConstantTypes
    <3>. QED
      BY DEF Init
  <2>5. withdrawn \in [Client -> [1 .. MaxKey -> Nat \cup {Never}]]
    BY DEF Init
  <2>6. registered \in [Client -> Nat \cup {Never}]
    BY DEF Init
  <2>. QED
    BY <1>1, <2>1, <2>2, <2>3, <2>4, <2>5, <2>6 DEF Types
<1>5. Withdrawn /\ CacheOk
  BY <1>3 DEF Withdrawn, CacheOk
<1>6. OptionsOk
  <2>1. ASSUME NEW o \in Rp, IsOption(o)
        PROVE  \E j \in DOMAIN ConfiguredRps(conf) : o = ConfiguredRps(conf)[j]
    BY <1>1, <1>2, <2>1 DEF IsOption, Registering
  <2>2. ASSUME NEW o \in Rp, NEW p \in Rp, IsOption(o), IsOption(p),
               o.client = p.client
        PROVE  o = p
    <3>1. PICK i \in DOMAIN ConfiguredRps(conf) : o = ConfiguredRps(conf)[i]
      BY <2>1, <2>2
    <3>2. PICK j \in DOMAIN ConfiguredRps(conf) : p = ConfiguredRps(conf)[j]
      BY <2>1, <2>2
    <3>3. i = <<"rp", o.client>> /\ j = <<"rp", p.client>>
      BY <1>1, <3>1, <3>2, ConfiguredKeys
    <3>. QED
      BY <2>2, <3>1, <3>2, <3>3
  <2>. QED
    BY <1>3, <2>2 DEF OptionsOk, Rp
<1>7. RpsOk
  <2>. \A j \in DOMAIN rps : Configured(rps[j].client)
    BY <1>1, ConfiguredKeys DEF Configured
  <2>. QED
    BY <1>1 DEF RpsOk, Known
<1>8. \A c \in Client : Kept(c)
  BY <1>3 DEF Kept, KeptIn
<1>9. (\A j \in Slot : TaskOk(task[j])) /\ RegistersApart
  BY <1>2, IdleOk DEF RegistersApart, Registering
<1>10. FilesInv
  <2>1. EncsOk
    <3>1. PICK p \in EncPems[1] : encs = <<p>>
      BY DEF Init
    <3>2. 1 \in 1 .. Len(EncPems)
      BY EncPemsAssumption
    <3>. QED
      BY <1>1, <3>1, <3>2 DEF EncsOk
  <2>2. KeysOk
    BY <1>1 DEF KeysOk, NoKeys, EncLoaded, OldLoaded
  <2>. QED
    BY <1>1, <2>1, <2>2 DEF FilesInv, PickedOk
<1>11. LastOk
  BY <1>1 DEF NoAnswer, LastOk, KeyFresh, AllAreTold, ReturnsHome
<1>. QED
  BY <1>4, <1>5, <1>6, <1>7, <1>8, <1>9, <1>10, <1>11 DEF Inv, ClientsInv

-----------------------------------------------------------------------------
(* All steps together, and what follows.                                   *)

LEMMA ServeInv ==
    ASSUME Inv, NEW k \in Slot, Serve(k)
    PROVE  Inv'
BY AuthenticateInv, UserInfoInv, HandleEndSessionInv, AuthorizeInv, ConsentInv,
   ConsentRefusedInv, ServerAnswersInv, FetchReturnsInv, FetchFailsInv,
   HandleRegistrationInv, RegisterReturnsInv, SendBackChannelLogoutToAllInv,
   SendBackChannelLogoutInv, PostedInv, AllNotifiedInv
DEF Serve

LEMMA StutterInv ==
    ASSUME Inv, UNCHANGED vars
    PROVE  Inv'
<1>1. /\ UNCHANGED <<clock, conf, rps, saved, cache, published, withdrawn,
                     keys, registered, task>>
      /\ UNCHANGED <<files, picked>> /\ UNCHANGED <<withdrawn, rps, last>>
  BY DEF vars, files
<1>2. ClientsInv'
  BY <1>1, KeysChange DEF Inv
<1>3. FilesInv'
  BY <1>1, SameFiles DEF Inv
<1>4. LastOk'
  <2>. \A c : GetRP(c)' = GetRP(c)
    BY <1>1 DEF GetRP
  <2>. QED
    BY <1>1 DEF Inv, LastOk, KeyFresh, AllAreTold, ReturnsHome
<1>. QED
  BY <1>2, <1>3, <1>4 DEF Inv

LEMMA Invariant == Spec => []Inv
<1>1. Init => Inv
  BY InitInv
<1>2. Inv /\ [Next]_vars => Inv'
  <2>. SUFFICES ASSUME Inv, [Next]_vars PROVE Inv'
    OBVIOUS
  <2>1. CASE LoadKey
    BY <2>1, LoadKeyInv
  <2>2. CASE BuildJWKS
    BY <2>2, BuildJWKSInv
  <2>3. CASE Rotate
    BY <2>3, RotateInv
  <2>4. CASE \E k \in Slot : Serve(k)
    BY <2>4, ServeInv
  <2>5. CASE \E c \in Client : Publish(c)
    BY <2>5, PublishInv
  <2>6. CASE Tick
    BY <2>6, TickInv
  <2>7. CASE UNCHANGED vars
    BY <2>7, StutterInv
  <2>. QED
    BY <2>1, <2>2, <2>3, <2>4, <2>5, <2>6, <2>7 DEF Next
<1>. QED
  BY <1>1, <1>2, PTL DEF Spec

(* Whatever answers of a client's server overtake each other, a client's   *)
(* key that authenticates it or encrypts for it was published less than    *)
(* Ttl before the request asked for it (fetchJWKS).                        *)
THEOREM KeysAreFresh == Spec => []KeyFresh
<1>. Inv => KeyFresh
  BY DEF Inv, LastOk
<1>. QED
  BY Invariant, PTL

(* A client that was registered is known to the provider or stored by the  *)
(* callback, unless another one of its second took its key                 *)
(* (handleRegistration).                                                   *)
THEOREM RegistrationsAreKept == Spec => []RegistrationKept
<1>. Inv => RegistrationKept
  BY DEF Inv, ClientsInv, Kept, KeptIn, RegistrationKept
<1>. QED
  BY Invariant, PTL

(* A round of logouts tells every client it began with, except those that  *)
(* are not registered by then (sendBackChannelLogoutToAll).                *)
THEOREM EveryoneIsTold == Spec => []AllAreTold
<1>. Inv => AllAreTold
  BY DEF Inv, LastOk
<1>. QED
  BY Invariant, PTL

(* What a client encrypts with the key that it picked from the key set can *)
(* be decrypted when the keys are loaded, and still after one rotation     *)
(* (decryptJWE, buildJWKS).                                                *)
THEOREM EncryptedIsReadable == Spec => []JwksDecrypts
<1>. Inv => JwksDecrypts
  BY InvJwksDecrypts DEF Inv
<1>. QED
  BY Invariant, PTL

(* A logout returns to no origin but one that its client has registered    *)
(* (validateLogoutRequest).                                                *)
THEOREM LogoutsReturnHome == Spec => []ReturnsHome
<1>. Inv => ReturnsHome
  BY DEF Inv, LastOk
<1>. QED
  BY Invariant, PTL

==============================================================================
