----------------------------- MODULE OidcClients -----------------------------
(***************************************************************************)
(* The clients of the OpenID Connect provider of packages/issuer-oidc: how *)
(* they register and authenticate, which of their keys the provider uses   *)
(* and which of its own it publishes, what an authorization request may    *)
(* ask for, and who is told of a logout.                                   *)
(*                                                                         *)
(* Registrations and the sets of keys fetched from clients live in memory, *)
(* and requests are served while others await a client's server.  Codes    *)
(* and tokens are the subject of OidcProvider.                             *)
(***************************************************************************)
EXTENDS OidcKeys, SequencesExt

CONSTANTS
    Slot,          \* the requests served at a time
    Client,        \* client identifiers, those to be drawn included
    Confs,         \* the configurations to start from; kinds are the requests
                   \* that come, maxGen bounds the configurations of the
                   \* provider's keys
    Uris,          \* the URIs that a logout may ask to return to
    Requests,      \* the metadata that registrations come with
    MaxKey,        \* bound: the keys a client publishes in turn
    EncPems,       \* the encryption keys that rotations bring
    Ttl,           \* JWKS_CACHE_TTL
    AssertionTtl,  \* for how long a client's assertion is good
    MaxClock,      \* bound on the clock
    Faulty,        \* may a client's server fail?
    None, Never

(* The options of a client, the metadata that it registers with, and the   *)
(* configuration of the provider.                                          *)
Method == {"none", "client_secret_basic", "client_secret_post",
           "client_secret_jwt", "private_key_jwt"}

AllowedUri == [origin : STRING, path : Seq(STRING), star : BOOLEAN]

Rp == [client : Client, method : Method, jwks : {None, "url", "inline"},
       encrypted : BOOLEAN, uris : SUBSET STRING, requirePkce : BOOLEAN,
       allowPlain : BOOLEAN, jwtAccess : BOOLEAN, backChannel : BOOLEAN,
       userInfo : {"none", "HS", "RS"}, secret : BOOLEAN,
       logoutUris : SUBSET AllowedUri, bypass : BOOLEAN]

Metadata == [json : BOOLEAN, uris : SUBSET STRING, method : Method,
             jwks : {None, "url", "inline"}, encrypted : BOOLEAN,
             backChannel : BOOLEAN, userInfo : {"none", "HS", "RS"},
             logoutUris : SUBSET AllowedUri]

Conf == [codeFlow : BOOLEAN, implicit : BOOLEAN, hybrid : BOOLEAN,
         dynamic : BOOLEAN, callback : BOOLEAN, sig : Pem,
         sigType : Type \cup {NoKey}, publicSig : {"none", "pem", "broken"},
         publicEnc : {"none", "pem", "broken"}, maxGen : Nat,
         renderLogout : BOOLEAN,
         kinds : SUBSET {"authenticate", "authorize", "userinfo", "logout",
                         "endsession"},
         rps : SUBSET Rp]

ASSUME ConfsAssumption ==
    /\ Confs \subseteq Conf
    /\ Requests \subseteq Metadata
    /\ {MaxKey, Ttl, AssertionTtl, MaxClock} \subseteq Nat
    /\ Ttl > 0 /\ MaxKey > 0
    /\ Faulty \in BOOLEAN
    /\ Never \notin Nat /\ None \notin Client \cup Rp

(* There are encryption keys for every configuration, and the number of a  *)
(* key file is that of one configuration.                                  *)
ASSUME EncPemsAssumption ==
    /\ EncPems \in Seq(SUBSET Pem) /\ Len(EncPems) > 0
    /\ \A c \in Confs : c.maxGen <= Len(EncPems)
    /\ \A m, n \in DOMAIN EncPems : \A p \in EncPems[m], q \in EncPems[n] :
          p.id = q.id => m = n

NoEntry == [key |-> 0, exp |-> 0]

(***************************************************************************)
(* A request being served.  now is the time that fetchJWKS() read, got the *)
(* key that the client's server sent, todo and tried the clients that a    *)
(* logout still has to tell and has told, and began those to tell.         *)
(***************************************************************************)
Idle ==
    [kind |-> "none", pc |-> "idle", client |-> None, rp |-> None,
     cred |-> None, types |-> {}, now |-> 0, got |-> 0,
     todo |-> {}, began |-> {}, tried |-> {}]

NoAnswer ==
    [kind |-> "none", client |-> None, key |-> 0, start |-> 0,
     began |-> {}, tried |-> {}, uri |-> None]

VARIABLES
    clock,
    conf,
    rps,         \* oidcRPMetaDataOptions: options by configuration key
    saved,       \* what the registerRP callback stored
    cache,       \* jwksCache, by client
    published,   \* the key that a client's server gives
    withdrawn,   \* history: when each key of a client was replaced
    gen,         \* how often the provider's keys were configured
    encs,        \* the configured encryption keys, current one first
    stage,       \* how far KeyManager.init() is
    keys,        \* the loaded keys
    picked,      \* history: the encryption keys that clients picked up
    registered,  \* history: when each client was registered
    task,
    last         \* the answer that the last step gave

files == <<gen, encs, stage, keys>>
vars == <<clock, conf, rps, saved, cache, published, withdrawn, files,
          picked, registered, task, last>>

NoKeys == [sig |-> NoKey, enc |-> NoKey, old |-> NoKey]

(* The keys of the configuration are names of their own for these.         *)
ConfiguredRps(c) == [k \in {<<"rp", o.client>> : o \in c.rps} |->
                        CHOOSE o \in c.rps : o.client = k[2]]

Init ==
    /\ clock = 0
    /\ conf \in Confs
    /\ rps = ConfiguredRps(conf)
    /\ saved = <<>>
    /\ cache = [c \in Client |-> NoEntry]
    /\ published = [c \in Client |-> 1]
    /\ withdrawn = [c \in Client |-> [n \in 1..MaxKey |-> Never]]
    /\ gen = 1
    /\ encs \in {<<p>> : p \in EncPems[1]}
    /\ stage = "sig"
    /\ keys = NoKeys
    /\ picked = {}
    /\ registered = [c \in Client |-> Never]
    /\ task = [k \in Slot |-> Idle]
    /\ last = NoAnswer

(* At most one entry has the client.                                       *)
GetRP(c) ==
    IF \E k \in DOMAIN rps : rps[k].client = c
    THEN rps[CHOOSE k \in DOMAIN rps : rps[k].client = c]
    ELSE None

Configure(f, k, o) ==
    [x \in DOMAIN f \cup {k} |-> IF x = k THEN o ELSE f[x]]

Await(k, t) ==
    /\ task' = [task EXCEPT ![k] = t]
    /\ last' = NoAnswer

Answer(k, a) ==
    /\ task' = [task EXCEPT ![k] = Idle]
    /\ last' = a

(* An answer with nothing to remember: an error, or no key was used.      *)
End(k) == Answer(k, NoAnswer)

(* An answer that a key of the client made possible, or none (0).          *)
Used(t, key) ==
    [NoAnswer EXCEPT !.kind = t.kind, !.client = t.client, !.key = key,
                     !.start = t.now]

-----------------------------------------------------------------------------
(* KeyManager.init() is not awaited: each key is loaded by itself, and one *)
(* that fails leaves the others alone.                                     *)

LoadKey ==
    /\ \/ /\ stage = "sig"
          /\ stage' = "enc"
          /\ keys' = [keys EXCEPT !.sig = Load(conf.sig, conf.sigType)]
       \/ /\ stage = "enc"
          /\ stage' = "old"
          /\ keys' = [keys EXCEPT !.enc = Load(encs[1], NoKey)]
       \/ /\ stage = "old"
          /\ stage' = "done"
          /\ keys' = [keys EXCEPT !.old =
                        IF Len(encs) = 1 THEN NoKey ELSE Load(encs[2], NoKey)]
    /\ last' = NoAnswer
    /\ UNCHANGED <<clock, conf, rps, saved, cache, published, withdrawn, gen,
                   encs, picked, registered, task>>

(* GET /jwks, and the client that takes an encryption key from it.         *)
BuildJWKS ==
    LET id == Preferred(EncryptionKeys(keys.enc, conf.publicEnc, keys.old))
    IN /\ ~JwksFails(keys.sig, conf.publicSig)
       /\ id # NoKey
       /\ picked' = picked \cup {id}
       /\ last' = NoAnswer
       /\ UNCHANGED <<clock, conf, rps, saved, cache, published, withdrawn,
                      files, registered, task>>

(* An administrator brings a new encryption key, keeps the one before as   *)
(* the old key, and the process starts again.  Keys picked up before the   *)
(* last rotation are no longer promised anything.                          *)
Rotate ==
    /\ gen < conf.maxGen
    /\ gen' = gen + 1
    /\ \E p \in EncPems[gen + 1] : encs' = <<p, encs[1]>>
    /\ stage' = "sig"
    /\ keys' = NoKeys
    /\ picked' = picked \cap {encs[1].id}
    /\ rps' = [k \in DOMAIN ConfiguredRps(conf) \cup DOMAIN saved |->
                 IF k \in DOMAIN saved THEN saved[k]
                 ELSE ConfiguredRps(conf)[k]]
    /\ registered' = IF conf.callback THEN registered
                     ELSE [c \in Client |-> Never]
    /\ cache' = [c \in Client |-> NoEntry]
    /\ task' = [k \in Slot |-> Idle]
    /\ last' = NoAnswer
    /\ UNCHANGED <<clock, conf, saved, published, withdrawn>>

-----------------------------------------------------------------------------
(* fetchJWKS(): of a client with inline keys, of the cache, or of the      *)
(* client's server.  It reads the time before it asks.                     *)

(* The key at hand without a request, 0 if there is none.                  *)
AtHand(rp) ==
    IF rp.jwks = "inline" THEN 1
    ELSE IF cache[rp.client].exp > clock THEN cache[rp.client].key
    ELSE 0

Fetch(k, t) == Await(k, [t EXCEPT !.pc = "fetch", !.now = clock])

(* The client's server answers with the key it has now.                    *)
ServerAnswers(k) ==
    /\ task[k].pc = "fetch"
    /\ Await(k, [task[k] EXCEPT !.pc = "fetched",
                                !.got = published[task[k].client]])
    /\ UNCHANGED <<clock, conf, rps, saved, cache, published, withdrawn,
                   files, picked, registered>>

-----------------------------------------------------------------------------
(* validateClientAuth() of the token, introspection and revocation         *)
(* endpoints.  An assertion is signed with a key of the client or with its *)
(* secret and has an end.  One with wrong claims is refused like one whose *)
(* signature is not the client's, and so is one that names a key that the  *)
(* set does not have.                                                      *)

Secret == -1

Credentials ==
    [secret : {None, "right", "wrong"}, signer : {0}, exp : {0}]
    \cup [secret : {None}, signer : {Secret} \cup 1..MaxKey,
          exp : {clock + AssertionTtl}]

(* jwtVerify() and the checks of its claims, at the time it is called.     *)
JwtVerify(cred, key) == cred.signer = key /\ cred.exp > clock

VerifyClientAssertion(k, t, key) ==
    IF JwtVerify(t.cred, key) THEN Answer(k, Used(t, key)) ELSE End(k)

ValidateClientAuth(k, c, cred) ==
    LET rp == GetRP(c)
        t == [Idle EXCEPT !.kind = "authenticate", !.client = c,
                          !.cred = cred, !.now = clock]
    IN IF rp = None THEN End(k)
       ELSE IF rp.method = "none" THEN Answer(k, Used(t, 0))
       ELSE IF rp.method \in {"client_secret_basic", "client_secret_post"}
         THEN IF cred.secret = "right"
              THEN Answer(k, Used(t, 0)) ELSE End(k)
       ELSE IF cred.signer = 0 THEN End(k)
       ELSE IF rp.method = "client_secret_jwt"
         THEN IF JwtVerify(cred, Secret)
              THEN Answer(k, Used(t, 0)) ELSE End(k)
       ELSE IF rp.jwks = None THEN End(k)
       ELSE IF AtHand(rp) # 0 THEN VerifyClientAssertion(k, t, AtHand(rp))
       ELSE Fetch(k, t)

Authenticate(k) ==
    /\ "authenticate" \in conf.kinds
    /\ task[k] = Idle
    /\ \E c \in Client, cred \in Credentials : ValidateClientAuth(k, c, cred)
    /\ UNCHANGED <<clock, conf, rps, saved, cache, published, withdrawn,
                   files, picked, registered>>

-----------------------------------------------------------------------------
(* The authorization endpoint.                                             *)

ResponseTypeAllowed(types) ==
    /\ "code" \in types => conf.codeFlow
    /\ "token" \in types => conf.implicit

(* The rest of a request: its redirect URI, PKCE method and scope.         *)
Rest == [uri : {"registered", "other"}, pkce : {None, "plain", "S256"},
         openid : BOOLEAN]

ValidateAuthorizationRequest(rp, types, rest) ==
    /\ rp # None
    /\ rest.uri = "other" => rp.uris = {}
    /\ ResponseTypeAllowed(types)
    /\ rp.requirePkce => /\ rest.pkce # None
                         /\ rest.pkce = "plain" => rp.allowPlain
    /\ rest.openid

(* A request that passes awaits the session and the consent of the user.   *)
(* Codes can always be made: the tokens that are asked for matter.         *)
Authorize(k) ==
    /\ "authorize" \in conf.kinds
    /\ task[k] = Idle
    /\ \E c \in Client, rest \in Rest,
          types \in SUBSET {"code", "token", "id_token"} \ {{}} :
         /\ ValidateAuthorizationRequest(GetRP(c), types, rest)
         /\ Await(k, [Idle EXCEPT !.kind = "authorize", !.pc = "consent",
                                  !.client = c, !.types = types \ {"code"}])
    /\ UNCHANGED <<clock, conf, rps, saved, cache, published, withdrawn,
                   files, picked, registered>>

(* signAndEncryptIdToken(), of a client that may be unknown by now; with   *)
(* no key at hand the token is not encrypted.                              *)
SignAndEncryptIdToken(k, t) ==
    LET rp == GetRP(t.client)
        signing == [t EXCEPT !.types = {}, !.now = clock]
    IN IF ~SignJWT(keys.sig) THEN End(k)
       ELSE IF rp = None \/ ~rp.encrypted \/ rp.jwks = None
         THEN Answer(k, Used(signing, 0))
       ELSE IF AtHand(rp) # 0 THEN Answer(k, Used(signing, AtHand(rp)))
       ELSE Fetch(k, signing)

(* Opaque tokens can always be made.                                       *)
Consent(k) ==
    LET t == task[k]
        rp == GetRP(t.client)
        signed == "token" \in t.types /\ rp # None /\ rp.jwtAccess
    IN /\ t.pc = "consent"
       /\ IF signed /\ ~SignJWT(keys.sig) THEN End(k)
          ELSE IF "id_token" \in t.types THEN SignAndEncryptIdToken(k, t)
          ELSE End(k)
       /\ UNCHANGED <<clock, conf, rps, saved, cache, published, withdrawn,
                      files, picked, registered>>

(* The login page, the consent page or an error is the answer.             *)
ConsentRefused(k) ==
    /\ task[k].pc = "consent"
    /\ End(k)
    /\ UNCHANGED <<clock, conf, rps, saved, cache, published, withdrawn,
                   files, picked, registered>>

(* handleUserInfoRequestSigned(), for the client of an access token: an    *)
(* answer that cannot be signed is given as it is.                         *)
UserInfoSigned(rp) ==
    \/ rp.userInfo = "HS" /\ rp.secret
    \/ rp.userInfo = "RS" /\ SignJWT(keys.sig)

UserInfo(k) ==
    /\ "userinfo" \in conf.kinds
    /\ task[k] = Idle
    /\ \E c \in Client :
         LET rp == GetRP(c)
             t == [Idle EXCEPT !.kind = "userinfo", !.client = c,
                               !.now = clock]
         IN IF rp = None \/ ~UserInfoSigned(rp) \/ ~rp.encrypted
               \/ rp.jwks = None
            THEN End(k)
            ELSE IF AtHand(rp) # 0 THEN Answer(k, Used(t, AtHand(rp)))
            ELSE Fetch(k, t)
    /\ UNCHANGED <<clock, conf, rps, saved, cache, published, withdrawn,
                   files, picked, registered>>

-----------------------------------------------------------------------------
(* What follows fetchJWKS().                                               *)

WithKey(k, t, key) ==
    IF t.kind = "authenticate" THEN VerifyClientAssertion(k, t, key)
    ELSE Answer(k, Used(t, key))

(* Mutant of FetchReturns: the entry lasts from the answer on. *)
FetchReturnsLate(k) ==
    /\ task[k].pc = "fetched"
    /\ cache' = [cache EXCEPT ![task[k].client] =
                   [key |-> task[k].got, exp |-> clock + Ttl]]
    /\ WithKey(k, task[k], task[k].got)
    /\ UNCHANGED <<clock, conf, rps, saved, published, withdrawn, files,
                   picked, registered>>

FetchReturns(k) ==
    /\ task[k].pc = "fetched"
    /\ cache' = [cache EXCEPT ![task[k].client] =
                   [key |-> task[k].got, exp |-> task[k].now + Ttl]]
    /\ WithKey(k, task[k], task[k].got)
    /\ UNCHANGED <<clock, conf, rps, saved, published, withdrawn, files,
                   picked, registered>>

(* An error, or an answer that is not a success.                           *)
FetchFails(k) ==
    /\ Faulty
    /\ task[k].pc \in {"fetch", "fetched"}
    /\ IF task[k].kind = "authenticate" THEN End(k)
       ELSE Answer(k, Used(task[k], 0))
    /\ UNCHANGED <<clock, conf, rps, saved, cache, published, withdrawn,
                   files, picked, registered>>

-----------------------------------------------------------------------------
(* Dynamic registration.  The key of the configuration is made of the time *)
(* in seconds.                                                             *)

(* Mutant of ConfKey: one key for all registrations. *)
ConfKeyFixed == <<"register", 0>>

ConfKey == <<"register", clock>>

IsDangerousUri(uri) == uri = "dangerous"

Acceptable(req) ==
    req.json /\ req.uris # {} /\ ~\E uri \in req.uris : IsDangerousUri(uri)

(* Identifiers are alike: they are drawn in a fixed order.                 *)
Fresh ==
    LET free == {c \in Client \ {o.client : o \in conf.rps} :
                    registered[c] = Never /\ published[c] = 1
                    /\ ~\E k \in Slot : task[k].client = c}
    IN IF free = {} THEN None ELSE CHOOSE c \in free : TRUE

RpOptions(c, req) ==
    [client |-> c, method |-> req.method, jwks |-> req.jwks,
     encrypted |-> req.encrypted, uris |-> req.uris,
     requirePkce |-> FALSE, allowPlain |-> FALSE, jwtAccess |-> FALSE,
     backChannel |-> req.backChannel, userInfo |-> req.userInfo,
     secret |-> TRUE, logoutUris |-> req.logoutUris, bypass |-> FALSE]

HandleRegistration(k) ==
    /\ conf.dynamic
    /\ task[k] = Idle
    /\ Fresh # None
    /\ \E req \in Requests :
         /\ Acceptable(req)
         /\ IF conf.callback
            THEN /\ Await(k, [Idle EXCEPT !.kind = "register",
                                !.pc = "register", !.client = Fresh,
                                !.rp = RpOptions(Fresh, req), !.now = clock])
                 /\ UNCHANGED <<rps, registered>>
            ELSE /\ rps' = Configure(rps, ConfKey, RpOptions(Fresh, req))
                 /\ registered' = [registered EXCEPT ![Fresh] = clock]
                 /\ End(k)
    /\ UNCHANGED <<clock, conf, saved, cache, published, withdrawn, files,
                   picked>>

(* registerRP() stores the options under the key it was given, or says no. *)
RegisterReturns(k) ==
    LET t == task[k]
    IN /\ t.pc = "register"
       /\ \/ /\ saved' = Configure(saved, <<"register", t.now>>, t.rp)
             /\ registered' = [registered EXCEPT ![t.client] = t.now]
          \/ UNCHANGED <<saved, registered>>
       /\ End(k)
       /\ UNCHANGED <<clock, conf, rps, cache, published, withdrawn, files,
                      picked>>

-----------------------------------------------------------------------------
(* sendBackChannelLogoutToAll() takes the clients one after the other from *)
(* the list it read first, and looks each of them up again.                *)

SendBackChannelLogoutToAll(k) ==
    /\ "logout" \in conf.kinds
    /\ task[k] = Idle
    /\ LET listed == {rps[x].client : x \in {y \in DOMAIN rps :
                                               rps[y].backChannel}}
       IN Await(k, [Idle EXCEPT !.kind = "logout", !.pc = "next",
                     !.todo = listed,
                     !.began = IF SignJWT(keys.sig) THEN listed ELSE {}])
    /\ UNCHANGED <<clock, conf, rps, saved, cache, published, withdrawn,
                   files, picked, registered>>

(* Without a signing key there is no token to send.                        *)
SendBackChannelLogout(k, c) ==
    LET t == [task[k] EXCEPT !.todo = @ \ {c}]
    IN /\ task[k].pc = "next"
       /\ c \in task[k].todo
       /\ IF GetRP(c) # None /\ SignJWT(keys.sig)
          THEN Await(k, [t EXCEPT !.pc = "post", !.tried = @ \cup {c}])
          ELSE Await(k, t)
       /\ UNCHANGED <<clock, conf, rps, saved, cache, published, withdrawn,
                      files, picked, registered>>

(* Mutant of Posted: a failure ends the round. *)
PostedOrStopped(k) ==
    /\ task[k].pc = "post"
    /\ \/ Await(k, [task[k] EXCEPT !.pc = "next"])
       \/ Await(k, [task[k] EXCEPT !.pc = "next", !.todo = {}])
    /\ UNCHANGED <<clock, conf, rps, saved, cache, published, withdrawn,
                   files, picked, registered>>

(* Whatever the client answers, the next one follows.                      *)
Posted(k) ==
    /\ task[k].pc = "post"
    /\ Await(k, [task[k] EXCEPT !.pc = "next"])
    /\ UNCHANGED <<clock, conf, rps, saved, cache, published, withdrawn,
                   files, picked, registered>>

AllNotified(k) ==
    /\ task[k].pc = "next"
    /\ task[k].todo = {}
    /\ Answer(k, [NoAnswer EXCEPT !.kind = "notified",
                    !.began = task[k].began, !.tried = task[k].tried])
    /\ UNCHANGED <<clock, conf, rps, saved, cache, published, withdrawn,
                   files, picked, registered>>

-----------------------------------------------------------------------------
(* The logout endpoint.  A URI has an origin, a path, and a fragment or    *)
(* not; an allowed one may end with a star.  hint is the audience of the   *)
(* ID token given as a hint, or "broken".                                  *)

(* Mutant of UriAllowed: of a prefix only the path is compared. *)
UriPathAllowed(rp, uri) ==
    \E allowed \in rp.logoutUris :
        IF allowed.star THEN IsPrefix(allowed.path, uri.path)
        ELSE allowed.origin = uri.origin /\ allowed.path = uri.path

UriAllowed(rp, uri) ==
    \E allowed \in rp.logoutUris :
        IF allowed.star
        THEN /\ allowed.origin = uri.origin
             /\ IsPrefix(allowed.path, uri.path)
        ELSE allowed.origin = uri.origin /\ allowed.path = uri.path

(* The client that the request is from; "none" when the two differ.        *)
LogoutClient(hint, client) ==
    IF hint = None THEN client
    ELSE IF client \in {None, hint} THEN hint ELSE "none"

ValidateLogoutRequest(hint, client, uri) ==
    LET rp == GetRP(LogoutClient(hint, client))
    IN /\ hint # "broken"
       /\ rp # None
       /\ uri.http
       /\ ~uri.fragment
       /\ UriAllowed(rp, uri)

(* Only a validated URI is redirected to, unless a page asks first.        *)
HandleEndSession(k) ==
    /\ "endsession" \in conf.kinds
    /\ task[k] = Idle
    /\ \E hint \in Client \cup {None, "broken"}, client \in Client \cup {None},
          uri \in Uris :
         LET from == LogoutClient(hint, client)
         IN /\ ValidateLogoutRequest(hint, client, uri)
            /\ conf.renderLogout => GetRP(from).bypass
            /\ Answer(k, [NoAnswer EXCEPT !.kind = "redirect",
                             !.client = from, !.uri = uri])
    /\ UNCHANGED <<clock, conf, rps, saved, cache, published, withdrawn,
                   files, picked, registered>>

-----------------------------------------------------------------------------

(* A client replaces the key that it publishes.                            *)
Publish(c) ==
    /\ published[c] < MaxKey
    /\ GetRP(c) # None
    /\ GetRP(c).jwks = "url"
    /\ published' = [published EXCEPT ![c] = @ + 1]
    /\ withdrawn' = [withdrawn EXCEPT ![c][published[c]] = clock]
    /\ last' = NoAnswer
    /\ UNCHANGED <<clock, conf, rps, saved, cache, files, picked, registered,
                   task>>

Tick ==
    /\ clock < MaxClock
    /\ clock' = clock + 1
    /\ last' = NoAnswer
    /\ UNCHANGED <<conf, rps, saved, cache, published, withdrawn, files,
                   picked, registered, task>>

Serve(k) ==
    \/ Authenticate(k) \/ UserInfo(k) \/ HandleEndSession(k) \/ Authorize(k) \/ Consent(k) \/ ConsentRefused(k)
    \/ ServerAnswers(k) \/ FetchReturns(k) \/ FetchFails(k)
    \/ HandleRegistration(k) \/ RegisterReturns(k)
    \/ SendBackChannelLogoutToAll(k) \/ Posted(k) \/ AllNotified(k)
    \/ \E c \in Client : SendBackChannelLogout(k, c)

Next ==
    \/ LoadKey
    \/ BuildJWKS
    \/ Rotate
    \/ \E k \in Slot : Serve(k)
    \/ \E c \in Client : Publish(c)
    \/ Tick

Spec == Init /\ [][Next]_vars

-----------------------------------------------------------------------------
(* What could be wrong.                                                    *)

(* A client's key that authenticates it or encrypts its ID token was still *)
(* published less than Ttl before the request asked for the key, however   *)
(* long answers take and however requests overtake each other (fetchJWKS). *)
KeyFresh ==
    last.key # 0 =>
        \/ withdrawn[last.client][last.key] = Never
        \/ withdrawn[last.client][last.key] > last.start - Ttl

(* Two clients are registered in different seconds only if the second does *)
(* not replace the first: whoever registered alone in its second is known  *)
(* (handleRegistration).                                                   *)
RegistrationKept ==
    \A c \in Client :
        registered[c] # Never =>
            \/ \E d \in Client \ {c} : registered[d] = registered[c]
            \/ \E k \in DOMAIN rps : rps[k].client = c
            \/ \E k \in DOMAIN saved : saved[k].client = c

(* When sendBackChannelLogoutToAll() returns, every client that had a URI  *)
(* when it began was sent a logout token, if a token could be signed and   *)
(* the client is still registered: no failure ends the round.              *)
AllAreTold ==
    last.kind = "notified" =>
        \A c \in last.began : c \in last.tried \/ GetRP(c) = None

(* What a client encrypts with the key that the key set puts first can be  *)
(* decrypted once the keys are loaded, across one rotation (decryptJWE).   *)
JwksDecrypts ==
    stage = "done" => \A id \in picked : DecryptJWE(keys.enc, keys.old, id)

(* A logout returns to no site but one that the client has registered      *)
(* (validateLogoutRequest).                                                *)
ReturnsHome ==
    last.kind = "redirect" =>
        \/ GetRP(last.client) = None
        \/ \E allowed \in GetRP(last.client).logoutUris :
              allowed.origin = last.uri.origin
=============================================================================
