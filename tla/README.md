# Verification of lemonldap-ng.js

TLA+ models of lemonldap-ng.js (a web single sign-on system in TypeScript:
portal, access-control handlers, session and configuration stores, identity
providers), model-checked with TLC, with theorems proved with TLAPS. The code is
the reference: each definition is a translation of the lines that `PROJECT.json`
names under `map`.

## 1. Inventory

All processes are Node.js: one event loop each, so a callback runs to its end
and the hard behaviours happen between callbacks (`await`, timers, messages).
Several processes (portals, handlers) share a session store, a configuration
store and a message broker.

| part | state it keeps | operations | what makes it hard |
|---|---|---|---|
| session accessor (`session`) | in-memory cache of 100 sessions, two minutes; the backend | `get`, `update`, `clearMemoryCache` | the cache gives out references to shared objects; answers in any order; `update` writes whole records |
| session stores (`session-*`) | one row per session | `get`, `update` | SQL backends update only rows that exist; writes of two processes; errors that never settle |
| handler (`handler/src/handlerMain.ts`) | a one-entry cache of the last session | `run`, `retrieveSession`, `localUnlog` | the one-entry cache is filled after an `await`; write-back of `_lastSeen` nobody waits for; stale caches after a logout |
| handler set-up (`handler/src/init.ts`, `msgActions.ts`) | tsv (rules, headers), accessor, brokers, timers | `reload`, `checkMsg`, `checkTime`, message actions | partial reloads; overlapping timers; rules appended and never reset |
| handler variants | pending credentials (AuthBasic), CDA sessions | `retrieveSession` overrides | two requests with the same credentials |
| message brokers (`message-broker-*`) | connection, subscription, queue | `subscribe`, `getNextMessage` (`publish` and `waitForNextMessage` are called by nothing) | reconnection, a queue that is reset or dropped with its client |
| portal sessions (`portal/src/portal.ts`, `routes`, `middleware`) | sessions in the store; one object per request | `POST /`, session middleware, `GET /logout`, `POST /password` | several awaits per request on a shared object |
| portal second factor (`routes/2fa.ts`, `2fa/manager.ts`) | pending authentications and their timers | start, verify | verifications of one pending authentication that overlap; timers that fire late |
| second-factor devices (`2fa-common`, `2fa-totp`) | the devices, a text in the object that a request hands over; tokens of registrations, in a store that is injected | register, rename, remove | tokens read and deleted across awaits; a list edited while a registration waits |
| SQL and demo modules (`*-dbi`, `*-demo`) | none (the tables are the database's) | authenticate, load attributes, change a password | two packages that have to agree on columns and on how a password is stored |
| portal plugins | plugins, hooks by priority | load, execute, close | a failing hook, an early stop |
| LDAP connection (`lib-ldap`) | client, circuit breaker, current server | `connect`, `reconnect`, `withRetry`, `userBind`, `close` | concurrent operations share one client and one breaker across awaits |
| CAS server (`issuer-cas`, `lib-cas`) | tickets in the session store, registrations | login, validate, proxy, logout | tickets are read and then deleted; logout while services register |
| OIDC provider (`issuer-oidc`) | codes, access and refresh tokens; its keys, the clients with their keys and registrations | authorize, token, userinfo, introspect, revoke, register, logout | one-time codes and rotated refresh tokens are read, checked and deleted in separate steps; keys change while requests use them |
| OIDC client (`auth-oidc`, `userdb-oidc`) | states, the claims of the current login | redirect, callback, `getUser`, `setSessionInfo`, logout | callbacks late, twice or swapped between tabs; one place for the claims of all logins |
| CAS client (`auth-cas`, `userdb-cas`), SAML service provider (`auth-saml`) | none, relay states | redirect, return, logout | tickets and assertions that come back twice |
| SAML identity provider (`issuer-saml`, `lib-saml`) | the lasso server; lasso sessions and identities, behind callbacks | initialise, sign on, log out | a session's record is read before the assertion is built and replaced after |
| Kerberos, TLS | none | one request each | - |
| configuration (`conf`, `conf-*`) | numbered configurations | `getConf` (`saveConf` is called by nothing) | errors that are not propagated |
| helpers (`crypto`, `jwt`, `logger*`, `safelib`, ...) | none | pure functions | - |

How they interact: the portal writes sessions through its accessor; handlers
read them through theirs and write `_lastSeen` back; a logout reaches a handler
through the store (after its caches expire) or through a broker message
(`unlog`); `reload()` replaces a handler's accessor while requests are served;
the issuers keep their tickets in the same store.

What makes each part correct: nobody gets another user's session; a logout holds
and reaches every handler within a bounded time; a cookie names a stored
session; every request is answered; a ticket, code or state is used once, and none of
them, nor a pending authentication or a registration, again after it was answered; a user is the one whom the provider recognised for this
login; a password that was changed is the one that opens sessions; keys that are
used are published and not too old; the breaker limits what reaches a dead server
and lets it recover; a single logout reaches everybody who was told of the login.

The components, the ones that are left out included, are under `components` in
`PROJECT.json`; what is hard to test, line by line, under `hazards`.

## 2. The modules, and the plan

| module | models | uses |
|---|---|---|
| `SessionAccessor` | the session accessor, the store behind it, restarts, time | - |
| `Handler` | access control in a handler: `run`, `retrieveSession`, `localUnlog`, `reload` as far as sessions go | `SessionAccessor` |
| `Portal` | login, session middleware, menu, logout, password change | `SessionAccessor` |
| `Sso` | the composition: portals, handlers and the store; its properties | `Handler`, `Portal` |
| `SsoPromise` | what users and applications are promised, without stores, caches or requests | - |
| `Sso_proofs` | the theorems about `Sso` | `Sso` |
| `CasIssuer` | the CAS server: tickets, PGTs, single logout | - |
| `CasIssuer_proofs` | the theorems about `CasIssuer` | `CasIssuer` |
| `OidcProvider` | the OpenID Connect provider: codes and tokens | - |
| `OidcProvider_proofs` | the theorems about `OidcProvider` | `OidcProvider` |
| `OidcKeys` | keys as values: their types, what is published, who can sign and decrypt | - |
| `OidcClients` | the OpenID Connect provider: its keys, its clients and theirs, registration, logout | `OidcKeys` |
| `OidcClients_proofs` | the theorems about `OidcClients` | `OidcClients` |
| `DbiPasswords` | the SQL and demo modules as operators: columns, hashes, comparisons | - |
| `Devices` | the list of second-factor devices and TOTP codes as operators | - |
| `Registration` | the registration of TOTP devices, their deletion and renaming | `Devices` |
| `Login` | a login with a password and a second factor, password changes; registrations beside them | `DbiPasswords`, `Registration` |
| `Login_proofs` | theorems about `Login` | `Login` |
| `RemoteLogin` | a login at a remote provider: the OpenID Connect client, the CAS client, the SAML service provider | - |
| `SamlIssuer` | the SAML identity provider with its lasso server and sessions | `RemoteLogin`, whose sessions it serves |
| `Federation` | the composition of the two, and the end of a session | `SamlIssuer` |
| `Federation_proofs` | the theorems about `Federation` | `Federation` |
| `LdapConnection` | the LDAP connection that the modules of a portal share | - |
| `LdapConnection_proofs` | the theorems about `LdapConnection` | `LdapConnection` |
| `HandlerEvents` | the message broker's client, the event loop and the reload of the configuration in a handler | - |
| `HandlerEvents_proofs` | the theorems about `HandlerEvents` | `HandlerEvents` |
| `MC...` | the small instances of the module they name; `MCSsoFaults` chooses between two instances of `Sso` | that module |

What could follow, in this order:

1. `AuthBasic` beside `Handler`: the login shared by requests with the same
   credentials, and the one-time sessions of CDA.
2. The composition of `HandlerEvents` with `Handler`, whose `LocalUnlog` and
   `Reload` come at any time today; and of `Login` with `Portal`, whose `Login`
   does not say which module decides.
3. Theorems: see the end of section 6 for what is only model-checked.

## 3. How the models correspond to the code

A process runs one callback at a time, so a callback, from the answer that
resumes it to the next `await`, is one action. Waiting for a store, a module or
an HTTP client is a `pc`. `PROJECT.json` names the lines of every definition.

### Sso

State. `store` has one record per session: `utime` is `_utime`, `lastSeen` is
`_lastSeen` (0 when it is absent, which is how `retrieveSession()` treats it),
`data` how much of the user's attributes is there. In each process, `heap` holds
the JavaScript objects, because the cache gives out references: `mem` is the
`LimitedCache` of the accessor, `last` the handler's `lastSessionId`,
`lastSessionData` and `lastSessionTime`, and a `task`, one request, has a
reference too. `KeepHeld` empties the objects nobody references, so a small
number of references is enough. `writes` are the calls of `update()` that have
not answered, with the record as it was serialised.

| actions | code |
|---|---|
| `ServeFromInternalCache`, `ServeFromMemory`, `AskStore`, `ServeFromStore`, `NoSessionInStore`, `NotReady` | `run()` and `retrieveSession()`, through the one-entry cache, the accessor's memory, or the store |
| `Decide` | `grant()`: access, `forbidden()` with its `localUnlog()`, or an error |
| `Refreshed`, `RefreshFails`, `RefreshNotReady` | the `update()` of `_lastSeen` that nobody waits for |
| `LocalUnlog`, `Skip`, `Reload`, `BackendReady` | messages, `skip` rules, `reload()` |
| `Login`, `Created`, `Opened` | `POST /`: two updates, then the cookie |
| `EnterFromMemory`, `EnterFromStore`, `GotSession` | the session middleware |
| `DeleteFromMemory`, `DeleteFromStore`, `GotForDelete`, `NothingToDelete`, `Saved` | `GET /logout` and `deleteSession()` |
| `PasswordChanged`, `PasswordDone` | `POST /password` |
| `SaveFails` | a rejected `update()` of the portal |
| `BackendGet`, `BackendGetFails`, `BackendUpdate` | the store |
| `Evict`, `Crash`, `Tick` | the 100-entry bound, a restart, the time |

The local file cache (`cacheModule`) is not in the model: neither `portal.ts:54`
nor `init.ts:177`, the two places that make an accessor, configures it.

### CasIssuer

`store` is the ticket store and `ious` the PGTIOU store. `arrays` keeps every
array that `registerAppForSession()` ever made for a session, and `current`
which of them the map has: a logout goes on iterating over the array it began
with. Login, the four validations, `/proxy` and logout are sequences of actions,
one per awaited call: `Login` and `LoginStored`; `Validate`, `TicketFound` or
`TicketNotFound`, `TicketDeleted`, `SessionRead`, then for a PGT
`SessionReadForPgt`, `PgtStored`, `IouStored`, `CallbackDelivered` or
`CallbackFails`, `PgtRemoved`, `IouRemoved`; `Proxy`, `ProxyGranted` or
`ProxyRefused`, `ProxyStored`; `Logout` and `LogoutSent`. `StoreFails` rejects a
call that may have been done all the same, `Restart` loses the registrations and
keeps the stores. The model assumes the HTTP client and the PGTIOU store that
`issuePGT()` needs are configured. `scenario`, here and in `OidcProvider`, is one
of the records of the constant `Scenarios`: which requests come, whether calls
fail, how far the clock runs. It is chosen at the start and never changes.

### OidcProvider

`codes`, `access` and `refresh` are the three kinds of entries of the token
store. `Authorize`, `AskAccess` and `CodeStored` are `handleAuthorization()`
with its three flows; `Redeem`, `Consumed`, `CodeNotFound` the code grant;
`UseRefresh`, `RefreshRead`, `RefreshRefused`, `Rotated` the refresh grant; both
end in `generateTokens()` (`Generate`, `AccessStored`, `SessionRead`,
`OfflineAsked`, `RefreshStored`). `Present` begins userinfo and introspection
requests, `Revoke` a revocation. Random strings are alike, so they are drawn in a fixed order; a string that is presented
as something it is not is not found and changes nothing, so it is left out; a
history counter tells one grant from several and stops at two.

### OidcKeys and OidcClients

`keys` are those of the key manager (signing, encryption and the previous
encryption key), `rps` the clients it knows, configured or registered, `saved`
what the registration callback stored, `cache` the key sets of clients with their
expiry, `published` the key that each client gives at its URL. A request is a task
with what it awaits.

| actions | code |
|---|---|
| `LoadKey`, `BuildJWKS`, `Rotate` | `init()`, which nobody awaits, `buildJWKS()`, and the key that an administrator replaces |
| `Authenticate`, `ServerAnswers`, `FetchReturns`, `FetchFails` | `validateClientAuth()`, `verifyClientAssertion()`, `fetchJWKS()` with its cache |
| `Authorize`, `Consent`, `ConsentRefused` | `validateAuthorizationRequest()`, the ID token that is signed and encrypted |
| `UserInfo` | the format of the user info |
| `HandleRegistration`, `RegisterReturns` | dynamic registration, kept in memory or given to a callback |
| `SendBackChannelLogoutToAll`, `Posted`, `AllNotified` | the round of logout tokens |
| `HandleEndSession` | `validateLogoutRequest()` and the redirection |

`Key` says of a key what the code can tell: its number, the type it was declared
or detected as, the type that it is. Redirection URIs are origins and paths,
enough for `allowed` patterns to make a difference.

### Login, Registration, Devices and DbiPasswords

`DbiPasswords` says which tables and columns the three SQL packages take from a
configuration, which of them `perl-dbi` shows (names are folded by the database),
and what is stored for a password: a `Value` is a tag, an encoding, a digest and
the password, and comparing is comparing values, so that a hash that one package
writes and another cannot read is seen. `Devices` has the operations on the JSON
text of the devices, with the text that cannot be parsed as one more value.

| actions | code |
|---|---|
| `Login`, `Authenticate`, `LoadUser`, `BlockedByPlugin` | `POST /` up to the second factor: the middlewares, one query each, the hooks |
| `CreatePendingSession`, `ForgetExpired`, `Cleanup` | the pending authentication and its timers |
| `VerifySecondFactor`, `Verified` | `POST /2fa/:type`: the pending authentication is read and the module awaited; then it is deleted, or the challenge shown again |
| `Create`, `Open` | the session, as in `Portal` |
| `ChangePassword`, `Confirm`, `Update`, `Updated`, `EndChange` | `POST /password` and `password-dbi` |
| `SessionToInfo` | the object that a request hands to the registration module |
| `GetKey` | a secret is drawn and its token stored |
| `VerifyRegistration`, `GetToken`, `DeleteToken`, `RegisterDevice`, `EnrolmentFails` | the verification of a registration, one action for each awaited call of the store of tokens |
| `DeleteDevice`, `ModifyDevice` | deletion and renaming, which await nothing |
| `Fail`, `Tick` | a query or an update that is rejected; the time |

Hashes are perfect: two values are equal when they were made the same way from
the same password. Which TOTP code belongs to a time is the time itself.

The portal loads the registration module beside that of verification, and has no
route that calls its `handleAction()`: requests to it are made by a caller outside
the repository, each with the object that `sessionToInfo()` gives for a session.
The module edits the list of devices in that object and stores nothing, so `info`
has one list per object, and a device that is registered is not one of the list
that a login reads. A token carries a user, too, whom nobody looks at. `won`,
`acked` and `held` are histories: the pending authentications that were verified,
the tokens whose registration was acknowledged, the devices acknowledged and not
deleted since. `late` says of a request that it came after such a success.

### RemoteLogin, SamlIssuer and Federation

Nothing in the portal calls these packages yet: they are libraries with
callbacks, and the order of the calls is the one of the portal for other modules
(`authenticate`, `getUser`, `setSessionInfo`).
An attempt stands for the state, nonce and verifier drawn together, and for the
code, ticket or assertion that answers it. `call` has the returns of browsers;
`claims` is the `currentClaims` of `OIDCUserDB`; nothing in the repository hands
claims to it, so its three calls are in the order that it documents, with those of
other logins between them. No state is tied to a browser.

| actions | code |
|---|---|
| `InitOP` | `init()`: the providers with their discovery documents, one by one |
| `GetAuthorizationUrl`, `BuildLoginUrl`, `BuildAuthnRequest` | leaving for the provider |
| `HandleCallback`, `HandleErrorCallback`, `TokenRequest`, `GetUserInfo` | the OpenID Connect callback, one action for each awaited call |
| `SetOIDCClaims`, `GetUser`, `SetSessionInfo` | `userdb-oidc` |
| `AuthenticateTicket`, `ValidateTicket` | the CAS client |
| `AuthenticateAssertion` | the SAML service provider |
| `OpenSession` | the session of CAS and SAML |
| `InitServer`, `Shutdown` | `ServerManager` of `lib-saml` |
| `ProcessAuthnRequest`, `BuildAssertion`, `StoreIdentity`, `StoreSAMLSession` | a single sign-on of the identity provider |
| `InitiateLogout`, `Logout` | single logout of the identity provider; the end of a portal session |
| `ProviderAnswers` | the provider, external |

lasso is external: it checks assertions, and keeps in a dump the service
providers that were sent one.

### LdapConnection

`client`, `connected`, `lastHealthCheck` and the three variables of the breaker
are the fields of the object; `bound` and `closed` say what was done to a
client. A request is the sequence of calls that its module makes (`AuthSteps`
and the like, from `auth-ldap`, `userdb-ldap` and `password-ldap`); its `pc` is
what it awaits.

| actions | code |
|---|---|
| `ConnectAllowed`, `ConnectRefused`, `Connected`, `TlsBegins`, `TlsStarted`, `ServerFails`, `ServerFailsAlone`, `Cleaned` | `connect()` and `connectToServer()`, over the servers |
| `NotConnected`, `HealthCheckFailed`, `Unbound`, `Wake` | `reconnect()` and its attempts |
| `RecentlyValidated`, `HealthCheck`, `HealthCheckPassed` | `validateConnection()` |
| `Operation`, `NoClient`, `OperationDone`, `OperationFails`, `ConnectionLost`, `Retry` | `bind()`, `search()`, `withRetry()`, and the changes made as manager |
| `UserBind`, `UserBound`, `UserRefused`, `UserBindLost` | `userBind()`, with a client of its own |
| `MayModify`, `Refused`, `OwnClient`, `OwnClientDone` | `modifyPassword()` and changes made as the user |
| `StartModule`, `Begin`, `Tick` | the modules' `init()`, a request, the time |

A step ends where the code awaits, and also between two calls that a module
makes one after the other: some of these are one piece of code, so the model has
more interleavings than the program, never fewer. Which of the servers is tried
first is left out, so any attempt may be one with StartTLS. `failureCount` stops
at the threshold, above which no comparison tells values apart. That the client
library may open a lost connection again by itself is left out.

### HandlerEvents

`log` is what others publish on the event channel, `saved` the number of the last
configuration that the manager stored. `reader` is `tsv.msgBrokerReader`: which
reload made it (`by`), its broker, whether the broker delivers to it, the place
in `log` of what comes `next`, and its queue. `task` has the reloads, one for
each event and one for the start: they overlap, because `setInterval()` does not
wait. `conditions`, `regexps` and `applied` are `locationCondition`,
`locationRegexp` and `defaultCondition` for one location.

| actions | code |
|---|---|
| `Start`, `NumberRead`, `Configure`, `Reject`, `Uncaught` | `init()`, `reload()` and `getConf()`, with rejections that are caught and those that end the process |
| `NewReader`, `ServerSubscribes`, `Subscribed`, `Fallback` | `msgBrokerInit()` and `subscribe()` |
| `CheckEvents`, `StopEventLoop` | the timer, `checkEvents()` and `processMessage()`; the shutdown |
| `Delivered`, `ConnectionLost`, `Reconnected` | the clients of Redis and PostgreSQL |
| `Publish`, `Save` | the other processes |

Events come from the other processes of an installation: in this repository
`publishEvent()` is called by nothing. The server of the web broker is not in the
repository and its client is left out. All configurations name the same channel.

## 4. What the runs check

Times are in units in which the configured delays are small; a run takes about
two minutes at most.

| run | question | bounds |
|---|---|---|
| `sso_logout` | type invariant; an answered logout stays in the store (`LogoutTakesEffect`), the handlers implement `SsoPromise` (`PromiseKept`) | one handler, one portal that may restart at any point, one session |
| `sso_sharing` | caches, requests and one-entry cache never mix two sessions up (`OwnSession`); no cookie before its session is stored, also when store calls fail (`CookieImpliesStored`) | two sessions, two requests at a time in each process |
| `sso_faults` | when every store call may fail: the same promise while `_lastSeen` is written back (`PromiseKept`), and every request is answered (`RequestsAnswered`) | two instances: timeout 1 and `MaxClock` 5, so that the session can expire in every state; logout and password change |
| `sso_refresh` | a disagreement, see below | as small as shows it |
| `cas_tickets` | type invariant; a ticket whose validation was answered is never accepted later (`SpentStaysSpent`); no PGT is left that its service was not given (`PgtsDelivered`); a logout forgets no application (`NoAppForgotten`), with logins that finish while it runs | two requests at a time; three tickets and all requests but logout, without failures; or two tickets, two applications, one logout, with failing calls and restarts |
| `oidc_grants` | type invariant; responses name stored tokens (`HeldIsStored`), a code is granted once (`CodeOnce`), what was rotated or revoked stays out (`SpentStaysSpent`), rotation loses no offline access (`GrantKept`) | two requests at a time; five strings: a code, its tokens and one rotation, without failures; or four strings with failing calls, restarts, expiry, requests that do not match their code, userinfo and introspection |
| `oidc_clients` | keys of clients are not too old (`KeyFresh`), registrations of different seconds are kept (`RegistrationKept`), a round of back-channel logout tells everybody (`AllAreTold`), what is encrypted for the published key can be decrypted (`JwksDecrypts`), a logout returns to a registered place (`ReturnsHome`) | two requests at a time, three clients, two generations of keys on both sides, seven configurations, clock 2 with a time to live of 1 |
| `login` | a verification that comes after one that succeeded opens no session (`VerifiedIsSpent`); a second factor is not skipped (`SecondFactorKept`); the last acknowledged password decides (`AcknowledgedPasswordDecides`); a token whose registration was acknowledged serves no later request (`AcknowledgedTokenIsSpent`); acknowledged devices stay (`AcknowledgedDevicesStay`) | two logins and two registrations at a time, one user, two passwords, one of which looks like a tagged hash; one secret, one session info, two epochs of devices; ten configurations, two of which do not start and one that lets nobody in, one with registrations (`registers`); late timers, failing queries and stores |
| `federation` | a state or ticket is accepted once (`AcceptedOnce`), a user is the one recognised for the request that the state names (`OwnAnswer`); service providers stay known (`SpNotForgotten`) | two attempts and three returns, which is what a repeated and two swapped callbacks need; two single sign-ons at a time; eight configurations for the three protocols |
| `ldap_breaker` | type invariant; the breaker counts (`BreakerCounts`) and shields the servers (`OpenShields`); the object drops a client it closed (`ClosedIsLeft`) | two servers that fail at any point, two requests at a time: password changes, and authentications or confirmations; threshold, attempts and reset timeout 2 |
| `events` | type invariant; no event twice or out of order (`EventsInOrder`), none dropped by a client that stays (`NothingDropped`), none that stays in a queue (`EventsLeave`); a reload applies what was stored when it was asked for (`ReloadIsFresh`) | three events, so three reloads besides the first one; two lives of the process; three configurations, for Redis, for PostgreSQL, and one whose expression does not load |
| `events_rules` | a disagreement | one reload |

Why the bounds are enough. The properties speak of one session, ticket or code
and of at most two or three requests that meet on it; each run has as many
requests as its worst case needs and as many identifiers as these use. The clock
runs past the last timeout that matters (`MaxClock`). The bound of `PromiseKept`
is tight: with `Slack` or `Window` smaller by one, TLC finds a behaviour that
exceeds it, so the interesting delays do happen in the instance. Every property
of a passing run is violated by at least one mutant of the code's definitions
(`mutants` in `PROJECT.json`). `CHECK_DEADLOCK FALSE` appears because the clock
and the supply of identifiers are bounded: when both are used up nothing is left
to do, and in `HandlerEvents` because the process may have ended for good.

Fairness is stated where liveness is checked. For `RequestsAnswered` (`Fairness` in `Sso`, which `MCSsoFaults` states for one
of its instances): the store answers
every call, with a result or an error (its drivers have timeouts or report a
closed connection), and Node.js runs a callback that is ready. Weak fairness of
each request's own steps says that, and no more. Browsers, brokers, evictions,
reloads and the clock have no fairness. The SQL backend whose query fails never
settles its promise (`session-dbi/src/index.ts:36`); the run does not cover it.
For `EventsLeave` (`Fairness` in `HandlerEvents`): the timer fires until it is
stopped, and a broker delivers over a connection that lasts. Stores and brokers
need not answer, so the property holds beside reloads that never end.

Symmetry is used for request slots (`MCCasIssuer`, `MCOidcProvider`,
`MCOidcClients`, `MCLogin`, `MCFederation`), CAS tickets, tokens of pending
authentications, users of `MCFederation` and client objects of
`MCLdapConnection`, which are interchangeable; no run with symmetry checks
liveness. The view of
`ldap_breaker` (`Observed`) leaves out what no later step and no invariant reads:
which clients are bound, an expired health check, and the time of a failure when
the breaker is not waiting for it. With `MaxClock` 3 and a reset timeout of 2 the
breaker opens, shields for two units and half-opens again.

## 5. What the runs found

Each is a run whose expected result is a violation; `findings` in
`PROJECT.json` has the lines and the texts.

- `sso_refresh`: with `timeoutActivity`, a handler's write-back of `_lastSeen`
  restores a session that a logout marked as expired in between.
- `events_rules`: `reload()` appends the rules of the new configuration to those
  of the old one, which are never removed; the first rule that matches decides,
  so a rule that was changed or removed stays in force until a restart.

The same models show, in instances that are not listed: `sso_logout` with
password changes among its requests violates `LogoutTakesEffect`, because
`POST /password` writes back the session that its middleware loaded before the
password module was awaited; so does a store that fails, because
`deleteSession()` swallows the error; with `UpdateInserts = FALSE`, an SQL
session store, `CookieImpliesStored` is violated: a new session is stored with
`update()`, an `UPDATE` that changes no row and reports success; an LDAP search
whose connection is lost is repeated by `withRetry()` on the new client, which
nobody bound, so that it is anonymous (`SearchAsManager` of `LdapConnection`);
an event that waits behind a `reload` in the queue is lost with the client that
this reload replaces, an `unlog` included; of two validations of a ticket that
overlap, both are accepted, although the ticket is for one use; two refresh
requests that overlap are both granted with a rotating token; and of two logouts
of a CAS session (`NoAppForgotten`), the second to end deletes registrations made
after the first one ended, without a logout request.

The modules about logins and providers have these facts in their definitions, or
as exceptions that a property names; none of them is a run of its own:

- Remote logins. `OIDCUserDB` keeps one `currentClaims` for all logins, so two
  that interleave give one user the attributes of the other, which
  `userdb-oidc/src/index.ts:83` does not expect; whether they do is up to the
  caller that hands the claims over.
  Without nonce and PKCE, callbacks swapped between tabs are accepted
  (`OwnAnswer`). A state that is abandoned, or refused by an error of the
  provider, is never purged. A missing authorization endpoint is noticed after
  the state was stored. A failing user info request is tolerated, and its subject
  is not compared with that of the ID token.
- CAS client. A service URL without a path never validates, because the URL of
  the validation always has one; nothing sets the cookie that names the server.
- SAML. A state's expiry is never looked at; a missing relay state is accepted,
  and so is the same response again, unless lasso objects. One provider with bad
  metadata ends the initialisation of the server manager, whose server serves
  those registered before it. `storeSAMLSession()` replaces the whole record, so
  that other fields of it are lost; two single sign-ons that overlap for one session
  lose a service provider (`SpNotForgotten`). A logout never updates the stored
  dump, so the next service provider to ask is always the same.
- OpenID Connect provider. `init()` loads keys one by one while requests are
  served. An EC key without a declared type is taken for an RSA key and cannot
  sign. A client that replaced its key is refused until the cached set expires,
  as a missing key id causes no fetch. Two registrations in one second overwrite
  each other (`provider.ts:2005`), and those kept in memory are lost with the
  process. An ID token that cannot be encrypted is sent unencrypted.
- Logins. A pending authentication is read, its code verified across an await, and
  then deleted: verifications that all read it before one deletes it open a session
  each. So do two verifications of one registration token, which register two
  devices with one secret. `VerifiedIsSpent` and `AcknowledgedTokenIsSpent` are
  about requests that come after a success. A password change with the SQL module works only if an exported
  variable gives `_dn`. A second factor is asked only if `_2fDevices` is exported
  and can be parsed; a user whose devices have all expired gets an error. On
  databases that fold column names to upper case, or with names that are not in
  lower case, `auth-dbi` refuses every login. A password in plain text that looks
  like a tagged hash locks its user out. Devices registered in one second are
  removed together.

## 6. What is proved

`Sso_proofs`, for every value of the constants (any number of processes,
requests, sessions and references, any delays, faulty stores and restarts),
from the assumptions `TimesAssumption`, `NamesAssumption` and
`SwitchesAssumption` of `Sso`:

- `TypeCorrect`: `Spec => []TypeOK`.
- `SessionsStayApart`: `Spec => []OwnSession`, which `sso_sharing` checks.
- `CookiesAreStored`: `UpdateInserts => (Spec => []CookieImpliesStored)`, checked
  by `sso_sharing`.
- `LogoutsTakeEffect`: `LogoutsLast => (Spec => []LogoutTakesEffect)`, checked by
  `sso_logout`. `LogoutsLast` says when a logout is the last write of a session:
  `update()` inserts, the store fails no call, and neither `timeoutActivity` nor a
  change of password writes sessions. Each condition is needed: section 5 and
  `deleteSession()`, which answers when the update failed.
- `SsoKeepsPromise`: `Spec => PromiseKept`, that `Sso` implements `SsoPromise`,
  under `LogoutsLast` (as in `sso_logout`) or when there are no logouts, and then
  with any failures (as in `sso_faults`).

`OwnSession` is not inductive. It says that a reference stored under an id leads
to an object of that id, and a step may break that in three ways: by assigning to
an object, by allocating one that is still referenced, or by collecting one that
is. The inductive invariant is `IInv == TypeOK /\ Own /\ PcOK`. `Own` extends
`OwnSession` to everything that has a reference or a record: the store's rows,
the updates on their way (whose object and record have the same id) and the
answers on theirs. `PcOK` says which requests have a reference or an id at which
`pc`. Lemmas about references (`Held`, `NewObj`, `KeepHeld`) carry the argument:
a new object is one that nothing holds, so no other reference changes its
meaning; what is held after a step keeps its cell; assignments change attributes
and never `id`. Then there is one lemma per action.

TLC checks `OwnSession` only where the clock has two values; since the theorem
holds for all values of the constants, nothing depends on that.

The other three theorems are about what is written where and when. `StepEffect`
says once, with a lemma for each action, what a step may do: either `Effect`, in
which objects, answers and updates come from older ones of the same session, a
request that ends or goes on has an id whose cookie was given, and a cache gets
what was accepted or read; or the clock (`TickEffect`), the write of a record
(`StoreEffect`), or a stage of a login (`LoginEffect`, `FillEffect`,
`OpenEffect`). The invariants are then proved from the effects. `LifeInv`: a
record has the time its session was created, or 0; a get is not older than
`Latency`. `OpenInv`: a login that is not over has its session to itself, in
every process, and from the second update on no record of it is `"new"`, so that
neither another write nor the row that was there can undo the login. `ExpireInv`:
once the cookie is given, every update on its way marks the session as expired;
hence the row is never revived. `WindowInv`: an answer on its way that does not
know the logout was asked for before it, a memory entry that does not know it
ends at most `Latency + MemTime` after it, a one-entry cache was filled before
that. With `TimesSound` this bounds every grant, and the steps map to
`SsoPromise`: a login to `Create`, its last update to `Open`, an answered logout
to `Logout`, a granted access to `Grant`, all else to a stutter or a tick.

`CasIssuer_proofs`, for any number of requests, sessions, services and tickets,
any life times, failing calls and restarts, from `BoundsAssumption`:

- `TypeCorrect`: `Spec => []TypeOK`.
- `SpentTicketsStaySpent`: `Spec => []SpentStaysSpent`.
- `PgtsAreDelivered`: `Spec => []PgtsDelivered`.
- `NoAppIsForgotten`: `Spec /\ []LogoutsApart => []NoAppForgotten`, where
  `LogoutsApart` says that no two logouts of a session overlap (two that do make
  the server forget registrations, section 5), and `OneLogoutForgetsNothing`:
  `Spec => []((MaxLogouts <= 1) => NoAppForgotten)`. The three are the properties
  of `cas_tickets`.

A late validation is refused because the store has its ticket no more, so the
invariant must say why nobody stores it again. `Safe` has four parts: an
identifier that was not drawn is used nowhere (`UndrawnUnused`); a ticket about
to be stored is in nobody's hands, is not stored, was not answered and is about
to be stored by one request only (`CreatedIsNew`); once a validation has passed
its deletion, or was answered, the store does not have the ticket
(`DeletedIsGone`); a late validation is still at its `get` (`LateWaits`). `Shape`
says what a request has at which `pc`. Every step is one of four kinds, with a
lemma each: it stores, reads and draws nothing (`QuietStep`), draws an identifier
(`DrawStep`), stores the ticket the request drew (`StoreStep`), or finds a ticket
(`FoundSafe`). That identifiers are drawn once is an assumption on the random
generator, in the guard of `Draw`.

`PgtInv` says what a request that issues a PGT has done at each of its calls: the
PGT is stored while its service is being called and is not stored when only the
PGTIOU is left to remove (`PgtsKept`); and that no other request has this PGT in
hand (`Issued`). A failing call or a restart ends a request where it is, so
`PgtsKept` is claimed without them only, as is the property. `AppsInv` gives the
place of a running logout: its array is the current one, so what logins push is
ahead of it, and the applications up to its position were sent a request
(`LogoutsOk`); hence an array that is current no more was gone through
(`ClearedOk`). `LogoutsCounted` shows that a session that is logged out once has
no overlapping logouts.

`LdapConnection_proofs`, for any number of requests, servers, clients and
attempts, any timeouts and any configuration of the modules, from
`LdapAssumption`:

- `TypeCorrect`: `Spec => []TypeOK`.
- `BreakerIsCounted`: `Spec => []BreakerCounts`.
- `BreakerShields`: `Spec => []OpenShields`.
- `ClosedClientIsLeft`: `Spec => []ClosedIsLeft`, the three properties of
  `ldap_breaker`.

The invariant `IInv` has four parts. `Tasks` gives the requests their types and
says what each has at its `pc` (`ShapeOf`): a server to try next, an attempt that
is left, a call to make, and a `since` that is not in the future. `Fields` is the
type of the object. `Breaker` adds to `BreakerCounts` and `OpenShields` that the
last failure is not in the future: a failure that opens the breaker sets
`lastFailureTime` to the present, so whatever is under way began before it.
`ClosedIsLeft` is inductive beside `Tasks`. Each part has a lemma for the steps
of a request, in which the actions are grouped by what they do to it.

`HandlerEvents_proofs`, for any number of events, configurations and starts, from
`HandlerEventsAssumption`:

- `TypeCorrect`: `Spec => []TypeOK`.
- `EventsTakenInOrder`: `Spec => []EventsInOrder`, a property of `events`.
- `ReloadsAreFresh`: `Spec => []ReloadIsFresh`, a property of `events`.
- `EventsAreNotDropped`: `Spec => NothingDropped`, a property of `events`.

`EventsInOrder` needs to know that what a client will hand over is newer than all
that was taken: `Order` says that the events taken and those in the queue are
increasing, each of the former before each of the latter, all before `next`, and
`next` at most one past the end of the log. A client that was not
subscribed yet has an empty queue. `Fresh` says the same of configurations:
what was stored when a reload was asked for is not newer than what is stored, and
a reload that is past `getConf()` has a number between the two.

`NothingDropped` speaks of a client whose `subscribe()` is over, because that call
creates the queue anew. A step could put the client back to where it has not
subscribed only by asking for the reload that brought it a second time.
`AskedByTaken` excludes that: the event that asked for this reload was taken, so
by `Order` every event in the queue is a later one.

`OidcProvider_proofs`, for any number of requests, clients and random strings,
any scenarios, failing calls and restarts, from `ClientsAssumption` and
`BoundsAssumption`:

- `TypeCorrect`: `Spec => []TypeOK`.
- `CodeGrantedOnce`: `Spec => []CodeOnce`.
- `SpentForGood`: `Spec => []SpentStaysSpent`.
- `GivenIsStored`: `Spec => []HeldIsStored`.
- `OfflineAccessIsKept`: `Spec => []GrantKept`, all of them properties of
  `oidc_grants`.

None of the first three is inductive: an entry that was removed must not come back, and
a request that is going to store one may be several awaits away. The argument is
about ownership. A string nobody drew is known to nobody (`UndrawnUnknown`); one
that a request drew is known to that request alone until its store call answers
(`CreatedIsNew`, `NewTo`), so nobody can have redeemed or revoked it; a code that
was granted is out of the store (`GrantedOnce`); a token that is being rotated or
revoked has left the stores that it had to leave so far (`Leaving`); what a
response is going to name was stored (`OutStored`). Every action is shown once to
be an `OwnStep` of its request: what it draws, learns, writes, spends and grants
is within what a request may do; each part of the invariant has one lemma about
such steps.

`GrantInv` is about the codes for which a refresh token was given. `OfflineKept`:
every refresh token that is stored, or that a request is going to store, is of a
client and a scope with offline access, and knows the code it comes from; a
refresh request keeps that scope unless it asks for less. `Renewed`: such a code
has a refresh token in the store, or a request that used one and goes on to store
another; a step that takes one out of the store is that request's own rotation, or
a revocation, which ends the claim.

`OidcClients_proofs`, for any number of requests, clients and keys of clients, any
configurations, registrations and key files, from `ConfsAssumption` and
`EncPemsAssumption`:

- `KeysAreFresh`: `Spec => []KeyFresh`.
- `RegistrationsAreKept`: `Spec => []RegistrationKept`.
- `EveryoneIsTold`: `Spec => []AllAreTold`.
- `EncryptedIsReadable`: `Spec => []JwksDecrypts`.
- `LogoutsReturnHome`: `Spec => []ReturnsHome`, the five properties of
  `oidc_clients`.

What a step answers is the least of it; the invariant says why the answer is
right. `Good` bounds the age of every key that the provider has of a client, in
the cache or on its way: it was published at the time that the entry or the
request remembers, or later. Because that is the time before the request was
sent, an answer that overtakes another one can only put an older entry back,
never one that lasts too long. A client with inline keys never replaces its key
only if it has no other options with a URL: `OptionsOk` says that a client has
one set of options, whether configured, in use, stored or with a callback, which
needs that identifiers are drawn once (`RpsOk`, `RegistersApart`). `KeptIn` finds
a registration by the second it was made in. `FilesInv` ties the loaded keys to
the files and to the stage of loading, and each key that clients picked up to a
file that is still configured.

`Login_proofs`, for any number of requests, users, tokens, secrets and session
infos, any configurations, devices, passwords and failures, from
`TokensAssumption`, `ConfsAssumption` and `TextsAssumption`:

- `VerificationsAreSpent`: `Spec => []VerifiedIsSpent`.
- `SecondFactorIsKept`: `Spec => []SecondFactorKept`.
- `AcknowledgedDecides`: `Spec => []AcknowledgedPasswordDecides`.
- `TokensAreSpent`: `Spec => []AcknowledgedTokenIsSpent`.
- `DevicesAreKept`: `Spec => []AcknowledgedDevicesStay`, the five properties of
  `login`.

`WonAreGone` says that a pending authentication that was verified is deleted, in
the step that learns of the success, and nothing puts it back. So a request that
reads one comes before the first success, although others may have read it too,
and `MayOpen` keeps this for the request while it waits for the module and then
opens its session, together with what `SecondFactorKept` needs: its user needs no
second factor, or it came from a pending authentication in time.

`AcknowledgedPasswordDecides` is about what is stored and about who knows it. For
the former, two lemmas about the operators of `DbiPasswords`, for every scheme,
digest and configuration: what is stored for a password verifies for no other one
(`NoOtherVerifies`), and for itself if it is `Storable` (`ItselfVerifies`); and
`auth-dbi` and `password-dbi` work on the same column when both start. For the
latter, the invariant `Tracked`: a password that is known to be in force is the
one stored, and no change of it runs; a change that knows what it will leave is
the only one of its user; a login that knows the password in force saw no change
begin. What is refused in spite of the right password is outside `Readable`:
columns whose names the database folds, and texts that look like tagged hashes
(section 5).

For registrations `Tokens` says that the token of an acknowledged one is not
stored, and `Enrols` that a verification past the deletion of its token was not
late when it came: it found the token, so no acknowledgement came before. New
tokens have new secrets, so no token that is gone comes back (`Later`). `Holding`
says that acknowledged devices are in the list of their session info (`Has`).
Adding a device keeps the list, and renaming keeps the type, second and secret of
each position. For `removeDevice()` one needs that the list that is left has every
position that is kept: it is given by an increasing enumeration of these
positions, which exists for every list (`Enumerated`), and which takes each of
them because it takes as many as there are (`FS_Injection`). This is an
induction over the length. The induction theorems of the library take an operator
as a parameter, so `AllNumbers` derives the principle for a set of numbers from
`FS_StrictSubsetOrderingWellFounded` and `WFMin`: of the intervals `1..n` whose
`n` is not in the set, one is minimal. `Filtered` is written with this enumeration
rather than with `SelectSeq`, whose recursive definition the prover does not know.

`Federation_proofs`, for any number of attempts, returns, users, providers,
service providers and concurrent requests, any configuration of the providers and
of their answers, from `RemoteAssumption`:

- `OpenedOnce`: `Spec => []AcceptedOnce`.
- `LoginsAreOwn`: `Spec => []OwnAnswer`.
- `SpsAreKept`: `Spec => []SpNotForgotten`, the three properties of `federation`.

`RemoteInv` says of each return what it may rely on at its step: its state is
stored no more, so no other return will find it (`ReturnOk`); a CAS ticket is
spent at the server, and its user and user info are the ones that `OwnAnswer` asks
for (`AcceptOk`). Two returns are `Apart` because a step that accepts one takes a
state that is stored, or a ticket that is not spent. `IssuerInv` is about lasso sessions: one that is being built
has everybody who was sent an assertion for the session, or the missing one is in
`overlapped` (`BuiltOk`), because two that are built for one session at a time
have both noted it (`OverlapOk`); no assertion is sent for a session that is not
open yet, so the record that a login writes forgets nobody (`ServedOk`).

Every invariant and action property that a run checks is the statement of a
theorem, where the theorem needs a condition that is in its statement.

Only model-checked: `RequestsAnswered` and `EventsLeave`, liveness properties under
fairness, which is out of the prover's reach, as is `ENABLED`; and the two
disagreements, whose properties do not hold.

## 7. What is not modelled

`components` in `PROJECT.json` gives the reason for each part. In short: the
handler variants, of which AuthBasic and CDA keep state; plugins and hooks, which
run one after the other (what they may refuse is in `Login`); Kerberos and TLS,
which translate one request; the configuration backends and `saveConf()`, which
nothing calls; templates, logging, conversions. Within the modelled parts: which
rule matches a request, what headers or claims an application receives, how URLs
are parsed, XML, and the cryptography are abstracted to their outcome;
half-written files of the file backend appear as a failed `get`; lasso, the HTTP
servers of clients and providers, and the databases are external. The logout of a
user at the remote provider that he came from is left out: the code that would
remember this provider is not in the repository.
