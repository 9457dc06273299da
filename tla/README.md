# A verification of the OpenSlides auth service

TLA+ modules that model the auth service (`auth/src`, TypeScript on Node) and the library
that the other OpenSlides services verify tickets with (`auth/libraries/pip-auth/osauthlib`,
Python), TLC configurations that check them on small instances, and proofs that TLAPS
checks for all instances. Paths in this file are relative to `src/auth/src`, or to
`osauthlib/` for Python files. `PROJECT.json` gives the source lines of every definition.

    cd tla
    tlc -workers 4 -config MCSessionStore_concurrent.cfg MCSessionStore
    tlapm SessionStoreProofs.tla

## 1. The system

A user who logs in gets a *ticket*: a cookie (valid for 30 days) and an access token (valid
for 10 minutes), both JWTs that carry a user id and a session id. Services accept a token
without asking anybody, so a logout has to reach them before it is forgotten.

| Component | State | Operations |
|---|---|---|
| Session store: `session-service.ts`, `redis-database-adapter.ts`, `redis-message-bus-adapter.ts`, called from `auth-service.ts` and the controllers | Redis hashes `auth:session` (session to user) and `auth:user` (user to the list of sessions), an index set for each, the stream `logout` | login, SAML login, logout, clear-all-sessions, clear-all-sessions-except-themselves, clear-sessions-by-user-id, identity-provider logout, hasSession |
| Invalid sessions: `session_handler.py`, `message_bus.py`, `validator.py` | per process: the ordered set `invalid_sessions` and `last_ids` | verify, verify_only_cookie, verify_authorization_token |
| Authorization tokens (password reset): `auth-service.ts`, `private-controller.ts`, `auth_handler.py`, `database.py` | marks of used tokens in Redis, named by the Authorization header as it was sent: fields of one hash for the service, a key of its own for each in the library | create, verify (in both programs) |
| User accounts: `user-service.ts`, `database-adapter.ts`, `hashing-service.ts` | PostgreSQL table `user_t`, a pool of connections for each `DatabaseAdapter` | look up by name and id, check a password and migrate its hash, store last_login |
| Ticket validation: `ticket-validator.ts`, `ticket-service.ts`, `validator.py`, `auth_handler.py` | none (headers and cookies of the request) | accept a ticket in either program, refresh an expired token, who-am-i |
| SAML login: `saml-controller.ts`, `saml-service.ts`, `http-service.ts` | cached settings of the organization | index, metadata, getUrl, send, acs, idplogout, and secure/logout; provisioning by a call of the backend |
| Hashing: `hashing-service.ts`, `hashing_handler.py` | none | hash, isEquals, isDeprecatedHash in two languages |
| Secrets, configuration, wiring, logging | read once at the start | |

**How they interact.** The controllers call AuthService, AuthService calls UserService, then
SessionService, then UserService again, and TicketService. SessionService writes to Redis
over three connections and appends to the stream `logout`; every library process reads that
stream. The library asks the service over HTTP only when a token has expired. There
is one SessionService (`@Inject`), but each AuthService has a UserService of its own, and each
UserService and SamlService a pool of connections (`@Factory`). The two
programs keep their marks of used authorization tokens apart, but under names that meet: the
name of a field of the service is the name of a key of the library.

**What is hard about it.**

* Node runs one callback at a time, but every `await` is a place where other requests go on.
  Every operation of SessionService reads a list, changes the copy and writes it back over
  several awaits. Nothing locks.
* Commands of one `Promise.all` are executed in any order relative to each other, as far as
  they use different connections; a request whose command fails is answered while its other
  commands are still on their way.
* The library trusts its own clock, which may be wrong, and forgets logouts to save memory.
* Marks, tokens and logouts expire at different times, in three places.
* A pool of connections is shared by all requests of one controller, and an exception may end a
  request anywhere between taking a client and returning it.

What makes each component correct is in section 4, per module, and under "hazards" in
`PROJECT.json` with the line where each hazard bites.

## 2. The modules

| Module | Content |
|---|---|
| `SessionStore` | the session store; one action per Redis command or continuation of a request |
| `SessionRegistry` | its abstract specification: sessions that are opened and closed atomically |
| `InvalidSessions` | the library's list of logouts against the lifetimes of tokens |
| `AuthorizationToken` | one-time tokens in both programs |
| `TicketCheck` | how the middleware of the service and the library accept and renew a ticket |
| `SamlLogin` | logins and logouts through an identity provider, with the commands on sessions and lists |
| `UserAccounts` | UserService over the connection pool of DatabaseAdapter |
| `Hashing` | stored password hashes and how both programs judge them; used by `UserAccounts` |
| `MC...` | each of them for TLC: bounds, symmetry, clocks |
| `...Proofs` | theorems about each of them, with proofs; `HealthyStoreProofs` has those of the session store without faults, `SerialStoreProofs` those that need in addition that requests of one user do not overlap |

`SessionStore` and `InvalidSessions` share the logout stream, `UserAccounts` and
`SessionStore` the login. Each module contains as much of the other side as its own
properties need (the comments at the head of each say what), so each is checked by itself:

* `InvalidSessions` has the session store as a set of live sessions with the commands of
  `removeSession` (HDEL and XADD, in either order), because the order of `hasSession`, the
  creation of a token and XADD is what the timing depends on.
* `UserAccounts` has `addSession` as one step without state, and `SessionStore` has the
  password check and `updateLastLogin` as a choice between success and failure.
* `SamlLogin` has the sessions and the lists of `SessionStore`, read and written one command
  at a time, because SAML logins and logouts of one user overlap and `SessionRegistry`
  describes the store only when they do not. It leaves out the indexes, the stream and the
  requests of other controllers, and `SessionStore` leaves out how a SAML request gets there.
* `UserAccounts` has one pool: that of the UserService that password logins and who-am-i of the
  public controller use. What others do to the table with pools of their own is a write of the
  backend there; the reads of SamlService are calls that may fail in `SamlLogin`.
* `TicketCheck` has the sessions as a set with the commands of logins and logouts under way;
  the library's list is the stream itself, because `InvalidSessions` shows that the list
  refuses a session for as long as its tokens live. So a token is refused by the library
  exactly when the logout of its session has been announced.

### SessionStore

State: the four Redis structures and the stream (`sessionDb`, `sessionIndex`, `userDb`,
`userIndex`, `logouts`), the queue of the connection of `auth:user` (`userConn`), and for
each request slot where it is (`pc`), what it has read (`list`, `key`) and which commands of
its current batch are not executed yet (`todo`). `owner`, `issued` and `removed` are history.

* One step per Redis command (`HSet`, `SAdd`, `HDel`, `SRem`, `XAdd`, ...User) and per
  continuation (`LoginGetsList`, `LogoutGetsList`, `ClearGetsList`, ...), because between two
  of those any other request may run.
* ioredis sends the commands of one connection in the order of the calls. For `auth:user`
  the order matters and is a queue. For `auth:session` only the order of commands about the
  same session matters: HSET before HDEL, and SADD before SREM (guards of `HDel`, `SRem`).
* A session id is picked when the login begins; the code picks it when the list has arrived.
  Nobody sees it earlier, and ids do not collide (`Random.cryptoKey`).
* `Accepted(s)` is what the ticket validator lets through: a ticket of `s` with a live
  session, or an expired token of `s` together with any live cookie (the path through
  `refreshToken`, where the two are not compared).
* A request that finds no session reads `null` as its user and uses the list stored under
  the key "null": `Null` is a key of `userDb`.
* `removeSession` swallows errors; all other errors end the request with an error (`failed`)
  while its other commands go on.
* `Crash`: the process dies, requests and commands that were not executed are gone, Redis
  stays.

### InvalidSessions

State: the clock `now`; the auth service's live sessions and the commands its requests have
under way (`jobs`), each at most `RequestTime` old; tokens with their time of issue; the
stream; and for each process `lastId`, `invalid` and the verification it is in (`check`).
A verification is two steps, since it waits for XREAD in between for any time: prune and
choose the id to read after; read, update the list and answer. Clocks of processes differ
from that of the service by any constant `Offset`. Cookies do not expire in the model: their
30 days are far longer than anything the library remembers. The list is ordered by stream
id, as updates only append entries that are newer, so it is a set here.

### AuthorizationToken

State: creation time of each token (`born`), the service's marks (`marked`), the expiry of the
library's keys (`key`), and the verifications under way. What is marked is the Authorization
header as it was sent, a token with a writing of what stands before it: the service looks up
and marks the raw header (`private-controller.ts:50`, `auth-service.ts:89` and `:94`), but
takes the word "bearer" in any case (`ticket-service.ts:90-93`); the library takes the writing
a token is issued with only. The service's `EXPIRE` names a hash field, so it does nothing to
its own mark, which stays for ever; but a key of that name exists when the library has verified
the header, and its expiry is set anew.

### UserAccounts

State: the committed rows of `user_t`, the clients of the pool (lent to whom, in a
transaction, holding which row lock, connection lost or not), the queue of `pool.connect()`,
and for each request the database call it is in (`job`), its await (`pc`), and the row it
was answered (`read`). `had` is history: the passwords each user was given. `argon2.verify`
and `argon2.hash` are one step, because no state is shared between them; the comparison with
`dummyPassword` is a failed login. Names need not be unique: the code handles that they are
not. A write conflict waits for PostgreSQL's row lock. The backend creates, changes and
deletes rows at any time and writes new passwords in the format of the hash route, argon2.

`Hashing` gives the forms of a stored hash (found by prefix and length, as both programs do),
and what each program answers for it. Where the service throws, the library answers False. A
new password of the backend is the library's `hash`, a migrated one the service's.

### TicketCheck

State: the clock and how far the library's is off; the sessions, the stream and the commands
under way; the jwts that clients were given; one request with the step it is at. The request
records the sessions as they were when it was sent (`live`, `announced`, history). A header or
cookie is a jwt in a form: as issued, with "Bearer" in another case, without it, changed, or
not there. The order of the checks is the code's: jsonwebtoken looks at the signature before
`exp`; PyJWT at the signature, `iat`, then `exp`; the first failure decides whether the
request is refused, renewed or anonymous. One request is enough, since requests meet in Redis
only: what others do there are the actions of the surroundings, between any two steps.
`jwt.decode` of a string with its "bearer" is `null`, so the comparison of users in
`ticket-service.ts:70-74` compares nothing and is not in the model.

### SamlLogin

State: the accounts, the settings of the organization and the copy each of the two
`SamlService` instances keeps, the hash of open sessions (`open`), the users' lists (`lists`),
and for each request its route, its step, the settings it works with, the user it is about, the
first answer it sent, the list it has read, and its commands on their way to Redis (`opening`,
`storing`, `closing`, `stray`). The actions with a session are those of SessionService:
`OpenSession` reads the list and sends the HSET of the session and of the list (`addSession`);
`CloseAll`, `AllClosed` and `ListDropped` read the list, wait for its sessions to be removed
and drop it (`clearAllSessions`); `CloseOwn` to `OwnRemoved` are `clearSessionById`.
`SessionStored`, `ListStored` and `SessionRemoved` are Redis executing a command, also of a
request that has ended in an error. Reading a list and sending what follows from it is one
step, as between two awaits; `lists` are sets, so `splice(-1, 1)` drops any session instead of
the last. A second answer throws and changes nothing, as with express. samlify awaits nothing
but promises that are there, so a request goes on with its settings up to its next call.
`barred` is history: who was inactive all along.

## 3. The runs

Each MC module counts arrivals of requests and faults and stops at a bound. Those of
`SessionStore` and `UserAccounts` then stutter in `Spent`, but only when every request has
been answered, so a request that is stuck is reported as a deadlock. The runs of
`TicketCheck` and `SamlLogin` end at their bounds and do not check for deadlocks; that SAML
requests are answered is checked by `RequestsAnswered`.

| Run | Instance | Checks |
|---|---|---|
| `store_concurrent` | 2 sessions, 2 users, 2 requests at a time, 3 in all, 1 fault | `TypeOK`, `ListsHoldOwnSessions`, `LoggedOutStaysOut`, `TicketsAreBacked`, `HealthyStoreKeepsWord`, `OnlyOwnRequestsClose`, `RequestsFinish` |
| `store_serial` | 4 sessions, 2 users, 2 requests at a time of different users (`Serial`), 5 in all, no faults, symmetric | `BusAgreesWithStore`, `ActiveSessionsAgree`, `LogoutsTakeEffect`, `ClearKillsOpenSessions`, refinement `ImplementsRegistry` |
| `lost_update` | 3 sessions, 1 user, 2 at a time, 4 in all | finds `ClearKillsOpenSessions` violated |
| `library` | 2 sessions, 1 process with a slow clock, tokens of 1 s, logouts kept 3 s, requests of 1 s, 2 tokens, 2 commands or tickets under way, 2 removals, 1 restart, 6 s, symmetric | `TypeOK`, `TokensDieWithLogout`, `CookiesRefusedForPruneTime`, `StaleListsShrink` |
| `authorization_faults` | 1 token in 3 writings ("bearer X" as it is issued, "Bearer X", which the service takes, too, and one that nobody takes), 2 verifications at a time by either program, 1 failing command, clock to 6 with tokens of 2 | `TypeOK`, `NotAcceptedLater` |
| `authorization_race` | 2 verifications by the auth service, 1 writing, no faults | finds `OnlyOnce` violated |
| `accounts_pool` | 2 users of one name (one starts active, with a hash of any form, the other absent until the backend creates it), 2 passwords and the empty one, 2 requests, 2 clients, 1 write of the backend, 2 faults | `TypeOK`, `PooledClientsAreClean`, `PasswordsAreGiven`, `ProgramsAgree`, `MigratedPasswordsOpen`, `RequestsFinish` |
| `deleted_user` | the same with 1 user and no faults | finds `RefreshedUsersExist` violated |
| `migration` | the same with 1 user and no faults | finds `MigrationKeepsPassword` violated |
| `tickets` | 2 sessions, tokens of 1 s and cookies of 2 s, clock to 3, the library's clock off by -1, 0 or 1, 2 requests of which the first may have one damaged part, 1 removal, symmetric | `TypeOK`, `SignedInClientsPass`, `PassesAreVouched`, `OnlySoundJwtsPass`, `CookiesClearedForCause`, `ProgramsAgree` |
| `saml` | 1 user, 2 sessions, 2 requests at a time and 3 in all (a page only as the first), 1 event (a write of an account or of the settings, a failing call, a restart) | `TypeOK`, `InactiveStayOut`, `SessionsHaveTickets`, `LogoutsClose`, `RequestsAnswered` |
| `saml_disabled` | 1 user, 2 requests, no events | finds `DisabledOpensNothing` violated |

**Why the bounds are enough.** Two requests at a time are enough for every race in this code:
each hazard is about one request that comes between two awaits of another. Three sessions
(`lost_update`) are the least for which a request can lose an entry of a list that a third one
then needs; four sessions and five requests (`store_serial`) fill a list with more than one
session, shorten and clear it, while a request of the other user is between any two of its
steps; two sessions and two users (`store_concurrent`) are the least for which a request could
reach into a foreign account, and leave room for a fault. One library process is enough,
because processes share only the stream and write nothing; the proofs cover any number.
`PruneTime` and `TokenTtl` are as short as keeps their relation (`MarginAssumption`), the clock
runs long enough for a logout, the time it is kept and the last token of the session; two
pieces of work under way are the late ticket and the removal that is still to come when it is
asked for, which is the latest a token can be. With two sessions in the list the median is not
its only element and both halves of a list occur. Two clients and two requests let a request
wait for a client that the other one, or a fault, has not returned (a client that leaks twice
blocks the pool), which is what two faults are for. A user of the same name, whom the backend
may create at any time, reaches the branch of the login that refuses an ambiguous name. Two
requests of `tickets` let one use the token that the other had renewed; three seconds let a
token expire, be renewed, and expire with its cookie; two sessions let the token of one meet
the cookie of the other. In `saml`, three requests let a login and a logout of one user overlap
when there is a session already, or two logins before a logout; more users would only add
requests that do not meet, since a request writes the list of its user only. One event comes
between any two steps. A second writing that the service takes (`authorization_faults`) is
enough to tell headers from tokens. The theorems of section 5 do not depend on bounds.

**What the violations show.**

* `lost_update`: two logins of one user (or a login and a clear) both read the list before
  either has written it; one entry is lost, and a later clear-all-sessions leaves that
  session open, against README.md:107. When requests of one user wait for each
  other, whatever those of other users do, the property holds and the store refines the
  atomic registry (`store_serial`, proved in `SerialStoreProofs`): a lock per user would be
  enough. The code has none.
* `authorization_race`: two requests look up the mark of a token before either has set it
  and both accept, against `authorization.spec.ts:47`. (One after the other, the service
  accepts it twice as "bearer X" and "Bearer X": see `NotAcceptedLater` in section 4.)
* `deleted_user`: `whoAmI` tests `!user`, but the adapter answers `{}` for a row that is not
  there; a deleted user goes on to get tokens for as long as the session lives.
* `migration`: the UPDATE of a migrated hash does not check that the row is still the one
  that was read; a password that the backend has changed meanwhile is put back.
* `saml_disabled`: `acs` answers 404 while SAML is disabled, and goes on: the account is
  saved, a session is opened, and only the second answer fails (`saml-controller.ts:128`).

**Fairness.** Liveness is checked under weak fairness of `Progress(r)` (in `SamlLogin`
`Advance(r)`) for each request:
the event loop runs every continuation that is due, Redis and PostgreSQL execute every
command sent to them, and the queue of the pool serves its head when a client is free.
Arrivals, faults and writes of the backend are not fair. Strong fairness is not needed since
the runs bound arrivals; without that bound a row lock could be taken by others for ever
while one transaction waits, which the lock queue of PostgreSQL excludes and the model does
not show.

## 4. The properties

* `ListsHoldOwnSessions`, `OnlyOwnRequestsClose`: whatever is lost from a list, no list ever
  names a session of another user, so no request closes sessions of another account. The
  list under "null" is the interesting case.
* `LoggedOutStaysOut`: a session that was deleted never becomes live again, although the HSET
  that stores a session and the HDEL that deletes it are sent by different requests.
* `TicketsAreBacked`: a ticket that was answered has its session, whatever failed before,
  until some request deletes it.
* `BusAgreesWithStore`, `ActiveSessionsAgree`: with a healthy Redis, when no request is under
  way, the stream has exactly the deleted sessions and the index exactly the live ones.
* `ClearKillsOpenSessions`: a clear closes every session of the user that was open when the
  request arrived.
* `LogoutsTakeEffect`: with a healthy Redis, an accepted logout that was answered has deleted
  its session and published it. `HealthyStoreKeepsWord` is these three up to the first fault.
* `RequestsFinish`: every request ends, also after a fault.
* `TokensDieWithLogout`: no process accepts a token of a session whose logout is on the
  stream, neither before nor after it forgets the logout. The minute of margin in
  `PRUNE_TIME` is used up by the time between `hasSession` and the token, and between
  HDEL and XADD (twice `RequestTime`).
* `CookiesRefusedForPruneTime`: a verification by cookie alone refuses a session for
  `PRUNE_TIME` after its *first* logout, by the clock of the process, and no longer: cookies
  of closed sessions are accepted again afterwards, until they expire. This is a limit of
  the design, stated as what the code does guarantee.
* `StaleListsShrink`: a list of expired logouts loses more than half of them with every
  verification.
* `NotAcceptedLater`: a program that has accepted an Authorization header refuses it in every
  verification that begins later, although its mark expires or could not be given an expiry;
  the library refuses the token in every writing. For the service this is per header and not
  per token: it accepts "bearer X" and later "Bearer X", one after the other and without any
  fault, against "the token is only valid once" (`authorization.spec.ts:47`), which is what the
  code does and why no stronger property is stated. The two programs do not know of each
  other's marks: each may accept a token once.
* `SignedInClientsPass`: a client that sends its ticket as it got it, for a session that
  stays open, is let in by either program with that session, keeps its cookie, and gets a new
  token if the old one had expired, whatever expires between the checks. Exceptions are a
  failing call and a library whose clock is behind (PyJWT refuses an `iat` of its future).
* `PassesAreVouched`: a session that was closed before a request was sent neither lets it in
  nor gets it a token. Who vouches is the live session of the *cookie*, or, for an unexpired
  token at the library, the stream for the session of the *token*: nothing compares the two
  sessions on the path of a renewal, nor in the library.
* `OnlySoundJwtsPass`: a changed jwt opens nothing, even if it is expired, too.
* `CookiesClearedForCause`: a client is told to delete its cookie only for a lasting reason,
  or when a call of who-am-i fails, which logs a client out for a fault.
* `ProgramsAgree` (of `TicketCheck`): service and library decide alike on every ticket of one
  session, but for the "Bearer" that only the service takes, and while no login or logout of
  the session is under way. A removal of which a command has failed counts as under way for
  ever: HDEL without XADD, or the reverse, makes them disagree.
* `InactiveStayOut`: who was not active when the login response came, and was not made active
  since, gets no session, although the user is read twice and only the first read looks.
* `SessionsHaveTickets`: a SAML login opens no session without sending its ticket, except
  after a failing call, a restart, or with SAML disabled. These sessions stay open, without
  anybody knowing them, until their user's sessions are cleared.
* `LogoutsClose`: a logout that reports success, to the client or to the provider, has closed
  for good the sessions it is about: all that the list named when the provider asked, also
  one whose HSET was still on its way, or the client's own. Logins and logouts of the same
  user may run beside it. Exempt are failed commands, which `removeSession` hides. A session
  that the list has lost in the race of two logins is not in it, and stays open after a
  redirect that reports success: nothing of SAML saves it from what `lost_update` shows, so
  "all sessions of the user" is not a property of this code. For an account that
  was deactivated, `getUserBySamlId` throws: the provider gets an error, and the sessions of
  the account stay open.
* `RequestsAnswered`: every SAML request is answered, except a logout request of the provider
  without a nameID.
* `ProgramsAgree` (of `UserAccounts`), `MigratedPasswordsOpen`: both programs accept the same
  passwords for every stored hash, well-formed or not; a migration leaves an account that one
  of its user's passwords opens in both.
* `PooledClientsAreClean`, `PasswordsAreGiven`, `RequestsFinish` (of `UserAccounts`): no
  client returns to the pool in a transaction, as long as a ROLLBACK fails only when the
  connection is lost; no migration opens an account to a password
  that its user was not given; no request waits for a client or a lock for ever.

## 5. What is proved

TLAPS proves these for every value of the constants, from the assumptions the modules name
(`NullAssumption`, `TimesAssumption`, `MarginAssumption`, `TtlAssumption` and
`ValuesAssumption`). All are about the specifications with faults, except these of the session
store:

* `BusAgrees`, `IndexAgrees` and `LogoutsAreEffective` say what it does while Redis is healthy
  (`Spec`). `KeepsWord` extends them to the specification that the run `store_concurrent`
  checks, with faults at any time: the three hold up to the first one.
* `SerialStoreProofs` is about `Spec /\ []Serial`: Redis is healthy and no two requests of
  one user overlap, which is a condition on the traffic that nothing in the code enforces and
  that every run of requests one after the other meets. Requests of different users overlap
  in any way. Without the condition both properties are wrong, as `lost_update` shows.

| Theorem | Statement |
|---|---|
| `SessionStoreProofs!TypeCorrect` | `[]TypeOK` |
| `SessionStoreProofs!ListsAreOwn` | `[]ListsHoldOwnSessions` |
| `SessionStoreProofs!NoResurrection` | `LoggedOutStaysOut` |
| `SessionStoreProofs!TicketsBacked` | `[]TicketsAreBacked` |
| `SessionStoreProofs!ClosedByOwnRequest` | `OnlyOwnRequestsClose` |
| `HealthyStoreProofs!BusAgrees` | `[]BusAgreesWithStore` |
| `HealthyStoreProofs!IndexAgrees` | `[]ActiveSessionsAgree` |
| `HealthyStoreProofs!LogoutsAreEffective` | `[]LogoutsTakeEffect` |
| `HealthyStoreProofs!KeepsWord` | `[]HealthyStoreKeepsWord` |
| `SerialStoreProofs!ClearsKill` | `[]ClearKillsOpenSessions`, under `[]Serial` |
| `SerialStoreProofs!Refines` | `ImplementsRegistry`, under `[]Serial` |
| `InvalidSessionsProofs!LibraryTypeCorrect` | `[]TypeOK` |
| `InvalidSessionsProofs!NoTokenSurvivesLogout` | `[]TokensDieWithLogout` |
| `InvalidSessionsProofs!CookiesRefused` | `[]CookiesRefusedForPruneTime` |
| `InvalidSessionsProofs!StaleListsAreHalved` | `StaleListsShrink` |
| `AuthorizationTokenProofs!TokenTypeCorrect` | `[]TypeOK` |
| `AuthorizationTokenProofs!UsedTokensStayUsed` | `[]NotAcceptedLater` |
| `UserAccountsProofs!AccountsTypeCorrect` | `[]TypeOK` |
| `UserAccountsProofs!PoolStaysClean` | `[]PooledClientsAreClean` |
| `UserAccountsProofs!NoForeignPasswords` | `[]PasswordsAreGiven` |
| `UserAccountsProofs!HashesJudgedAlike` | `[]ProgramsAgree` |
| `UserAccountsProofs!MigrationOpens` | `MigratedPasswordsOpen` |
| `TicketCheckProofs!TypeCorrect` | `[]TypeOK` |
| `TicketCheckProofs!SignedIn` | `[]SignedInClientsPass` |
| `TicketCheckProofs!Vouched` | `[]PassesAreVouched` |
| `TicketCheckProofs!OnlySound` | `[]OnlySoundJwtsPass` |
| `TicketCheckProofs!Cleared` | `[]CookiesClearedForCause` |
| `TicketCheckProofs!Agreement` | `[]ProgramsAgree` |
| `SamlLoginProofs!TypeCorrect` | `[]TypeOK` |
| `SamlLoginProofs!Inactive` | `[]InactiveStayOut` |
| `SamlLoginProofs!Tickets` | `[]SessionsHaveTickets` |
| `SamlLoginProofs!Logouts` | `[]LogoutsClose` |

Each module of proofs has one inductive invariant (`InvalidSessionsProofs` a second one for
the lists); the properties follow from it.

* `SessionStore`: a list may name only sessions of its key, or, under "null", deleted ones
  (`Belongs`). This is inductive only together with what requests carry: the list a request
  has read is as good as the stored one, a request whose session is gone uses the key "null",
  commands in flight belong to the session and user of their request (`CommandInv`,
  `PhaseInv`), an id that was not picked has left no trace (`FreshInv`), and two logins never
  hold the same id (`DistinctIds`). A deleted session does not come back because there is one
  HSET for it, which is sent before any HDEL, on the same connection.
* `InvalidSessions`: a process that will read on after some id (`lastId`, or the id of its
  XREAD under way) has every logout of the last `PruneTime` in its list or still ahead of
  that id (`ProcessInv`, with `Covers`); while it verifies a token, this holds for the
  session of that token without a limit of time (`CoversSession`). The step from the first to
  the second needs that no token is younger than the first logout entry of its session by
  more than twice `RequestTime`, which follows from the age of jobs (`TimeInv`, `JobInv`),
  that the first entry is the one that counts (`FirstInv`), and that pruning drops only what
  is older than the median, which has expired.
* `InvalidSessions`, sizes of lists: that a median exists is a fact about finite sets that
  takes induction. Here it is an invariant instead (`RankInv`): of whatever entries of the
  stream one picks, one has exactly `k` older ones, for every `k` below their number. An XADD
  appends the newest entry, which keeps this (`RankAfterXAdd`).
* `AuthorizationToken`: a key of the library lives at least as long as its token
  (`KeyInv`), a header that was accepted has its mark or its token is dead (`MarkInv`), and this
  is not lost between the steps of a verification (`VerificationInv`).
* `UserAccounts`: a client that is lent belongs to a request at an await of a database call,
  a request has one client at most (`ClientInv`) and waits once (`QueueInv`); a lock is held
  on the user of the request and keeps the row in existence (`LockInv`); what a request has
  read and found right is a password of the user (`Founded`), and not the empty one, which is
  what makes a migrated password open the account.
* `SessionStore` while nothing fails: HDEL and XADD of a removal are sent together, so the
  store and the stream differ exactly by what is in flight (`PairInv`); an index that lags
  behind has its command on the way (`IndexInv`); a logout has its two commands in flight or
  has taken effect (`LogoutInv`). `ActiveSessionsAgree` needs in addition the invariant with
  faults: no HSET is left behind an HDEL of its session. `KeepsWord` carries this invariant
  as long as the count of faults is 0 (`CountedInv`).
* `SessionStore` while in addition the requests of a user wait for each other (`SInv`): a user
  for whom nothing is under way has every open session in the list; one who has a request at
  work misses at most the session which that request opens or closes (`Unlisted`, `ListsInv`),
  and the list that is about to be stored is no worse. So a clear sends an HDEL for every open
  session but its own (`ClearInv`), as what was open when it came was the caller's user's
  (`CallerInv`). The commands of one request go out over two connections in any order; the
  proof that other accounts are not disturbed uses only that their requests write other keys.
* The refinement: a session is closed for the registry when its HDEL is *sent*, open when its
  HSET is executed, announced when its XADD is. Each action is one step of the registry
  (`HSetOpens`, `LogoutCloses`, `ClearCloses`, `XAddAnnounces`) or a stutter. A session whose
  HSET is executed has no HDEL before it (`SessionStore`'s invariant), a session that is
  announced has ended (`PairInv`), and what a clear closes at once is *all* that the user has
  open, which is where `ListsInv` is needed.
* `TicketCheck`: what was found out before each await (`Found`: the jwts were usable and not
  expired *when the request was sent*, the session was open then), and that a session leaves
  the hash and is announced, or neither (`RemovalsComplete`), from which the two programs
  agree once no command is under way.
* `SamlLogin`: what each route knows at each step (`AcsFound`, `IdpFound`, `LogoutFound`), and
  which sessions a request knows to be gone (`Gone`): those of its list whose HDEL is answered.
  They are `Closed`: their id is drawn, they are not open, and no HSET of them is on its way,
  which needs that ids are known nowhere before they are drawn (`OnlyUsed`) and that a session
  has one HSET, which Redis executes before any HDEL. Lists that race, lose entries or are
  dropped do not disturb this, since a logout that was answered speaks of the list it had read.

Every invariant, action property and refinement that a passing run checks is stated by one of
these theorems. Only model-checked are the liveness properties, `RequestsFinish` (of
`SessionStore` and of `UserAccounts`) and `RequestsAnswered`: liveness under fairness is beyond
the installed provers. The violations are model-checked, too, by their nature.

## 6. Plan

Done: every component that keeps state or decides something has its module, its runs and its
inductive invariant; every safety property of a passing run has its theorem; the session store
implements the atomic registry under the condition above. Still to do, all of it proofs:

1. What a clear of `SessionStore` achieves when requests of one user do overlap: it closes every
   session that was in the list it has read, as `SamlLoginProofs!Logouts` says of `idplogout`.
2. That the sessions of `SamlLogin` are those of `SessionStore` without indexes and stream: both
   translate `session-service.ts`, and nothing but reading compares them.

## 7. Not modelled

* The value and encoding of JWTs, cookies and hashes; signatures are taken to be sound, and
  a password that verifies is the one that was hashed.
* `hashing-handler.ts:18` documents that `isEquals` answers `false` for a foreign hash. For
  one that only looks like a hash it throws (`IsEquals` answers "throws"), which ends a login
  in an error, as a wrong password does. `README.md:244` and `:249` name SHA512 as the
  algorithm of the library's `hash`; it is argon2 in both programs.
* HTTP paths, quoting and status codes of the library's client, other than success, failure
  and no answer.
* CREATE events of `DatabaseAdapter.write` and `getUserByUsername`: nothing in the service
  calls them. The code of `is_active` pages, and their wording.
* What samlify accepts: a response or request of the provider is good or bad at will.
* The identity provider and the backend, other than as writers of `user_t` and callers.
* Replication and persistence of Redis and PostgreSQL: what they have answered, they keep.
* A ROLLBACK that fails on a connection that goes on to work: the client would go back into the
  pool in a transaction.
* Pools but the one of the public controller: requests of different controllers do not wait for
  each other's clients, only for row locks, which PostgreSQL grants in turn.
* Strings other than the writings of "bearer" that decode to the same authorization token: the
  mark would be another one, too.
* The metric of the session service, which only logs. The model shows what it counts: a user
  who has logged out of the last session stays in `auth:user:index` with an empty list, and
  is counted, although `session-handler.ts:9` speaks of "current signed in users".
* Threads that share one SessionHandler of the library: it starts none, and whether its users
  share a handler is not decided in this repository.
* Secrets, configuration, logging, tracing and error formatting: no state and no decisions
  that the properties depend on.
* Test doubles (`auth/test/fake-*`) and development scripts.
