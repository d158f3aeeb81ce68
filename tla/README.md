# TLA+ models of edge-oauth-sessions

edge-oauth-sessions is a token handler for the network edge. A browser holds only
a session id in a cookie; the agent in front of the origin keeps the session's
OAuth tokens, refreshes them, and attaches the access token to every request it
proxies. This directory models the parts of `src/src` in which order, overlap and
failure matter, checks them with TLC on small instances, and proves the main
results with TLAPS for instances of every size.

Paths below are relative to `src/src` of the repository, except `src/README.md`.

## 1. The system

| Component | State it keeps | Operations | What makes it correct |
|---|---|---|---|
| Session manager (`infrastructure/common/auth-session-manager.ts`) | none of its own; local variables of a call across its awaits | `authenticate`, `logout` | refreshes of a session are serial, nothing stale overwrites the record, the accepted refresh token is the stored one, sessions do not mix, a session that is gone stays gone |
| Durable session object (`infrastructure/cloudflare/sessions`, `infrastructure/persistence/durable-objects`) | one session's record in the object's storage | the manager's, delivered to the object through its input gate | what is read is still so when it is acted on |
| Session repositories (`infrastructure/persistence/{durable-objects,neon,bun,workers-kv}`) | session id -> tokens | `findById`, `upsert`, `delete`, `prepare` | an atomic register per session id |
| Request pipeline (`application/hono/middleware`) | per request: context, response, added headers | cookies, geolocation, bot scoring, authentication, proxy | the origin gets the token of the request's own session or none; the client gets the answer of the last element |
| Route handlers and proxies (`application/hono/handlers`) | none | login, callback, logout, proxy | every request is answered; a logout ends the session of the browser |
| Agents (`application/entrypoints/{workers,bun}-hono-agent`) | the memoized promise of a router | build the router, serve | a request is served by a prepared router of its own environment, built once |
| Memoization (`domain/functional/memoize.ts`), resource preparation (`domain/common/resources.ts`) | previous arguments and value | `memoize`, `AssuredResources.prepare` | as above |
| OpenID Connect clients (`infrastructure/{open-id-connect,auth0,workos,ory}`) | none | `getAuthorizationUrl`, `exchangeCode`, `refresh` | a refresh resolves with what the provider granted, and with the old refresh token when the answer brings none; no token response that arrives is dropped |
| Cookie secrets (`infrastructure/persistence/*/cookie-secret-repository.ts`) | state -> secret, with an expiry | `upsert`, `findById`, `delete`, `expire`, `prepare` | a state leads to the secret of its own login or to none; a secret is kept until it expires |
| Legacy session migration, gates (`application/hono/{middleware,gates}`, `application/http/response-cookies.ts`) | none; registered by no agent | elements of the pipeline | a browser goes on with the session of its legacy id; nobody passes the captcha unchallenged |
| HTTP client (`infrastructure/http`) | its configured response format | `post` | the provider's answer reaches the client that asked |
| Configuration, provider selection, UUIDs, JWKS | none | parsing and mapping | pure |

How they interact. An entrypoint's `fetch` awaits the memoized `getRouter(env)`
and passes the request to the router. The router runs a chain of middlewares, each
of which calls the rest of the chain with `next()`. For a proxied request the
AuthSession middleware calls `authenticate` of the session manager, in the
Workers agent a Durable Object per session id, in the Bun agent one object for all
sessions; the manager calls the repository and, when the access token is old, the
provider. The logout handler calls `logout` of the same manager. The login handler
sends the browser to the provider with a state and starts to store the secret of
a signed state cookie; the provider sends it back to the callback handler, which
tries to exchange a code. External: the
provider, the databases, Hono's `compose`, the origin, and Cloudflare's runtime.

Hard behaviours: every `await` lets another call of the same session run; refresh
tokens are single-use with most providers, so two overlapping refreshes compete;
between the provider's answer and the upsert the only valid token exists nowhere
but in a local variable; a logout overlaps a refresh; promises that nobody awaits
(`delete`, the KV writes, `next()` of bot scoring, the secret and the signature of
a login); a build of the router that
several first requests share and that may fail. `PROJECT.json` lists each hazard
with its line and the properties aimed at it.

## 2. Modules

| Module | Content |
|---|---|
| `AuthSessionManager` | `authenticate` and `logout` at their awaits, the provider, the store, the clock, faults |
| `SerialRefresh` | abstract: the right to refresh a session as a baton |
| `TokenRefresh` | `refresh` of the four clients between the manager and the provider: what is sent, what is made of the response |
| `RefreshContract` | abstract: what the manager takes a refresh to be |
| `RequestPipeline` | the chain of elements as Hono composes it, on every router the entrypoints build and on one with the gates and the migration |
| `SessionRepositories` | the calls of the four repositories |
| `SessionRegister` | abstract: an atomic register per session id |
| `CookieSecrets` | the calls of the five repositories of cookie secrets, with a clock |
| `SignIn` | the login and callback handlers, the clients' requests for codes and tokens, the state cookie and its secret |
| `RouterBootstrap` | the memoized build of a router and the preparation of its resources |
| `MC...` | instances for TLC |
| `...Proofs`, `AuthSessionManagerRefines` | theorems and proofs |

They compose by assumption and promise. `RequestPipeline` uses `authenticate` by
its outcomes (a session, nothing, an error), which are the ends of a call in
`AuthSessionManager`. `AuthSessionManager` uses a repository as an atomic
register; `SessionRepositories` shows which repositories are one
(`IsARegister`). It uses `refresh` of a client as a call that resolves with what the
provider granted or throws; `TokenRefresh` shows that of each client
(`IsARefresh`). `SignIn` uses a repository of cookie secrets by its
upsert; `CookieSecrets` has all of its operations. `RouterBootstrap` yields the router that `RequestPipeline` runs.

### AuthSessionManager

| TLA+ | Code |
|---|---|
| `store` | the session repository |
| `current`, `revoked` | the provider: generation of the refresh token it accepts, grants it ended |
| `pc`, `sid`, `held` | a call of `authenticate`: where it stands, its argument, its local credentials |
| `deleting` | deletes issued by `logout` and not yet carried out (`delete` is not awaited) |
| `loggedOut` | sessions whose logout was answered with 204; read by no action |
| `FindById` | line 15, up to and including the await |
| `ReturnNothing`, `HydrateThrows`, `ReturnStored`, `StartRefresh` | lines 17-26: the four ways on from the read |
| `ProviderAccepts`, `ProviderRejects` | line 26: the await of the provider |
| `Upsert` | lines 28-30 |
| `Logout`, `DeleteRuns`, `DeleteFails` | line 37 |
| `Crash`, `RefreshFails`, `NotStored`, `Revoke`, `Tick` | the environment: an evicted isolate, a request that never arrives, an answer that is lost or malformed or an upsert that throws, the provider's own decisions, time |

Credentials are abstracted to the grant they belong to, the generation of the
refresh token, and the `exp` claim, with `NoExp` for a payload without a numeric
`exp` (the code takes it for 0) and `Undecodable` for a token that is not a JWT.
`Durable` is the set of sessions kept in Durable Objects, the others being in a
database: while a call of an object awaits storage no other event is delivered to
it, whereas an awaited `fetch` to the provider holds back nothing. So a Durable Object
does not make a refresh atomic: while `auth-session-manager.ts:26` awaits the
provider, a second call of the same object starts another refresh with the same
token, although `src/README.md:46` says that refreshes are performed atomically there.
`Rotating` is the set of sessions whose provider replaces a refresh token when it is
used, the other sessions' being reusable; `ReuseDetection` says whether the provider
ends a grant when an old token comes back. Slots in `Request` are free again after a response, so the number of
calls is unbounded while the number of overlapping ones is not.

The first record of a session is in the store at the start: no code under `src`
writes one (the callback handler drops the tokens).

A session outside `Durable` may be in any other repository that is a register.
As the agents are wired at this commit only Durable Object storage works: the Bun
agent's sqlite repository cannot find a record (section 3, `sqlite_find`), and
`NeonConfig` tests the database URI against the pattern meant for the table name,
so it cannot be constructed.

### RequestPipeline

`agent` is the configuration of a router, chosen at the start and never changed:
the two features of Cloudflare, the cookie key and whether the proxy handler
catches the errors of its fetch. `frame[r][i]` says how far the call of element i
of request r's chain has come; `res` is `context.res`. `CallNext`, `Return`,
`Throw`, `AfterNext` and `Answer` are `compose` of Hono 4.5.0: `next()` runs the
rest of the chain up to its first await before the caller goes on, the first value
returned becomes the response, a throw makes it a 500. A request on which an
element waits for a store, a provider or the origin is in phase "io". `Abandon` is
a Worker that is stopped after it has answered, with work left. JavaScript runs one
request at a time up to its next await, which is the guard `Idle` of `Next`. Headers
of the raw request are taken to be mutable, as the middlewares take them; headers
of a response may not be, when it comes from `fetch` (`MigrationThrows`).

`chain[r]` is the list of elements that matched the request: `Middlewares`, in the
order of registration, then for a proxied request the session's middleware and the
proxy, for another route its handler. No entrypoint registers the gates and the
migration of legacy sessions; `extras` says which of them a router has, in front of
Cloudflare's middlewares. The captcha gate challenges who has no clearance; the CSRF
gate lets everything pass, since its validation is a stub. The migration looks at
the session cookie before the rest of the chain, and after it at the legacy cookie
that the origin's response sets, of which `ResponseCookies` cuts off what follows a
second `=`, and at the one the request had. `cookies[r]` is what the response sets.

Which of `request.cf` is known is `req[r].cf`; it is drawn only among the data that
a middleware of the router reads.

### SessionRepositories

`backend` is the repository the agent was built with. A call is issued, executed by
the database, and answered; KV awaits nothing, so its finds answer nothing at once
and its writes go to `loose`, from where they run in any order or are lost.
`table` has the state each record was written from. What the code does to it on
the way back is `Decode`: the Neon repository reads an absent id token as null,
which its schema rejects. `Prepares` is the sqlite repository's select and delete,
which name a column that its table does not have.

### TokenRefresh

A call holds the refresh token it was made with (`held`), gets a response, and ends:
it resolves, and the caller stores what it resolves with, or it throws. `Sent` is the
token as it arrives at the provider: the generic client and Ory's pass a
`URLSearchParams` to the HTTP client, whose `JSON.stringify` leaves `{}` of it, so none
does. `Resolves` is the validation: the generic client demands a 2xx status, text
that is parsed (`IsParsed`: by the configured format, or by the content type if that
is "infer"; the `responseType` of the request is read by nobody) and an id token; the
SDKs of Auth0 and WorkOS (external) demand a token response. `NewRefreshToken` is the
`??` of each client. `OtherResponses` is whatever comes instead of a token response.

### CookieSecrets

A call is issued, executed by the store, and answered; KV awaits nothing, so that its
writes go to `loose` and run in any order or are lost. `clock` counts in what the
code takes for milliseconds. `KeyIsDue` is the removal by the store itself in Upstash
and Workers KV, which are given milliseconds and count in seconds: a key goes when
`Second` times its expiration has passed. `Decode` is what a find makes of the row:
only Upstash's has the secret in it. The columns of the sqlite table are not the
properties that `deserialize` reads, and D1 answers with the row as it is; KV
validates a promise in place of its value and answers nothing. `BindsDates` says which databases accept a
`Date` as a parameter. No code calls any operation but `upsert`.

### SignIn

`client` and `store` are what the agent was built with. Option objects keep the
spelling of their names, since callers write `clientId` and `redirectUri` to one
method and `client_id` and `redirect_uri` to another, and each client reads its
own: `GenericAuthorization`, `Auth0Authorization` and `WorkOSAuthorization` are
`getAuthorizationUrl`, the operators ending in `TokenRequest` are `exchangeCode` up
to what arrives at the token endpoint. `Serialized` is what `JSON.stringify` makes of
`URLSearchParams`: nothing, so that the generic client's exchange has no parameters.

A login stands at `redirecting` while the handler is suspended in its one await, at
`redirected` when Hono has the response, at `answered` when it is sent. `writing` and
`signing` are the two calls it does not await. A signature that is ready while the
login is `redirected` puts the cookie on the response; earlier it goes to headers
that the handler's own `Response` replaces, later the response is gone. A signature
that fails is not caught by the `try` block, which has been left. D1 binds no `Date`
objects, so on Workers no secret is ever stored.

`CodeParam` is `req.param('code')`: a path parameter, which the callback's path does
not have. Every callback therefore ends in the redirect to `/error`.

### RouterBootstrap

`memo` is the memoizer of `getRouter`; its value is a promise, here the position of
a build in `builds`. A build opens its resources, which may throw, then waits for
the preparation of each. The remembered promise is returned for the same
environment whatever became of it, also when it was rejected.

## 3. What is checked

Passing runs:

| Run | Bounds | Shows |
|---|---|---|
| `remote_faults` | 1 session, 3 overlapping calls, 2 rotations before arrivals stop, clock 6-11 with 2 ticks a second, all faults, reuse detection | types; `OutstandingIsNewest`, `NothingAheadOfTheRecord`, `AtMostOneBehind`, `NoLostUpdate`, `GoneIsForever`; the refinement of `SerialRefresh` |
| `sessions_live` | 2 sessions, one in a Durable Object with a rotating provider, one in a database with a provider that does not rotate, 2 calls, the provider may end a grant | `CurrentIsStored`, `SessionIsolation`, `DecidesOnTheRecord`, `OverlapIsHarmless`, `RefusedOnlyIfOvertaken`; every call ends |
| `agents` | 2 requests, 1 session, 4 routers (Bun; Workers without and with the features of Cloudflare; one with another cookie key, both gates and the migration), all routes | `ForwardedAsItsSession`, `AnswerIsTheHandlers`, `NothingOutstanding`, `LogoutEndsOwnSession`, `MigratedToTheLegacySession`, every request is answered |
| `stores` | 2 callers, 2 ids, 2 states, 4 repositories, queries fail | `IsARegister` (all of sqlite's finds fail, and of KV nothing is shown) |
| `cookie_secrets` | 2 callers, 2 ids, 5 repositories, a lifetime of 1 (ten minutes), 2 milliseconds to a second, clock 1-4, 2 writes to KV under way | `OwnSecret`, `KeptUntilExpiry` |
| `token_refresh` | 2 overlapping calls, 4 clients, the formats "json" and "infer", every response, 2 rotations before calls stop | the refinement of `RefreshContract`; `GrantsAreKept`, about the clients of Auth0 and WorkOS |
| `sign_in` | 2 logins and a callback of one browser, 4 clients, 2 stores, writes and signatures that fail or never end | `CookieMatchesSecret`, `SameClientThroughout`, every request is answered |
| `bootstrap` | 3 requests, 2 environments, 2 resources, preparations fail | `ServedWhenPrepared`, `OwnEnvironment`, `BuildsAreShared`, every request ends |

Why the bounds are enough. The properties relate the record, the provider and one
or two calls; the third call adds a bystander that has read something older than
both. Two rotations give three generations, so "one behind" and "two behind" can be
told apart, and after them no request arrives, but every call under way goes on.
In `remote_faults` a token is due once the clock is more than one second (2 ticks) past
its expiration: at clock 7 for one that expires at second 2, at clock 11 for one that
expires at second 4, be it there from the start or issued at clock 6 or 7. So tokens
that are due, that become due while calls overlap and that were issued by an earlier
refresh all occur. Sessions do not interact except through a wrong id, for which two
suffice. In `sessions_live` the tokens at the start (second 1) are due and an issued one
(`Lifetime = 0`) is due two ticks after it was issued, so that of the calls that follow a
refresh some use the token and some refresh again before the clock stops at 5. In `cookie_secrets` the units differ by a factor of two, the least
that tells them apart, and the clock passes both expirations of a secret written at
the start. In `token_refresh` two calls compete for one token, and two rotations let
a stale one be refused. In `agents` one session is enough to tell its token from
none, and requests meet only in `ended`; the second shows that nothing else is shared. In `bootstrap` two environments can alternate over three requests. The
theorems of section 5 remove these bounds for the safety properties they name.

Runs that find a violation, each of one thing the repository says of itself:

- `durable_logout` (`LoggedOutIsDeleted`): a refresh in flight during a logout
  writes the session back after the 204.
- `expired_token` (`ChosenTokenIsLive`): the minute's buffer is on the wrong side of
  the comparison, so a token is refreshed a minute after its expiry and handed
  out until then.
- `cloudflare_headers` (`CloudflareHeadersAreProxied`): the bot scoring middleware
  does not await `next()`, so the request is answered before the origin has
  answered. With geolocation on and a known city the same property fails
  because that middleware does not call `next()` at all. Both features are on by
  default.
- `sqlite_find` (`StoredSessionIsFound`): the select compares `id`, the table has
  `session_id`. The same property fails with `Deployed = {"kv"}` (the result of
  `get` is not awaited) and with `{"neon"}` and a state outside `WithIdToken`.

Deadlock is checked in the runs of `AuthSessionManager` and `SessionRepositories`,
whose slots are reused. In `RequestPipeline`, `SignIn` and `RouterBootstrap` each request is
made once, so the system stops when all have ended; in `TokenRefresh` no call starts
after `MaxGrants` rotations; in `CookieSecrets` the clock stops at `MaxClock`.

The operators commented MUTANT stand beside the definition they would replace and
are used by no specification. Each is a plausible mistake in the code (a write not
awaited, a conflict clause that keeps the record, `next()` not awaited, only settled
promises remembered); `PROJECT.json` pairs it with the property that it breaks.

## 4. Fairness

- `AuthSessionManager`: weak fairness of a call's own continuations, since the event
  loop runs what has settled; of the provider's answer, since a fetch settles in the
  end (the code sets no timeout: the runtime's limit is what ends it); of the
  response. Strong fairness of `Upsert`, which an input
  gate disables again and again while other calls read: the gate delivers
  events in the order they came in. No fairness of arrivals, logouts, deletes that
  nobody awaits, time or faults. With weak fairness of `Upsert` alone `EveryCallEnds` would fail in
  `sessions_live` for a reason that the runtime rules out.
- `RequestPipeline`: weak fairness of the elements of a request's chain and of its
  answer, while no other request is between two awaits (`Idle`). A request need
  never come, and a Worker need not be stopped.
- `CookieSecrets` and `TokenRefresh` are checked for safety only: that a store removes
  the keys that are due is its own promise, and nothing here depends on it.
- `SignIn`: weak fairness of the handlers and of the exchange, none of the store and
  the signature: a login is answered without them.
- `RouterBootstrap`: weak fairness of a waiting request and of the preparations. On
  Workers the preparation's I/O belongs to the request that started it; that
  another request may wait for it is what the code relies on.

## 5. What is proved

All theorems hold for every value of the constants that the named assumptions
admit: any number of sessions, calls, requests, generations and clock ticks.

`AuthSessionManagerProofs`, about every behaviour of `Spec`, faults included:

- `TypeCorrect`, `SessionsIsolated` and `GoneStaysGone`.
- `OutstandingNewest`, `NothingAhead`, `AtMostOneLost` and `UpdatesAreNotLost`, for any
  mix of providers that rotate refresh tokens and that do not. The first and the last
  are about the sessions in `Rotating`: with a reusable token two calls may hold answers
  at once, and the later upsert replaces the earlier.
- `GateGuardsTheRead`, which is about the sessions in `Durable`.
- `RotationsAreStored` (`CurrentIsStored`), without the faults `crash` and `notStored`;
  with them it is false, which is the reason why a crash between answer and upsert
  loses a session.
- `LosersWereOvertaken` (`RefusedOnlyIfOvertaken`), without those two faults: whoever
  loses the race for a single-use token finds the newer one in the record or about to
  be stored there, unless the record was deleted or the provider has ended the grant.
- `ReusableTokensStay`: with every fault, the record of a session outside `Rotating` has
  the token that the provider accepts.
- `ReuseIsHarmless` (`OverlapIsHarmless`), for any mix of providers and without the faults
  `refreshFails` and `notStored`, after which a call may fail for a reason that has
  nothing to do with an overlap.

The argument (`InductiveInvariant`). `OutstandingIsNewest` is not inductive: nothing in
it says that a call about to refresh holds a token no newer than the provider's, or
that two calls cannot both be accepted. The inductive invariant adds that everything
held or stored is at most the provider's generation, that it belongs to the session it
is kept under, that what a call holds without having refreshed is at most the record's
generation, and that every copy of a token that is not rotated is the first one
(`NeverReplaced`), which is what keeps the sessions outside `Rotating` out of the way.
A call is accepted only with the provider's own generation;
that step makes every other holding strictly older, which is why the next is
refused. No lock in the code does this; single use of the token does.

`AuthSessionManagerRefines`: with the sessions in `Rotating` for those of the abstract
module, every step of the manager is a step of `SerialRefresh` or stutters
(`ManagerIsSerial`), whatever the other sessions do. The baton of a
session is "outstanding" while a call holds an answer it has not stored, "available"
if the newest generation is in the record or in the hand of a call that may use it,
and "lost" otherwise. What the abstract module keeps true is then true of the manager:
`RecordIsNewest`, a record has the newest token or is one generation behind.

`SessionRepositoriesProofs`: `TypeCorrect` for every repository; `StoreIsARegister`, assuming that Neon is used only for sessions with id tokens:
a repository that awaits its calls implements `SessionRegister`. This is what
discharges the manager's assumption about its store.

`RouterBootstrapProofs`: `TypeCorrect`, `PreparedFirst`, `RouterOfOwnEnvironment`,
`SharedBuilds`.

`RequestPipelineProofs`, for any number of requests and every router that can be
configured: `TypeCorrect`, `ForwardedCorrectly` (`ForwardedAsItsSession`),
`HandlersAnswer` (`AnswerIsTheHandlers`), `NothingRunsOn` (`NothingOutstanding`),
`SessionsMigrate` (`MigratedToTheLegacySession`), `LogoutsEndTheirOwn`
(`LogoutEndsOwnSession`). `ChainShape` says what every chain has
in common: it ends in the handler of its route, the session's middleware is right in
front of the proxy, a captcha gate is second. Every step is one of four kinds
(`RunIsOfAKind`): an element calls the rest and waits for it, calls it and does not,
waits for something else, or is over. The invariant `Nested` says of the calls of one
request that what is behind an element that has not called `next()` has not been
called, and that what is behind one that is over is over as well, unless the bot
middleware has left it behind; `Forwarding`, `Answering` and `Migrating` say what each
phase implies for the token, the response and the cookie. Requests share nothing but
`ended`, so that a step of one keeps the invariant of the others (`SameKeepsInv`); what
is true of `ended` is an invariant of its own on top of it (`LoggingOut`).

`SignInProofs`: `TypeCorrect`, `CookiesMatch` (`CookieMatchesSecret`), `OneClientId`
(`SameClientThroughout`), for any number of logins. The
invariant ties state, secret and cookie of a login to the login that drew them, from
the draw on and through the two calls that are not awaited.

`CookieSecretsProofs`: `TypeCorrect`, `SecretsStayApart` (`OwnSecret`), `KeptWhileNeeded`
(`KeptUntilExpiry`). The last needs that time does not run backwards and that an
`expire` carries no later time than the clock's.

`TokenRefreshProofs`: `TypeCorrect`; `ImplementsContract` (`IsARefresh`) for each of the four
clients; `SDKsKeepGrants` (`GrantsAreKept`) for those of Auth0 and WorkOS: a token response
that arrives as it was sent makes its call resolve with the grant. One that is spoiled on
the way makes the call throw and its grant is lost. Of the generic client and Ory's nothing
of the kind is stated: their requests carry no token, so they are granted nothing, and
were their requests understood, the demand for an id token would drop granted tokens.

Only model-checked: all liveness, because fairness and ENABLED are outside the
prover's reach. Every other property of a passing run is proved above.

## 6. Not modelled

- The text of tokens, cookies, headers and URLs; signatures (the code decodes
  access tokens and verifies none).
- The redirect URI of the WorkOS client is left out of `SameClientThroughout`: the
  client reads `redirect_uri`, its caller passes `redirectUri`, and the value read
  is undefined.
- `AuthSessionManager` takes a refresh that arrives to be understood, which is true of
  the Auth0 and WorkOS clients; that the generic client's is not, and what follows,
  is in `TokenRefresh`. The methods of the HTTP client other than `post` are called by
  nothing.
- A browser that gets several answers: `MigratedToTheLegacySession` is about each answer.
- `src/README.md:30` says that a captcha can be enforced; the gate exists and is modelled,
  and no entrypoint registers it.
- Parsing of configuration and selection of a provider: pure functions, whose failure
  is a failed build in `RouterBootstrap`.
- JWKS validation: a factory that nothing calls. `AnyMap` of the memoizer likewise.
- That the logout handler and the AuthSession middleware read the same cookie when
  `ROUTER_COOKIE_KEY` is set: they do not. The model has such a router in the run
  `agents`, but nothing in the repository promises that the two agree, and
  `LogoutEndsOwnSession` is about the default, where they do.
- A provider that rotates refresh tokens only sometimes, or that accepts an old one for
  a while after it has been replaced: `AuthSessionManager` has grants that are rotated at
  each refresh and grants that never are.
- What becomes of a write that nobody awaits (`delete` in a database, the writes of KV):
  the models have it, in any order or not at all, and no property requires anything of
  it, since no line waits for it or tries it again.
- What a callback does with a code: none arrives (`CodeParam`), and the lines say TODO.
- How long the provider takes. `OAUTH_REFRESH_MAX_RETRIES` is parsed and read by
  nothing; there is no retry to model.

## 7. Plan

Done, in the order of importance: 1. `AuthSessionManager`, `SerialRefresh`, the
proofs and the refinement; 2. `RequestPipeline`; 3. `SessionRepositories`,
`SessionRegister` and the proof that joins them to the manager; 4. `RouterBootstrap`;
5. `SignIn`; 6. `CookieSecrets`; 7. `TokenRefresh`, `RefreshContract`; 8. the gates and
the migration as elements of the pipeline; 9. the proofs about 2, 5, 6 and 7.

Next:

10. The manager over a register whose calls are cut in two (issued and executed), in
    place of the atomic one, and with the outcomes of `TokenRefresh` in place of its own.
