# FoundryRooms: a TLA+ verification project

This directory models the running core of FoundryRooms, the `identity-access`
module: accounts and passwords, sessions, agents and their API keys, the
authentication of requests, and the rate limiter; around it the service that
runs it (configuration, proxies and origins, the pool of connections, readiness)
and the permission mock that other modules test against. TLC checks small instances of
each model; TLAPS proves the central properties for instances of every size.
`PROJECT.json` lists the components, runs, theorems, hazards and findings, and maps
each definition to the lines it models.

## 1. The system and its parts

One Node process (`src/src/main.ts`, `app.module.ts`) serves HTTP with NestJS and
keeps its data in PostgreSQL through Drizzle. Node runs one callback at a time, but
every SQL statement and every bcrypt call is awaited, and other requests run in
between; a second instance of the process may share the database. Nothing is
cached and there is no lock, so all that keeps requests apart is one SQL
statement, one explicit transaction, and the constraints of the schema.

| Part | State it keeps | Operations | Depends on | What makes it correct |
|---|---|---|---|---|
| Sessions (`session.entity`, `session.repository.drizzle`, login, refresh, logout use cases) | rows of `sessions` | create, find by token, save (two statements), delete by token, delete by actor | users (login), request authentication | a row is what it was created as; rotation deletes before it creates; a spent token is good for nothing; what was deleted stays deleted, except for a request in flight |
| Accounts (`user.entity`, `user.repository.drizzle`, register, login and reset use cases) | rows of `actors`, `users`; reset tokens (port only) | register, verify and record a login, request a reset, complete a reset | sessions (a reset ends them), event emitter | one account per address; old passwords and deactivated accounts do not come back; few reset tokens are active at a time |
| Agents (`agent.entity`, `agent.repository.drizzle`, `agent.controller`, create and authenticate use cases) | rows of `actors`, `agents` | create, rotate key, deactivate, read | request authentication | a key is its agent's; the lookup by prefix finds the right agent; old keys and deactivated agents stay dead |
| Request authentication (`request-authenticator`, `auth.middleware`) | nothing, but every request carries an actor | session lookup and touch, key lookup, guard | sessions, agents | an outage is never a 401 and never an open door |
| Rate limiter (`rate-limit.middleware`) | a map in the process, a timer | count, sweep, delete, clear | the clock | one fixed window per address and path; Retry-After suffices; entries go |
| Health endpoints (`health.controller`) and the `pg` pool (`app.module`) | connections in use, queries in line | live, ready (with a timer); every repository call | the database | a probe is answered in time, and truthfully; a hanging query delays only itself, as long as a connection is left |
| HTTP edge (`http-config`, `main`, request validation) | the configuration of the running server | boot, the address and the origin a request comes from, validation of bodies | the environment, the proxies before the server | one bucket per client and path; cookies only to listed origins; what was accepted can be used |
| Permission checker mock (`permission-checker.mock`) | maps of permission arrays, which checkers share | construct, reset, grant, revoke, set, clear, mark | fixtures | a reset restores the defaults; checkers do not leak into each other |
| Actor lookup mock (`actor-lookup.mock`) | users and agents by id, an index by address | add, remove, reset, clear | fixtures | the index agrees with the map |
| Workflows (`.github/workflows`) | pull requests, checks, reviews, deployments | auto-merge, governor review, deploy | GitHub, Render, Neon | what is merged was checked; what is served has its schema |

How they interact. `AuthMiddleware` runs on every route and, through
`RequestAuthenticator`, reads a session (and may save it: the *touch*) or an agent;
`AuthGuard` repeats this on guarded routes when no actor was found. Login reads a user,
stores a session and writes the whole user back. Completing a reset writes a user,
deletes all sessions of the actor and spends the tokens. Refresh trades a session for a
new one and looks at no user. The rate limiter stands
before register, login and refresh and shares nothing with the rest.

What is hard here. Handlers are read, change, write back, with whole rows, so a
write may undo what happened since the read. `SessionRepositoryDrizzle.save` is a
SELECT and then an UPDATE or an INSERT without a transaction, and a touch saves what its
request read before, so a row deleted between that read and the SELECT is inserted again. Checks come before awaited writes (a reset token's
`usedAt`, the address at registration). Multi-statement operations may stop
halfway. The database may fail between two lookups of one request. The limiter's
entries outlive their windows until the timer or a request meets them. The pool has no
timeouts, so a query may hold its connection for ever, while the timer of a probe
gives up the answer and not the query. Boot, proxies and limiter must agree on how many hops
to trust, and no code sees all three. The mock copies maps and shares the arrays in them.

## 2. The modules

| Module | Models | Lines of thought |
|---|---|---|
| `SessionStore` | what the session repository promises: creations, touches and endings, each in one step | abstract specification |
| `Sessions` | the `sessions` table and all requests that touch it | one action per SQL statement; refines `SessionStore` |
| `SessionsLogout` | Sessions with a history of logouts | to say of logout what the controller says of it |
| `Credentials` | `users`, reset tokens, registration, login, refresh, reset | one action per awaited step; sessions abstracted to id and owner |
| `Agents` | `agents`, key creation, rotation, deactivation, authentication | one action per awaited step |
| `FixedWindow` | what the limiter keeps: one window per key | abstract specification |
| `RateLimiter` | the map, guard, timer and clock | synchronous handlers, one action each; refines `FixedWindow` |
| `Authentication` | middleware, guard and authenticator | one action per lookup; the database goes up and down |
| `Service` | the pool of connections and the readiness probe, composed with `Authentication` | extends `Authentication`: the requests' steps are those of `Authentication`, taken when the pool answers |
| `Edge` | configuration at boot, proxies and origins, bodies up to the stored row | one action per request |
| `PermissionChecker` | the mock's checkers and the arrays they share | an array has an owner, a checker refers to one |
| `*MC`, `*.cfg` | instances for TLC | |
| `SessionsProofs`, `CredentialsProofs`, `AgentsProofs`, `RateLimiterProofs`, `ServiceProofs`, `EdgeProofs`, `PermissionCheckerProofs` | theorems | extend their module and `TLAPS`; `ServiceProofs` holds those of Authentication too |

**State and code.** A table is a set of records (`table` in Sessions and Agents)
or a function from addresses to rows (`users`). `req[r]` is what request `r` holds
in memory between two awaits: `pc` names the next await, and the copy (`session`,
`agent`, `copy`) is the entity object. `issued`, `handed` and `mailed` are the
secrets that have reached a client; only these can be presented. Variables marked
*history* in the modules are read by no guard: they record what a property needs.

**Sessions.** `Authenticate` is `authenticateSession` for a visit or a logout and
starts the touch when the session is stale; `Refresh` and `Rotate` are
`RefreshSessionUseCase`, which chooses the expiry of the new session before the DELETE it awaits and
creates it after, so that its life is what is left then, and `Session.create` throws if nothing is; `SaveSelect`, `SaveUpdate` and `SaveInsert` are the
statements of `save`; `Logout` is `deleteByToken`; `RevokeActor` is `deleteByActorId`, the
part of a reset that concerns sessions; `StatementFails` and `Crash` end a request
anywhere, except that a failed touch is swallowed. An id and its token are one
value, since both are made together and never change.

**SessionsLogout** adds the variable `loggedOut` (history), which only `LogsOut` changes.

**SessionStore** is a store whose every change is one step. Under the mapping `rows` is the
table and `past` what was minted of the ids that were deleted. A write that finds its row is a
`Touch`, a deletion an `End`, an insert a `Create` or else a `Return`: the one thing the
port does not promise and `save` does, and `Return` says when: as the session was, and only if
it had gone stale. Whatever else requests, failures and crashes do leaves the store alone.

**Credentials.** A user stands for an address. A registration holds its new user
in memory between the lookup and the insert; the unique index of
`users.email` decides (`EmailFree`). `RefreshLookup`, `RefreshDelete` and `RefreshSave` are a refresh as far as it concerns
accounts: it stores a session for the owner of the old one, whatever has become of the account. `SaveUser` is the transaction of
`UserRepositoryDrizzle.save`, and writes *every* column from the copy.
`CompletePasswordResetUseCase` is six actions: token, user, save, sessions, mark,
clean up. The repository of reset tokens is a port without an
implementation, and no controller is bound to the reset use cases yet: the model
takes one atomic statement per call of the port.

**Agents.** `StoredPrefix` is the constant that `save` puts in the column with a
unique index; `FindByApiKeyPrefix` filters by it, as the SQL does. `Update` writes key and
flag from the copy. `GET /agents/:id` changes nothing; what it answers is in Edge.

**RateLimiter.** `Counted` is `increment`; `Request` is `canActivate`; `Sweep` is the
timer; `Clear` is also a restart. `Second` is the number of clock units in a second,
so that the rounding of Retry-After shows. `OpenWindow` is the refinement mapping: an
expired entry maps to no window.

**Authentication.** `valid` is what a lookup would accept now; `Invalidate` stands for
any expiry, logout, rotation or deactivation in Sessions and Agents, and `Validate` for what
makes a credential valid: its creation, and the ways in which those models bring one back. No step of it is assumed to be taken: the driver promises no answer. `proven` and `outage`
are history: what stayed valid since the request arrived, and whether the database
was ever down since.

**Service.** A query is its caller: a request of Authentication or a probe. `Submit` and
`Release` are the pool, `queue` its line, `held` the connections in use, `lost` the queries whose answer will
never come. `Ask` submits the query of a request, `Reply` returns the connection and takes the
request's step of Authentication, with a good answer or an error; `Probe`, `TimerFires` and
`Answer` are `GET /health/ready`, whose query keeps its place after the timer fired. A probe's
place in line is recorded in `ahead` (history). Probes carry no credentials: one that does is first a
request, since `AuthMiddleware` runs on the health routes too. The probe of one balancer may come again while its
former query still hangs, so several probes are under way at once.

**Edge.** `Boot` takes any environment and ends with a running server or none. `Ip` is what
Express makes of `X-Forwarded-For` with the trusted hops, `Allowed` what the cors package answers,
both external. `Bucket` is the limiter's key, the address and the path as written; `TooMany` is its refusal. `Register`, `Login` and `CreateAgent` are whole handlers, from the Zod schema through
the entity's own checks to the row and the answer: what interleaves in them is in
Credentials and Agents. Addresses are values with a `Normal` form; names are blank, too long or fine;
two passwords may have one `Hash`, since bcrypt reads 72 bytes. `Refresh` and `GetAgent` change nothing but
the answer, in which a name may be left empty or a stored one fails its check.

**PermissionChecker.** JavaScript copies the maps and shares the arrays: `array[o][a]` is the array
that owner `o` (a checker, the defaults, the caller's configuration) has for actor `a`, and
`ref[c][a]` says whose array checker `c` has. `Change` is `push` and the removal in place, `Replace` the assignment
of a new array. `used`, `replaced` and `touched` are history.

**How the models fit together.** Each abstracts its neighbours to what it needs of
them: `Login` in Sessions starts where `LoginLookup` in Credentials has verified the
password; `RevokeActor` is Credentials' `ResetDropSessions`; `Invalidate` is the sum of Sessions'
and Agents' ways to end a credential, `Validate` of those to make or revive one. Service extends
Authentication and uses its steps as they stand; Sessions implements SessionStore and RateLimiter
FixedWindow; a bucket of Edge is a key of RateLimiter, which counts the requests and decides on `TooMany`.

## 3. The runs

Passing runs:

| Run | Instance | Shows |
|---|---|---|
| `Sessions_safety` | 2 actors, 3 ids, 2 requests, lifetimes 3 (login) and 2 (refresh), touch interval 1, clock to 2 | `RowsAsMinted`: stale whole-row writes never alter owner, expiry or ancestry. `SuccessorAfterRevocation`: no successor of a refresh is stored before its predecessor was deleted. `OnlyStaleReturn`: a deleted session comes back only if it had gone stale. `SpentStaysSpent`: from a token that was revoked and that no request has in hand nothing is derived any more. `DeadLoginStaysDead`: a login with no row and no request in flight never returns. `OneStepAtATime`: the table implements `SessionStore` |
| `Credentials_safety` | 1 address, 3 passwords, 2 tokens, 2 sessions, 2 requests, a token's life 0, clock to 1 | `OneWelcomePerAddress`: of two racing registrations one is told 201. `ActiveTokensBounded`. `RetiredStaysRetired`: only a request in flight restores an old password. `LockedOutStaysOut`: a deactivated account stays so and gains no session but by refreshing one it had |
| `Agents_safety` | 2 users, 2 agent ids, 3 secrets, 2 prefixes, 2 requests | `KeyFromOwnerOrSelf`, `LookupIsDeterministic`, `DeadKeyStaysDead`, `InactiveStaysInactive` |
| `RateLimiter_promise` | 2 keys, limit 2, window 3, second 2, clock to 6, counts to 3 | `FixedWindows`: the map implements `FixedWindow`. `RetryIsEnough`, `TwiceAtMost`, and under fairness `ExpiredAreEvicted` |
| `Service_ready` | 1 request, 3 probes, 1 session, 1 key, 1 short cookie, a pool of 2, at most 2 queries lost; the database and the credentials come and go | of authentication: `NoFalse401`, `GuardedHandlerHasActor`, `SessionGoesFirst`, `PublicNeverBlocked`, `UnavailableHasCause`; of probes: `ReadyIsTruthful`; under fairness `ProbesAnswered` (whatever hangs) and `Served` (a request waits for ever only if its own query hangs or every connection does) |
| `Edge_requests` | 2 clients, 1 proxy, 2 forged headers, 3 paths of which two spell one route, 2 origins and none, hop counts to 2, 4 spellings, 4 names, 3 passwords of which two have one hash | `OneBucketPerClient`: if `TRUST_PROXY` fits the proxies, a bucket is one client's and one path's; `CookiesOnlyForTheListed`; `AccountsUsable`: one account per address, and every accepted spelling opens it with its password or one that bcrypt takes for it |
| `PermissionChecker_sharing` | 2 checkers, 1 actor, 2 permissions, 1 scope, defaults and a configuration that differ | `ResetRestoresUntouched`, `SharedOnlyIfNeverReplaced` |

Runs that refute what the code or its comments say (see `findings`):

| Run | Claim | What happens instead |
|---|---|---|
| `Sessions_revive` | "Logout the current session." | a request reads its session, a logout deletes it, and the SELECT of the request's touch finds no row and so inserts it again |
| `Agents_refused` | "Create a new agent." | only the first creation of an installation succeeds |
| `Credentials_stale` | "Updating the user's password" | a login in flight writes the old hash back |
| `RateLimiter_sliding` | "with a sliding window" | windows are fixed: two bursts around the end of one pass the limit within less than a window |
| `Authentication_short` | "absent/invalid credentials are 401, infrastructure failures are 503" | a session cookie of less than 32 characters is answered 503 with the database up |

**Why these bounds are enough.** Every hazard in the list is a race of two requests
or of a request with a crash, the clock or the database, so two requests suffice for
all of them; one of the two may serve several operations in turn. Three ids hold a login, its
successor, and another login (or a second successor); three passwords hold the
first, the new one, and a competing registration or reset; a login's lifetime of three units and a
refresh's of two, against an interval of one and a clock to two, let sessions be fresh, stale or twice stale, let two touches of one session
differ, and let a refreshed session expire, before it is created even (`Rotate` throws). In Service a line of two behind two connections is the shortest in which order
shows: one request and three probes fill both and form it; one lost query leaves a connection, which serves
all the rest, and two leave none. Two checkers are enough for sharing, which is between two. The limiter's clock passes two whole windows, and `MaxCount` is one above
the limit: counters beyond behave as at that value. `MaxTime`, `MaxCount`
and the finite ids only stop the model; no property depends on them, and the proofs
have no bound on ids, requests or keys. Symmetry is used only in runs without liveness.
`MaxLost` bounds the queries that hang; the proofs have it at any value.
`CHECK_DEADLOCK FALSE` is set only in the Sessions and Credentials runs, where the model may
stop when the clock and the ids or passwords are used up; the other runs check for deadlock.

**Fairness.** `WF_vars(Sweep)`: `setInterval` fires as long as the process runs. It is weak, so
a sweep that would find something is not put off for ever; requests and the
clock are not assumed to move. Authentication has
no fairness: the pool has no timeout, so an awaited query may never return. In Service the process goes on (`Ask`, `Proceed`), timers
fire (`TimerFires`), and the queries that are not lost are answered (`Reply`, `Answer`); nothing is assumed of
those that are, nor that anybody sends a request. A request is then
`Served` unless its own query hangs or every connection does.

## 4. The theorems

For any constants that satisfy the modules' assumptions, whatever the number of
requests, ids, keys or actors.

**SessionsProofs.** `IInv` says of the copies that requests hold what `RowsAsMinted` says of rows
(`CopiesAsMinted`), since `save` writes them back; that an id is minted once
(`MintedOnce`); and that a minted session either is a login, its own root and parent, or descends
from a revoked one of the same actor and login (`Lineage`). Theorems: `TypeCorrect`,
`RowsKeepTheirOrigin`, `RotationRevokesFirst`, `DeadLoginIsFinal`, `OneRowAlways`, and `SpentIsFinal`: a token that was
revoked and that nobody has in hand yields nothing, however often it is replayed. A second invariant,
`AInv`, adds that an access lies between creation and expiry (`InOrder`), and that a request
about to save either holds a session nobody else can have stored or one that it
found stale (`NewOrAged`). From it `OnlyStaleSessionsReturn`, which says exactly how far logout can
be trusted: a session younger than the touch interval never comes back. And
`LivesAreKept`, from a third invariant (`LInv`) that follows the expiry a refresh has chosen across its DELETE
(`ChosenBefore`): whatever copies are written back, a login's row lives as long as the login chose, and a
refresh's what the DELETE has left of the default.

`SessionsAreAStore` is the refinement of `SessionStore`, for all interleavings, failures
and crashes. Two facts were missing for it and make `MInv` (`CopiesAreOfRows`): a request that deletes, rotates
or touches does so with a session that is in the table or was deleted since the request read it, so
that a late `UPDATE` or `INSERT` cannot store what never was stored; and a session waiting for its first
insert is as it was created. Then each action that writes is one of the store's: `InsertCreatesOrReturns`,
`UpdateTouches`, `DeleteEnds`, `RevokeEnds`; the others change neither rows nor past.

**AgentsProofs.** `IInv` adds to the types that every copy in memory, like every row, has a key made for
its agent at the request of its owner or itself (`Rightful`), and that lookup by prefix is
unambiguous. For the action properties, `RowsStep` and `CopiesStep` say where any
row or copy after a step comes from. Theorems: `TypeCorrect`, `KeysAreRightful`,
`OneAgentPerPrefix`, `DeadKeysAreFinal`, `DeactivationIsFinal`.

**CredentialsProofs.** Two facts carry everything: a row never goes away, and a copy is only
taken of an active account (`Sound`); a refresh relies on neither (`Blind`), since it never looks. `WelcomeInv` follows a registration from its lookup to its answer;
`TokenInv` that a request about to create a token has no active one of that user. Theorems: `TypeCorrect`, `OneWelcomeAlways`, `TokensAreBounded`, and the
two action properties `RetiredIsFinal` and `LockedOutIsFinal`, from what a step may do to copies and, for the
latter, from who adds a session (`SessionsStep`) and how a refresh comes by one (`RenewsStep`).

**RateLimiterProofs.** `Linked` ties the map to the history of admissions: what of the history
belongs to the present window, and how far back the rest lies. Theorems: `TypeCorrect`,
`TwiceTheLimitAtMost`, `RetryAfterIsEnough` (by `RoundedUp`: the rounding never falls short of the end of the
window), and `LimiterIsFixedWindow`, the refinement.

**ServiceProofs.** All theorems are about `ServiceSpec`. The first half follows the requests by the steps of Authentication. Requests share only the database and the
validity of credentials, so `IInv` is one statement, `Sound`, about each request by itself. Its core: what is
recorded as `proven` has been valid since the request arrived, so it only shrinks, and a
credential that becomes valid meanwhile does not enter it; a lookup that found nothing takes its credential out. A
request that goes on to its API key has therefore lost its cookie, and one that is refused has lost
both.

The second half is about the pool, which takes the steps of Authentication and adds none to them
(`StepsOfAuthentication`), so that its invariant stays. `SInv` joins that invariant with those of the pool (`PoolInv`: the number
of connections in use, at the size of the pool whenever somebody waits), of the line (`LineInv`) and of the
callers (`CallersInv`: a request in the pool is at a query and moves only by its answer). Theorems: `ServiceTypeCorrect`,
`OkIsTruthful`, `OutageIsNever401`, `GuardNeverFailsOpen`, `SessionBeforeKey`, `MiddlewareNeverBlocks`,
`EveryUnavailableHasCause`, for every size of the pool and any number of queries that hang.

**EdgeProofs.** `IInv` says where everything comes from: the configuration from an environment that boots
(`ConfFromEnv`), the headers of the last answer from that configuration (`HeadersFromConf`), a row from a
registration that was let through (`RowsFromRegistrations`), and the name in an answer from a row
(`NamesStored`). Theorems, for any number of proxies and trusted hops, any forged header, any spellings,
names and passwords: `BucketsAreTheClients`, that two requests share a bucket exactly if they share client and path (by
`IpIsTheClient`: the proxies' own entries fill the chain up to the trusted hop), `CookiesGoToTheListed`, `AccountsStayUsable`. `EdgeAssumption` has
what the code relies on of `toLowerCase` and `trim`: what they yield they leave alone, and it is
well-formed if the original was. `TrustFitsProxies` is a condition of the
first theorem since no code sees both the proxies and the setting.

**PermissionCheckerProofs.** `IInv` says whose array a checker can have: its own, the defaults' (only while not
replaced) or the configuration's (only if made from one), never another checker's (`Refs`); and what a checker has for an actor it was not
told of (`Untold`). Theorems: `TypeCorrect`, `ResetIsGoodForUntouched`, `SharingIsKnown`.

Only model-checked: `ExpiredAreEvicted`, `ProbesAnswered` and `Served`. They are liveness
properties, which are outside the prover's reach; every other property of a passing run is a theorem.

## 5. Seen, but without a run

Sessions, accounts and agents:

- Two refreshes that present one token before either has deleted it both issue a successor
  (`refresh-session.use-case.ts:71`); `SpentStaysSpent` is what remains true.
- A refresh never looks at the account (`refresh-session.use-case.ts:69-98`): a deactivated one, whose login is
  refused, keeps the sessions it has alive; `LockedOutStaysOut` is what remains true.
- If the answer of a rotation is lost, or the process dies after the update, the old key is dead and nobody was handed
  the new one (`agent.controller.ts:178`): the agent is out until its owner rotates again.
- A rotation in flight writes a deactivated agent back active (`agent.repository.drizzle.ts:180`);
  `InactiveStaysInactive` is what remains true.
- Two completions that pass the check of one token both change the password
  (`reset-password.use-case.ts:315`), although a token must be "not used".
- `TOUCH_INTERVAL_MS` is commented as "at most once" per interval
  (`request-authenticator.ts:154`), but requests that loaded one stale row each write it.
- A reset says "Invalidating all existing sessions" (`reset-password.use-case.ts:284`); a
  refresh between its delete and its save stores a session of the same login after it.
- "Invalidate any existing tokens for this user" (`reset-password.use-case.ts:132`): two
  requests that both invalidate before either creates leave two active tokens;
  `ActiveTokensBounded` is what remains true.
- `CreateAgentUseCase` accepts a prefix other than `live` (`agent.entity.ts:26` names `test`),
  but its agent is stored under `fr_live` and its key is never found. `AgentController` never asks for one.
- The comment of `GET /agents/:id` says 404 for an agent that is not the caller's; it is a 403.
- The second of two racing registrations gets a 500 instead of the 409 of
  `auth.controller.ts:124`.

The edge:

- The limiter counts by the path as written, and Express serves `/auth/login` under other spellings too (with a slash at
  its end, in other case): each has a bucket of its own.
- A display name of white space passes the validation of a registration, and then the entity
  throws: a 500, where the creation of an agent answers 400. An address of more than 255
  characters ends as a 500 too.
- `dto.ts:5` says the DTOs match the Zod contracts. `RegisterResponse` is token, actor and expiry
  in the contract and user id, email and display name in the DTO; `LogoutResponse` has a message in one and a
  success flag in the other. A refresh answers an empty display name.
- `CORS_ORIGIN` set to `","` is given but names no origin: the server boots in production with an empty
  list and serves no browser client (`http-config.ts:77`).
- "Never touches dependencies" (`health.controller.ts:71`): `AuthMiddleware` runs on the health routes
  too, so a probe of liveness that carries a session cookie waits for the database, and one of readiness waits there without
  its timer.

The mocks:

- "Reset the mock to default state" (`permission-checker.mock.ts:233`): arrays of the defaults that were granted or revoked in
  place stay changed, for all checkers of the process, and `denyInactiveActors` stays as it was
  constructed. `ResetRestoresUntouched` is what remains true.
- Once a scoped list exists, an empty one denies and does not fall through to the actor's
  permissions; revoking the last scoped permission is not the same as never having had one.
- `addUser` of the actor lookup under a known id with another address leaves the old address in the index, and removing one of two
  users with one address takes the other's entry.

## 6. What is left

- `AutoMerge`: checks, approval and merge as three calls against pushes and reviews, as soon as
  the repository states what it relies on GitHub to do.
- Abstract specifications of accounts and of agents, in the manner of `SessionStore`, and the steps
  by which Credentials and Agents implement them, whole-row writes included.
- The reset use cases once they have a controller, and the store of their tokens once it
  has an implementation: Credentials takes one atomic statement per call of the port.
- The other bounded contexts, once they hold code.

## 7. Not modelled

The workflows of `.github` act on GitHub, Render and Neon; which events carry a pull request, what
a push does to an approval and when Render deploys is decided there, so a model would be one of
our assumptions. Their hazards are listed.
bcrypt itself is not modelled: Credentials takes a hash for its password, one to one, and Edge knows only
which passwords hash alike. Key generation is taken to be collision-free.
The DTOs that copy single fields, the other Zod contracts, fixtures and events carry data without
behaviour. The architecture rules (`.dependency-cruiser.js`, ESLint) are about imports. Migrations run
once; their constraints are in the models. The event emitter bound by the application does
nothing. The actor lookup mock is two maps and an index that one test at a time calls; what goes wrong in it is in section 5. The setters of Actor, User and Agent that nothing calls have no action.
`commerce`, `community-structure`, `events`, `automation`, `admin-reporting` and
`worker` are empty packages. The shell and preflight scripts are linear. PostgreSQL is
taken to execute single statements and the explicit transactions atomically, in the
order they commit: the transactions write rows of one actor by primary key, so
READ COMMITTED gives no further outcomes. An idle connection that the database drops makes the pool emit
an error nobody listens for, which ends the process; what that loses is in RateLimiter
(`Clear`) and Sessions (`Crash`).
