# TLA+ specifications of the FastAPI base template

This directory holds TLA+ modules for the parts of the service whose behaviour
depends on order, concurrency, failure or time, the TLC configurations that
check them on small instances, and theorems about them proved with TLAPS.
Source paths below are relative to `src/__PROJECT_SLUG__/`, documentation
paths to the repository.

## 1. The system

One process is an asyncio event loop running a FastAPI application behind a
stack of ASGI middlewares; `scripts/run-production.sh` starts several of them
(`web_concurrency`), and a deployment several containers. Processes share the
database and, if configured, Redis; nothing else. A request is one task; it
can be interrupted only at an `await`, and cancelled there by the request
timeout.

| Component | Code | State it keeps | Operations |
|---|---|---|---|
| Refresh tokens | `api/v1/features/auth/{router,service,repository,models}.py` | tables `users`, `refresh_tokens` | `POST /auth/token`, `/auth/refresh`, `/auth/revoke` |
| In-memory rate limiter | `core/middleware/rate_limit.py:43` | `_events`, `_last_seen`, a lock | `check` |
| Redis rate limiter | `rate_limit.py:103` | one counter per caller and window in Redis | `check` (INCR, EXPIRE) |
| Rate limit middleware | `rate_limit.py:207` | none | fail open or closed, 429, 503 |
| Request timeout | `core/middleware/timeout.py` | one timer per request | cancel, 504 |
| Body limit | `core/middleware/body_size.py` | bytes received per request | refuse, 413 |
| Request id, tenant | `core/middleware/{request_id,tenant}.py` | context variables of the task | bind, clear, add the header |
| Security headers, metrics | `core/middleware/security_headers.py`, `core/metrics/http.py` | last status seen; the counters of the process | add headers, count |
| Error handlers | `core/errors.py` | none | the envelope for each kind of error |
| Database sessions | `core/db/session.py` | engine, session factory | `configure`, `dispose`, `get_db_session` |
| Lifespan | `main.py:63`, `service.py:138` | `startup_complete` | create schema, ping, seed admin, shut down |
| Readiness | `core/readiness.py`, `health/router.py` | dict of checks | `/ready` |
| Items | `api/v1/features/items/` | table `items` | create |
| Access tokens | `core/security/auth.py` | none (signed tokens) | issue, decode with several secrets |
| Migrations | `alembic/env.py`, `alembic/versions/` of the repository | the schema, `alembic_version` | upgrade, downgrade |
| Settings | `core/config.py` | constants | validated once |

How they interact: a request passes, from the outside in, request id, tenant,
metrics, security headers, body limit, timeout, rate limit, then FastAPI
(routing, dependencies, endpoint). Around all of them Starlette's
`ServerErrorMiddleware` answers what nobody caught. Endpoints reach the
database through a session that `get_db_session` opens and closes.

What is hard in it: two calls with the same refresh token; a logout during a
rotation; the timeout or a crash around a commit; a row lock waited for with a
stale clock; the limiter's lazy housekeeping; two Redis commands that are not
atomic, read from clocks that disagree; answers sent from different depths of
the stack, the second answer after a late timeout, and a session whose close
hangs or raises; a COMMIT executed for a
request that was answered 504; a pool asked twice by every request; tokens
signed and checked by workers with other clocks and other secrets; probes that
hang while the process is to stop; migrations next to applications that create
the schema themselves. PROJECT.json lists each
under "hazards" with its line and the properties that would catch it.

What makes each component correct:

- refresh tokens: single use, final logout, atomic rotation, no token handed
  out that is not committed, no endless wait for a lock;
- limiters: the bound per window, bounded memory, a truthful `Retry-After`, no
  refusal without cause, counters that expire;
- pipeline: every answer traceable and with its headers, metrics equal to what
  was sent, oversized bodies never handled, the session left on every way out,
  no request that hangs where a timeout bounds it;
- lifespan: who serves is prepared, seeding is idempotent and overwrites
  nothing, a lost race is repaired by a restart;
- readiness: every word of an answer was true during the probe, or the pool
  was exhausted; the process stops, with its pool closed;
- items: 201 shows what is stored, to the cent and for the right tenant; 4xx
  stores nothing, ever; only 5xx leaves doubt; the pool starves nobody;
- access tokens: nobody uses a scope longer than a bound after it was taken
  away; a token is accepted everywhere for its life, also during a rotation of
  the secret;
- migrations: the tables of the recorded revision are there; a migration
  fails only for a cause one can name, and never half-way.

## 2. Modules

| Module | Models | Runs |
|---|---|---|
| `RefreshChain` | abstract: chains of refresh tokens with atomic rotation | as a property of `refresh_tokens` |
| `RefreshTokens` | the three endpoints, one step per await, over PostgreSQL | `refresh_tokens` |
| `RefreshTokensProofs` | theorems about `RefreshTokens` | (TLAPS) |
| `AdmissionPolicy` | abstract: exact sliding window with a bounded memory | as a property of `sliding_window` |
| `SlidingWindow` | the in-memory limiter | `sliding_window` |
| `SlidingWindowProofs` | theorems about `SlidingWindow` | (TLAPS) |
| `RedisFixedWindow` | the Redis limiter on several instances, and fail-open | `redis_fixed_window` |
| `RedisFixedWindowProofs` | theorems about `RedisFixedWindow` | (TLAPS) |
| `Startup` | the lifespan of several workers on one database, up to serving | `startup` |
| `StartupProofs` | theorems about `Startup` and `Migrations` | (TLAPS) |
| `Readiness` | `/ready` and the second half of the lifespan, of one worker | `readiness` |
| `ReadinessProofs` | theorems about `Readiness` | (TLAPS) |
| `RequestPipeline` | one request through the whole stack | `request_pipeline`, `doc_request_id`, `doc_oversize` |
| `RequestPipelineProofs` | theorems about `RequestPipeline` | (TLAPS) |
| `ItemLedger` | abstract: what `POST /items` promises a client | as a property of `items` |
| `Items` | `POST /items` of several tenants, with pool and server | `items` |
| `ItemsProofs` | theorems about `Items` | (TLAPS) |
| `AccessTokens` | issuing and checking access tokens on several workers | `access_tokens` |
| `AccessTokensProofs` | theorems about `AccessTokens` | (TLAPS) |
| `Migrations` | `alembic` and `create_all` on one PostgreSQL database | `migrations`, `doc_migrate` |

The `MC*` modules give the constants values for TLC. Definitions marked
"Mutant" are plausible mistakes; PROJECT.json says which property each of them
breaks.

### RefreshTokens

`refresh_tokens` holds the committed rows. The transaction of a request is
not a copy of the table: it is the row it locked (`row_lock`) and the token it
generated (`fresh`, `expires`, `user`), and `Commit` applies both
(`Written`). A rollback, by an error, by cancellation or because the worker
died, therefore only releases the lock (`Fail`).

| Action | Code |
|---|---|
| `SubmitPassword`, `SubmitRefresh`, `SubmitRevoke` | `router.py`, up to the first await; `SubmitRefresh` reads the clock as `consume_refresh_token` does |
| `AuthenticateDatabaseUser` | `service.authenticate_database_user`, and the scope check after it |
| `ConsumeRefreshToken` | the UPDATE of `repository.consume_refresh_token` |
| `GetUserById` | `service.rotate_refresh_token:217` |
| `IssueRefreshToken` | `service.issue_refresh_token` and the flush in `create_refresh_token` |
| `RevokeRefreshToken` | the UPDATE of `repository.revoke_refresh_token` |
| `Commit`, `Reply` | `session.commit()`; the answer |
| `Fail` | an error, the request timeout or a crash at any await |
| `Tick`, `Deactivate` | the clock; an operator (no code deactivates users) |

An UPDATE whose row is locked by another open transaction is not enabled: it
waits, and evaluates its WHERE clause on the row that was committed, as
PostgreSQL does at READ COMMITTED. `dead_on_arrival` is a history variable: it
records, for a property, whether the token was usable when it was presented.
Rows are never deleted because the code never deletes one. Clients present
only tokens they were given, or a string that matches no row.

The abstract specification, `RefreshChain`, knows three operations: `Grant`,
`Rotate` and `Retire`, each one step. The refinement mapping reads its state
off the committed rows, so every step inside a transaction is a stutter.

### SlidingWindow

`check` is one step: it has no await inside its lock. Time is counted in
ticks, several to a second, so that the `int()` of `retry_after` can be wrong.
`_prune_stale_keys`, `_evict_oldest_key` and the popping of the queue are
`Unpruned`, `OldestKey` and `PopLeft`; of several keys last seen at the same
tick any may go (the code takes the first of the dict). `granted` is a history
variable. `AdmissionPolicy` forgets each admission exactly on time; the
refinement mapping cuts the queues at `now - Window` (`Later`, which counts
the expired entries of an ascending queue where the code pops them one by
one).

### RedisFixedWindow

One caller (one Redis key prefix), several instances. `StartCheck` reads the
clock of the instance, `IncrementWindow` and `ExpireWindow` are the two
commands. `BackendFails` is an exception, with the command carried out or not;
`CutOff` is the request timeout or a crash. The timeout is not an `Exception`
in the sense of the middleware's `except`, so it never fails open. Clocks count
ticks, several to a second (`TicksPerSecond`), as `time.time()` has fractions;
the settings are whole seconds, and `Seconds` is the `int()` by which
`_retry_after_seconds` loses the fraction.

`TimingAssumption` says that a check ends before its counter can expire:
request timeout plus clock differences at most one window. `Settings` does
not enforce it; the defaults (30 s, 60 s) satisfy it. It is tight: with a
timeout as long as the window and clocks half a second apart, `BucketLimit`
fails.

### Startup

Each worker runs the stages of `main.py`'s lifespan that the settings enable:
`Inspect`, `CreateTables` and `CommitTables` are `create_schema` (all tables
are created in one transaction, so one stands for them), `Ping`, then
`InsertAdmin`, `CommitAdmin`, `RefreshAdmin` or `LookupAdmin` of
`ensure_admin_user`. `creating` and `inserting` name the worker whose open
transaction created the tables or inserted the row; the same statement of
another worker waits for it. `Fault` fails a statement or kills a process,
`ChangePassword` and `RemoveAdmin` are an operator's; together they happen
`MaxUpsets` times. uvicorn's supervisor starts a process again that exited
(`Boot`); a worker that was stopped stays down. `bereft` is a history
variable: the workers during whose life the account was removed. Without
`database_auto_create_schema` the tables are there from the beginning, as
`docs/database.md` has the migrations run first.

### RequestPipeline

One request, since requests share no state here (each task has its own context
variables). A step is what runs between two awaits. `Stack` is the order the
`add_middleware` calls of `main.py` build; `Sent`, `BoundId` and `SeenFrom`
compute from it what an answer sent at some depth carries and who sees it.
What runs without an await on the way out, the `finally` blocks, is part of
the step that leaves (`Leave`). The body is counted in units; the endpoint
reads it as JSON through FastAPI, by hand (`parse_password_grant_request`,
called "form") or not at all.

The way out of an endpoint has awaits of its own. `WayOut` leaves the
`async with` of `get_db_session` first, with what is to propagate in `raised`:
`CloseReturns` passes it on, `CloseRaises` puts an exception in its place,
which may be a `TimeoutError`, and either concludes as the layers do
(`Conclude`): `timeout.py:39` answers every `TimeoutError` that comes out of
the application, its timer's or not. `AsyncSession` shields its close, so the
timeout that strikes there leaves it behind, to end on its own
(`CloseBehind`); one that strikes earlier cancels the await it meets, and
`wait_for` waits for the close that follows, however long that takes. Only
then is the 504 sent, from outside `wait_for`, to a client that may not read
(`ServerTakesStart`, `SendBody`). A client that goes away needs no action:
uvicorn drops what is sent to it, and nobody here listens for the disconnect.
The statuses 200 and 400 stand for any an endpoint sets or refuses with.

Modelled with every protection of the repository on. CORS, trusted hosts and
gzip are library middlewares and innermost; the first two are off by default,
gzip is on and changes bodies only. `/metrics`, which the metrics
middleware skips, and WebSocket scopes, which every middleware passes on, are
left out. Exempt paths are the probes and the API docs, the same for the
limiter, the timeout and the body limit.

### Items

| Action | Code |
|---|---|
| `Submit` | `TenantMiddleware.__call__`: the tenant is bound to the request's context |
| `Refuse` | the rate limit, `require_scopes` or the validation of the body |
| `CallEndpoint` | `ItemRepository.create` up to the flush of `session.commit()` |
| `Checkout` | the pool hands out a connection: for the INSERT, and again for the SELECT of `session.refresh` |
| `SendCommit`, `CommitReturns` | the two ends of the COMMIT |
| `ServerCommits`, `ServerRollsBack` | PostgreSQL, whoever still waits for it |
| `Refresh`, `Reply`, `Leave` | the SELECT; the 201; the end of `get_db_session` and of the middlewares' `finally` |
| `Fail` | an error, the pool's timeout or the request timeout at any await |

`tenant_id` is the context variable as each request sees it, `item` the ORM
object, `items` the committed rows. Prices are in tenths of a cent, so that
the column's rounding is not the identity. `ItemLedger` knows an attempt as
none, open, created, refused or in doubt; the refinement mapping reads that
off the status the client saw.

### AccessTokens

Access tokens have no state on the server, so the state of the module is the
tokens clients have, the clocks (`Clock(w)` is the true time plus the skew of
the worker) and the settings each worker has cached. Clocks count ticks,
several to a second, while `iat` and `exp` are whole seconds: `Signed` rounds
both down, as the `int()` of `create_access_token` does, and `Decoded` compares
them with a clock that is not rounded. `Login` signs in the step
that read the account; a refresh reads it (`ReadAccount`), commits, and signs
afterwards (`RefreshSigns`), and both deliver only at the end, so an account
may change in between. `Restart` takes up the next settings; that it waits,
before the old secret is dropped, until its last tokens are expired is the
operator's part, stated in its guard. `Code` is `decode_access_token` and
`get_current_principal`: the secrets are tried in any order since at most one
fits. `held` is a history variable: when the account last had each scope. What
a refresh token is worth is the matter of `RefreshTokens`; here a holder may
always try one.

### Readiness

`step` is the check a probe awaits, `failed` its `failed_checks`. A service is
up, down or hung; `CheckEnds` is enabled only if the check under way can end.
`db_manager.ping` takes a connection of the pool all requests share
(`Connect`), and raises when there is none for `pool_timeout` (`PoolTimeout`),
whatever the state of the database. `holders` has who holds one: probes, and
other requests (`Others`), which come, take a connection, give it back and end
as they like (`Arrive`, `Query`, `GiveBack`, `Finish`).
`LeaveLifespan`, `CloseLimiter` and `Dispose` are the `finally` of the
lifespan. uvicorn is external: it serves only between the two halves of the
lifespan, and waits without limit for the requests under way at SIGTERM, as
the start script has it. `up`, `down` and `crowded` (the probes that saw others
have the whole pool) are history variables. The check of the limiter's backend is there only for Redis, whether or not the limiter
fails open.

### Migrations

A run of `alembic` or of `create_schema` is one transaction of statements
(`plan`), each of which takes an object from one state to the next; `written`
is what the transaction has done, `schema` what is committed. A statement that
does not find its object as it must fails the run (`Fail`); one whose object
another transaction has changed waits. The revision is an object like the
tables. Indexes go with their table. `created` is a history variable. What a
run can set out to do, `ToHead`, `Down` and `CreateAll`, is written as
concatenations, without recursion, so that it can be reasoned about.

## 3. What the runs show

| Run | Instance | Shows |
|---|---|---|
| `refresh_tokens` | 1 user, 3 requests and tokens, clock 0..1, lifetime 1 | `SingleUse`, `LogoutFinal`, `DeadStaysDead`, `RotationIsAtomic`, `DeliveredIsCommitted`, `ImplementsChain`, `EveryRequestEnds` |
| `sliding_window` | 3 keys of which 2 are tracked, 2 requests per 2 s, 2 ticks per second, clock 0..6 | `WindowBound`, `TrackedKeysBounded`, `RetryAfterHonest`, `ImplementsPolicy` |
| `redis_fixed_window` | 2 instances half a second apart, 3 requests, 1 per window of 2 s, timeout 1 s, 2 ticks per second, clock 0..8 | `BucketLimit`, `LeakOnlyAfterFailure`, `RefusedOnlyWhenFull`, `RetryMeetsNextBucket` |
| `startup` | 3 workers, all stages, 2 upsets | `ServesPrepared`, `SeedingIsIdempotent`, `AccountUntouched`, `EveryWorkerServes` |
| `request_pipeline` | body limit 4, messages up to 2, fail closed | `CountedAsSent`, `HeadersOnEveryAnswer`, `ErrorsTraceable`, `OversizeNeverHandled`, `SessionLeft`, `NothingHangs` |
| `items` | 2 requests, 2 tenants, a pool of 1, four prices | `ImplementsLedger`, `EveryCreateEnds` |
| `access_tokens` | 2 workers half a second apart, 1 request at a time, 1 scope, lifetime 2 s, timeout half a second, 2 ticks per second, 2 tokens, clock 0..6, one change of the account, two restarts of each worker | `StalenessBounded`, `TokenLivesItsLife` |
| `readiness` | 2 probes, 1 other request, a pool of 1, 1 outage, Redis | `ProbesAreHonest`, `ShutdownCompletes` |
| `migrations` | 3 runners, 5 runs | `VersionTellsSchema`, `MigrationFailsWithCause`, `EveryRunEnds` |
| `doc_request_id`, `doc_oversize` | as `request_pipeline` | documentation the code does not follow, see section 6 |
| `doc_migrate` | 2 runs, one after the other | the same |

The runs of `refresh_tokens`, `sliding_window`, `redis_fixed_window`,
`request_pipeline`, `startup` and `items` check `TypeOK` as well. The `TypeOK`
of `AccessTokens`, `Readiness` and `Migrations` documents their state and is
no property of a run.

Why the bounds are enough for the cases that matter:

- Three requests are a login and two calls that race for its token, or that
  follow each other down the chain. Lifetime 1 and a clock up to 1 let a token
  expire before, while and after a call waits for it. That owners are never
  confused, and what more requests could do, is what the proofs show: they
  cover every safety property of this run without any bound.
- Three keys for two places make every kind of eviction happen, also of a key
  that comes back; six ticks are one window and a half, so events expire
  between calls, and a window of four ticks contains both whole and half
  seconds.
- Eight ticks are two windows and the start of a third; with clocks half a
  second apart a request may count in the bucket before or after another's,
  and be told to wait for whole seconds at any half of one.
- Three workers are a winner, a loser that waits for it and one that starts
  after both; two upsets can kill a winner before its commit and remove the
  account between a loser's two statements.
- Two requests and one connection put each request in the other's way at both
  checkouts. The prices are one that rounds to nothing, one that rounds down,
  one up, and one that only rounding makes too large for the column.
- Two tokens are one and its successor by a refresh. With one scope a token
  has it or not; a login with fewer scopes than granted only makes both
  properties weaker. The bound of `StalenessBounded`, six ticks, can be
  exceeded by the end of the clock, and is by a refresh that forgets
  `is_active`; a token signed at a half second is refused half a second early.
- One outage breaks a service during a probe, and it may have been down, and
  come back, before or after; each service may be down from the start. A pool
  of one is exhausted by the other request or by the other probe.
- Five runs by three hands are an application, two rival migrations, and two
  more to see what they leave.
- Two messages fit the body limit whatever their size and three may not.
  `fail_open = FALSE` has every behaviour of `TRUE` (a failed backend lets the
  request through, as an admission does) and the 503 as well.

No run of a liveness property uses symmetry. `CHECK_DEADLOCK` stays on
everywhere: the `Finished` and `Exited` actions mark the only states in which
nothing need happen.

Each property is measured by a mutant: a change of one definition that stands
for a plausible bug in the code, under which the same run fails.

### Fairness

- `RefreshTokens!FairSpec`: weak fairness of each request's next step. The
  event loop runs every ready task and PostgreSQL answers. `Fail`, the clock,
  the clients and the operator are not fair. A step that waits for a lock is
  not enabled meanwhile, and weak fairness is enough because a token that is
  unlocked stays so or is spent: each lock is held by a request that ends, and
  one that locked a row either commits, after which nobody waits for that row,
  or fails; finitely many requests can do so.
- `Startup!FairSpec`: weak fairness of each worker's next step, `Boot`
  included: the supervisor of uvicorn (or of the container) starts exited
  processes again. Upsets are finite, not fair.
- `RequestPipeline!FairSpec`: the loop runs what is ready and fires due
  timers. Nothing is assumed of the limiter's backend, the client, the
  endpoint or the database: `NothingHangs` has to come from the timeout. Hence
  its exception, `Unbounded`: a request may stay for ever in the close of its
  session once it was cancelled, or in sending an answer from outside
  `wait_for`, and nowhere else.
- `Items!FairSpec`: the loop runs what is ready and the server answers (weak);
  SQLAlchemy's pool serves its waiters in turn, so a request that can be given
  a connection again and again gets one (strong fairness of `Checkout`). No
  error and no timeout is counted on.
- `Readiness!FairSpec`: the loop runs what is ready, and a hung service at
  last answers or breaks (TCP and the drivers give up); it may stay down.
  Another request ends, by the request timeout if by nothing else, unless a
  hung database keeps its connection. A probe waits for a connection at most
  `pool_timeout`. A probe or a signal need not come.
- `Migrations!FairSpec`: a run whose next statement can be executed goes on. A
  statement that waits is not enabled; weak fairness is enough because runs are
  finitely many, each that holds a lock ends, and PostgreSQL's lock queues are
  first come, first served.

## 4. What is proved

Every safety property of every passing run is a theorem for all values of the
constants, with the refinements of `refresh_tokens`, `sliding_window` and
`items`. Each proof has the same form: the parts of an inductive invariant
(`IInv`; `MigrationInv` for the migrations), one lemma per action that it is
preserved, and a theorem per property. TLC checked each invariant on its run's
instance, or one with a clock a tick shorter, before it was proved. Bounds of
the exploration (`MaxTime`, `MaxOutages` and the like) are arbitrary natural
numbers in the proofs.

Some theorems state more than the runs do. They are of three kinds, and TLC
checked those that need an invariant of their own on small instances as well:

- consequences of an abstract specification, carried over to the detailed one
  by the refinement theorem: `SessionsAreNotForked`, `ClientsAreToldTheTruth`,
  `StoredOnce`. Their proofs argue about `RefreshChain` and `ItemLedger` only,
  where an operation is one step;
- that nobody waits in a circle: `NoCircleOfLocks`, `PoolHasNoCircle`,
  `StartersNeverWaitInACircle`, `MigrationsNeverWaitInACircle`. This is the
  part of the liveness properties that is a matter of safety; that who can go
  on does is their fairness;
- the converse of a bound: `RefusalsHaveACause` of `SlidingWindow`.

### RefreshTokens

`RefreshTokensProofs`, for any sets of users, tokens and requests, any
lifetime and any bound of the clock:

| Theorem | Property |
|---|---|
| `TypeCorrect` | `TypeOK` |
| `RotatedOnce` | `SingleUse` |
| `LogoutIsFinal` | `LogoutFinal` |
| `DeadTokensStayDead` | `DeadStaysDead` |
| `DeliveredTokensAreCommitted` | `DeliveredIsCommitted` |
| `RotationAtomic` | `RotationIsAtomic` |
| `Refinement` | `ImplementsChain` |
| `SessionsAreNotForked` | `SessionsNeedLogins`: never more live tokens than logins with a password |
| `NoCircleOfLocks` | `HoldersNeverWait`: who locked a row is past every statement that waits for one |

Assumptions: the "null" constants are distinct from the values they stand
beside, a lifetime is positive, and no two requests generate the same token
(`MintAssumption`: 48 random bytes, and the unique index on `token_hash`).

None of the properties is inductive. `IInv` adds, in named parts:

- `LockInv`: who holds a lock is a rotation between its UPDATE and the end of
  its transaction, or a logout before its commit; the row is the one it
  presented, still live, of the user it works with; and vice versa. This is
  why two rotations cannot both get to their commit.
- `FreshInv`: a token is issued only by the request that generated it, at its
  commit. With `MintAssumption`, the successor of a rotation was not there
  before, which `Rotate` of the abstract specification demands.
- `OpInv`: which endpoint can be at which step with which status.
- `AnswerInv`: what is true once an answer is decided: the token of a 200 is
  committed for that user, the token of a 204 is not live.
- `SpentInv`: presented tokens are issued, and a rotated token is spent. With
  `LockInv` it carries `SingleUse`.
- `DeadInv`: a call whose token was dead on arrival never gets as far as
  generating a token: the token stays unconsumable at the time the call read
  (rows never become live again), or its owner stays inactive.

There is one lemma per action that it preserves `IInv`, and one step per part
in it; TLC checked `IInv` on the instances above before it was proved. The
action property and the refinement follow from `IInv` on the same case
split: the abstract action for each concrete one (`Commit` is a `Grant`, a
`Rotate` or a `Retire`, by endpoint and status), a stutter for all others.

`SessionsNeedLogins` compares two cardinalities and holds of the chains step by
step: `Grant` adds a login and a live token, `Rotate` exchanges one live token
for another, `Retire` takes one away. It is what single use is for: of two
clients that present the same token, one is left without a session.

### Startup

`StartupProofs`, for any number of workers and any settings: `TypeCorrect`,
`WorkersArePrepared` (`ServesPrepared`), `SeedingSucceeds`
(`SeedingIsIdempotent`) and `AccountsAreKept` (`AccountUntouched`). Its
invariant adds that only one worker holds the name between INSERT and commit
and that nobody has the account meanwhile (`InsertInv`), and what a worker
past each stage knows (`SchemaInv`, `AdminInv`). `StartersNeverWaitInACircle`
(`HoldersCommit`): a worker for whose transaction others wait has only its
commit left to do.

### SlidingWindow

`SlidingWindowProofs`, for any keys, settings and resolution of the clock:

| Theorem | Property |
|---|---|
| `TypeCorrect` | `TypeOK` |
| `WindowsAreBounded` | `WindowBound` |
| `MemoryIsBounded` | `TrackedKeysBounded` |
| `RetryIsHonest` | `RetryAfterHonest` |
| `Refinement` | `ImplementsPolicy` |
| `RefusalsHaveACause` | `RefusedOnlyAtLimit`: who is refused was admitted `max_requests` times in the last window |

Assumptions: the settings are positive (`Settings` enforces it), and so is the
number of ticks per second. The lemmas are about queues: the entries of an
ascending queue that have expired are at its head (`HeadExpires`, from
cardinalities, without induction), what `popleft` leaves is what the policy
counts (`WhatIsLeft`), and dropping twice is dropping once (`LaterTwice`).
`IInv` adds:

- `QueueInv`: a tracked queue is ascending, not empty, not longer than the
  limit and not in the future. That it is ascending is why the code may stop
  popping at the first entry that has not expired, and may judge a key by its
  last entry.
- `DictInv`: the two dicts have the same, finitely many keys.
- `HistoryInv`: a queue is the end of the history of admissions, and what is
  missing is at least a window old. An admission with fewer than
  `max_requests` in the queue is therefore a window later than the one
  `max_requests` before it, which is `WindowBound`.
- `RefusedInv`: between a refusal and the next call of the same key its queue
  stays as the refusal left it, full, or is pruned or evicted; the
  `Retry-After` that was given is the truncated distance to its first entry.

For the refinement, `SameEvictions` shows that the keys `_prune_stale_keys`
leaves are the ones the policy remembers, so both choose the same victims.
`RefusedOnlyAtLimit` follows from `HistoryInv` and the order of the queue: a
full queue, once the expired entries are popped, is the end of the history.

### RedisFixedWindow

`RedisFixedWindowProofs`, for any requests, instances, clocks, windows, limits
and timeouts: `TypeCorrect`, `BucketsAreLimited` (`BucketLimit`),
`LeaksHaveACause` (`LeakOnlyAfterFailure`), `RefusalsHaveACause`
(`RefusedOnlyWhenFull`) and `RetryIsExactToASecond` (`RetryMeetsNextBucket`).

Assumptions: positive settings, and `TimingAssumption`, which is the
deployment rule described in section 2; without it `BucketLimit` is false.
`IInv` adds:

- `CheckInv`: a check under way was begun by its instance's clock, not longer
  ago than the request timeout.
- `DeadlineInv`: an expiry lies a whole window after the window of its bucket,
  by the clock of the instance that set it. With `CheckInv` and
  `TimingAssumption`, no check can meet a counter that expired in its window.
- `CountInv`: a counter is at least the number of requests it lets, or may
  yet let, through, as long as the window is not past by every clock, and at
  most the number of requests that came. The first half bounds admissions, the
  second is why a refusal has a cause.
- `RetryInv`: what a 429 said is the rest of its window, rounded up to a
  second (`RetryIsRest`): it is not less, and exceeds it by less than a second.
  Windows begin at whole seconds (`Units`, `Quotient`), so nothing is lost at
  their end.

### RequestPipeline

`RequestPipelineProofs`, for any body limit, any size of messages and both
values of `rate_limit_fail_open`: `TypeCorrect`, `MetricsCountWhatIsSent`
(`CountedAsSent`), `HeadersAreAdded` (`HeadersOnEveryAnswer`),
`ErrorsCanBeTraced` (`ErrorsTraceable`), `LimitHolds`
(`OversizeNeverHandled`) and `SessionsAreLeft` (`SessionLeft`).

Assumptions: a positive limit, and that no answer is not an answer
(`NoAnswerAssumption`). What the order of `add_middleware` gives is one lemma,
`StackOrder`: whatever answers from within the stack is inside the layers of
the request id, the metrics and the security headers. `IInv` adds that the
request's own id is bound until the metrics have counted (`ContextInv`), that
what a layer last began to send is what the metrics saw, comes from within and
names that id, unless it comes from outside the stack, as a 500 (`ReplyInv`),
that the server accepted it, or an answer before it, and then it is a 504 that
came too late (`WireInv`), what may wait for the session's close
(`ClosingInv`), where a request can be whose session is open or closing
(`SessionInv`), and what of the body an endpoint can have seen (`BodyInv`).
`SessionsAreLeft` rests on the order of awaits: whatever ends an endpoint,
nothing is answered for it before the close has ended or the timeout struck
it.

### Items

`ItemsProofs`, for any requests, tenants and prices and a pool of any size:
`TypeCorrect` (`TypeOK`) and `Refinement` (`ImplementsLedger`), and with it
`ClientsAreToldTheTruth` (`AnswersTell`: a refusal left nothing, a 201 showed
the row, a row is of its client's tenant and at its price to the cent) and
`StoredOnce` (`RowsAreFinal`: no request changes a stored row). Assumption: no
row is not a row (`NoRowAssumption`). `IInv` adds:

- `TenantInv`: a request's context variable names its own tenant as long as
  it lasts.
- `ItemInv`: until it is refreshed the ORM object is what the client asked
  for, and so is what a COMMIT will store that the server still has, even
  after its request ended.
- `RowInv`: nothing is stored before COMMIT is sent, something is once it has
  returned.
- `AnswerInv`: a refusal leaves no COMMIT behind at the server, which is why a
  4xx stores nothing, ever; a 201 has shown the row.

Each action is then a step of the ledger or a stutter: `Submit` asks, `Refuse`
refuses, `Fail` leaves in doubt, `Reply` creates, and `ServerCommits` stores
whether or not somebody still waits.

`PoolHasNoCircle` (`WaitersHoldNone`): who waits for a connection, for the
INSERT or again for the SELECT, holds none, so the pool may be of any size.

### AccessTokens

`AccessTokensProofs`, for any workers, scopes, lifetime, timeout, spread of
the clocks and rotation: `TypeCorrect`, `StalenessHasABound`
(`StalenessBounded`) and `TokensAreGood` (`TokenLivesItsLife`).

Assumptions: `RotationAssumption`, that settings one generation apart accept
each other's tokens, and the clocks' spread. `IInv` says of every token a
client has or is being sent that it is `Sound`: its times are those of a
worker's clock when it was signed, rounded down by less than a second
(`Dated`, `WholeSeconds`); its scopes were held not longer
before that than a request may last (`Entitled`), because a request reads them
after it began and signs before it times out (`ReadingInv`); and some
generation of the settings signed it (`SignedBy`): no worker is two
generations behind, and one is two ahead only if the token has expired. The
last clause needs that all workers were past that generation at the last
rotation, hence after the token was signed; it is where the wait in the guard
of `Restart` is used.

### Readiness

`ReadinessProofs`, for any number of probes, other requests and outages, a pool
of any size and both rate limit backends: `AnswersAreTrue`
(`ProbesAreHonest`). `IInv` adds that a probe has its checks only while the
startup is complete (`RunningInv`, `PhaseInv`: the shutdown waits for it), that
it has seen what is there to be seen, also of the pool (`WatchInv`), and what
the checks that ended have found (`FoundInv`). That a probe which gives up
waiting for a connection holds none is why the others must have them all.

### Migrations

In `StartupProofs`, since both modules prepare the same database and the
proofs about `Migrations` need no assumption; there it is the instance `M`,
and its `schema` is called `objects`. For any runners and any bound of the
runs:

| Theorem | Property |
|---|---|
| `TablesMatchRevision` | `VersionTellsSchema` |
| `FailuresHaveCauses` | `MigrationFailsWithCause` |
| `MigrationsNeverWaitInACircle` | `NoCircularWait`: while a run is under way, one is that waits for no other |
| `MigrationsTypeCorrect` | `TypeOK`, if `MaxRuns` is a natural number |

`MigrationInv` is `VersionTellsSchema` and:

- `StageInv`: a run under way has executed the first statements of one of the
  plans there are. Of each object they name it has written what the last one
  made of it, and the object is still committed as the first one found it.
- `LockInv`: no object is changed by two transactions at once. With `StageInv`
  it makes a commit atomic: what the first statements found cannot have been
  changed by another run meanwhile, so a plan executed to its end takes the
  tables of one revision to those of another, and the revision with them.
- `IdleInv`: a run that has ended, however it did, holds nothing.
- `PairInv`: `users` and `refresh_tokens` are both there or neither is, hence
  `create_all` has only four plans.

The lemmas on plans (`PlanUp`, `PlanDown`, `PlanCreate`, `PlanCases`) give each
one statement by statement; the rest is one case per plan and stage. A failure
has a cause because a statement of a run whose revision was not moved finds
its object as its plan has it, if the tables are those of the revision
(`NextAccepted`).

There is no circle although an upgrade takes the tables in the order of their
foreign key and a downgrade the other way round: a statement that would have
to wait is refused at once if the committed object is not as it has to find
it. So a run waits for `users` only to create it and for `refresh_tokens` only
to drop it, and with `PairInv` (`RunsInOrder`) nobody waits for the revision,
who holds `users` or `refresh_tokens` for others to wait for waits for nothing
itself, and if all that wait do so for `items`, the run that holds it does
not.

## 5. What is only model-checked

- Liveness (`EveryRequestEnds`, `EveryWorkerServes`, `NothingHangs`,
  `EveryCreateEnds`, `ShutdownCompletes`, `EveryRunEnds`): outside what TLAPS's
  backends prove. Of their safety part, that nobody waits in a circle, see
  section 4.
- The three `doc_*` runs, which show that a sentence does not hold.

## 6. Differences between documentation and code

Three runs are expected to fail; each checks one documented sentence.

- `doc_request_id`: `docs/observability.md:45`, "`X-Request-ID` is always
  present in the response header". The 500 of `generic_exception_handler` is
  sent by `ServerErrorMiddleware`, outside `RequestIDMiddleware`.
- `doc_oversize`: `README.md:225`, "Request body size limit middleware (`413
  REQUEST_BODY_TOO_LARGE`)". Where FastAPI reads a JSON body, it turns the
  exception into a 400.
- `doc_migrate`: `docs/database.md:38`, "make migrate # upgrade to head", also
  in its Docker section after the application was started. An application with
  `database_auto_create_schema`, the default outside production, leaves tables
  without a revision; the upgrade finds `items` there and fails each time. The
  run lets the runs take turns (`TurnsSpec`), as one does who follows the steps
  of the documentation: one start of an application, committed, then one
  upgrade.

Two more need no run. `docs/observability.md:147` promises the JSON envelope
for all API errors, but its handler is registered for FastAPI's
`HTTPException`, so the 404 of an unknown path, Starlette's, is
`{"detail": ...}`; `AllErrorsEnveloped` in `RequestPipeline` states the
promise, and TLC refutes it under `MCRequestPipeline.cfg`. And
`core/metrics/http.py:27` calls the counter the total of the application,
while each worker has a registry of its own.

Worth knowing, and not contradicted by any document: a timeout after the
answer has begun is counted as a 504 nobody saw, and so is a `TimeoutError` of
the session's close after a 200 (`CountedAsSent` states the exceptions); the
timeout bounds neither the close of the session of the request it cancelled,
nor the sending of its own 504 (`NothingHangs`); waiting exactly `Retry-After`
seconds at the in-memory limiter may be up to a second too short
(`RetryAfterHonest`), at the Redis limiter up to a second too long
(`RetryMeetsNextBucket`); an access token may be refused up to a second before
its lifetime is over (`TokenLivesItsLife`); `/ready` names a database that is
up when other requests have the whole pool (`ProbesAreHonest`); a logout with a token that
was already rotated answers 204 and does not end the chain, since only the
token named is revoked (`Retire`), nor does it end an access token, which is
good for what `StalenessBounded` says; a refresh issues all the scopes the
account has, also after a login that asked for fewer; a price below half a
cent passes `gt=0` and is stored as 0.00 (`ToTheCent`); a 504 of `POST /items`
may be followed by the commit (`Doubt`, then `Store`); with Redis down `/ready`
answers 503 although the limiter fails open; a hung `/ready` holds up the
shutdown; and if `limiter.close()` raises there, the pool is not disposed of
(`ShutdownCompletes` states the exception).

## 7. What is not modelled, and the plan

Not modelled and not planned: logging and tracing (I/O), `ping` and `/health`
(constant), the container and scripts (they choose the number of workers,
which the modules leave open), cryptography and JWT encoding, library
middlewares, the registry of the metrics (one counter per process, updated
where `RequestPipeline` counts), migrations on SQLite, whose DDL alembic does
not put into a transaction, and offline ones, which print SQL; logins of the
environment's administrator and `auth_enabled = FALSE`, which keep no state;
validation of strings in `Settings`. The numeric constraints of `Settings` are
the `ASSUME`s of the modules. Settings are constants: `get_settings` is cached.

Order of the work:

1. Done: `RefreshChain`, `RefreshTokens` and proofs; `AdmissionPolicy`,
   `SlidingWindow`; `RedisFixedWindow`; `RequestPipeline`; `Startup` and
   proofs; `Readiness`; `ItemLedger`, `Items`; `AccessTokens`; `Migrations`.
2. Done: proofs of `SlidingWindow`, `RedisFixedWindow`, `RequestPipeline`,
   `Items`, `AccessTokens` and `Readiness`.
3. Done: `Migrations`; what follows from `RefreshChain` and `ItemLedger`,
   carried over by the refinements; the absence of circular waits; the converse
   of `WindowBound`.
4. Left: nothing that is planned. Liveness needs a prover with fairness and
   `ENABLED`.

## 8. Running

    tlc -workers 2 -config MCRefreshTokens.cfg MCRefreshTokens
    tlapm RefreshTokensProofs.tla    # and every other *Proofs.tla

Every run ends within a minute or two on a laptop; the proofs take about as
long.
