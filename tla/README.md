# Verification of the operation API

TLA+ models of `vort-ads-template`, the TLC configurations that check them on
small instances, and proofs, checked by TLAPS, that hold for every value of the
constants. Paths of the source are relative to the repository; `A/` stands for
`apps/operation-api/internal/`, `M/` for `internal/middleware/`.

## The system

| Component | State it keeps | Operations | Interacts with |
|---|---|---|---|
| identity use cases, `A/biz/identity` | none: each request has its locals | Register, Login, Refresh, Me | stores, JWT manager, id generator |
| HTTP handlers, `A/service/identity` | none | bind JSON, call the use case, map its error to a status | use cases |
| memory stores, `A/data/identity/memory` | two maps of users under a RWMutex, a map of refresh tokens under a Mutex | Create, Delete, FindBy..., Save, Rotate | lost when the process stops |
| redis token store, `A/data/identity/redis` | one key per refresh token, with PX | Save (SET), Rotate (Lua script) | go-redis: pool, timeouts, retries |
| postgres stores, `A/data/identity/postgres` | tables users, user_roles, refresh_tokens | one statement or one transaction per call | pgx pool |
| JWT, ids, `internal/platform/security`, `pkg/idgen` | a secret, two TTLs | sign, verify, draw 128 random bits | the clock |
| redis limiter, `M/ratelimit_redis_token_bucket.go` | a hash per key, with PEXPIRE | Allow (Lua script) | go-redis |
| local limiter, `M/ratelimit.go` | a map of `rate.Limiter`s, a clean-up time | Allow, deleteExpired, deleteOldest | the clock |
| limiter chain, `A/server/http.go`, `M/auth.go`, `M/timeout.go`, `M/ratelimit_failopen.go` | per request: where it is, what was sent | KeyedRateLimit four times, Auth, Timeout | limiters, handlers |
| bootstrap, `A/bootstrap/app.go`, `cmd/server` | the pools, what a ping said at startup | New, Shutdown | everything |
| configuration, `internal/platform/config` | none | Load, Validate | bootstrap |
| the middleware around every route: CORS, BodyLimit, Recovery, AccessLog, Timeout, observeRequests | headers, a log line and a count per request | wrap the chain | net/http, all routes |
| web app, `frontend/` | an access token in memory and in sessionStorage, a query cache | log in, load the profile, sign out | the API, cross-origin |
| the rest: logger, tracing, RBAC, pagination, ... | none that a decision depends on | | |

What is hard in it:

* a registration writes to two stores, with a rollback when the second fails and
  the request's context may be done (memory, redis) or in one transaction (postgres);
* a refresh verifies a JWT, looks a user up and rotates a token in three calls,
  while other requests do the same with the same token and time passes;
* answers of redis and postgres are lost after the effect, and go-redis sends a
  command again by itself;
* two postgres transactions meet at a row while their connections break, perhaps
  in the middle of a COMMIT, and calls wait for connections of a small pool;
* the Timeout middleware sends 504 and leaves the handler running, which may
  answer or panic later; what is installed around it must see one answer;
* answers reach the web app after a sign-out, a reload or not at all;
* the limiter refills on demand, in integers, in a hash that redis may drop;
* four limiters charge one request, one after the other, and each may fail.

`PROJECT.json` lists the hazards that weigh most, each at its line, with the properties that cover it.

What makes a component correct: for the stores, that their maps or tables agree
and that Rotate is a swap; for the use cases, that a session never splits, that
a success is stored and that a failed registration leaves nothing; for the
limiters, the bound of a token bucket in every window and no denial that the
bucket does not justify; for the chain, that nothing gets past a limiter and
that no client pays for what was refused before; for the middleware around it,
that every request is answered once, readably and with one line in the log; for
the transactions, that they are the atomic steps the use cases take them for;
for the web app, that a session that is over leaves nothing behind.

## Modules

| Module | What it is |
|---|---|
| `Sessions` | what the refresh-token service promises: open, exchange, end |
| `Identity` | the four use cases over the three wirings of stores; `MCIdentity` instantiates it |
| `IdentityProofs` | proofs, of `Sessions` too |
| `PostgresStore`, `PostgresStoreProofs` | the transactions of the postgres stores, statement by statement, and proofs; `MCPostgresStore` instantiates it |
| `TokenBucket` | what a limiter promises: a bucket refilled at every instant |
| `RedisTokenBucket` | the constructor, the script and Allow; `MCRedisTokenBucket` instantiates it |
| `TokenBucketProofs`, `RedisTokenBucketProofs` | proofs |
| `LocalRateLimiter`, `LocalRateLimiterProofs` | the limiter in the process, and proofs; `MCLocalRateLimiter` instantiates it |
| `ApiPipeline`, `ApiPipelineProofs` | the chain of middlewares over four such buckets, and proofs; `MCApiPipeline` instantiates it |
| `HttpShell` | the middleware around every route, with the two goroutines of Timeout |
| `FrontendSession`, `FrontendSessionProofs` | a tab of the web app over `HttpShell`, and proofs about both; `MCFrontendSession` instantiates them |
| `Lifecycle`, `LifecycleProofs` | a process from `New` to its exit, and proofs; `MCLifecycle` instantiates it |

### Identity

`Wiring` is what `selectRefreshTokenStore` and `New` select: `"memory"` (users
and tokens in the process), `"redis"` (users in the process, tokens in redis)
or `"postgres"`. A request is a record with the next call it makes (`pc`), its
context and the locals of its use case. Each call of a store is one atomic
action, because each of them is one critical section, one Lua script, one
statement or one transaction; between two calls anything may happen.

| Code | Actions |
|---|---|
| `Register`: Hash, generateID, generateTokenPair | `Register`, `GenerateTokenPair` |
| `users.Create`, `tokens.Save`, the rollback | `MemoryCreate`, `MemorySave`/`RedisSave` (`SaveFailed`), `MemoryDelete` |
| `CreateUserWithRefreshToken` | `PostgresCreateUserWithRefreshToken` |
| `Login`: FindByEmail, Compare, issueTokenPair | `Login`, `FindByEmail`, `GenerateTokenPair`, `...Save` |
| `Refresh`: verify, FindByID, generate, Rotate | `Refresh`, `FindByID`, `GenerateTokenPair`, `...Rotate` |
| `Auth` and `Me` | `Me`, `FindProfile` |
| the handler's answer | `Respond` |
| client gone, Timeout | `Cancel` |
| PX, process stop, clock | `RedisExpire`, `Crash`, `Tick` |

A call of a memory store on a done context fails; a call of a remote store may
in addition fail without an effect, or have its effect and report an error. A
rotation in redis may also run twice, in which case the second run answers 0.
Postgres judges the expiry of a token at the BEGIN of its transaction (`Matches`,
with any second between the signing of the new pair and the COMMIT), the map in memory at the exchange (`Unexpired`).
A crash drops the requests of a process and what it keeps in memory; with
postgres there are several processes and any set of requests may die.

The tick of the clock is one second, to which a JWT's `exp` is truncated;
`expiresAt` is read back from the JWT, so that the stores use the same second.
`owner`, `iat` and `family` are what the signature of a pair fixes (`family`
and `spent` are history). Clients present the tokens they were given; anything
else is refused by the verification, which has no state.

### PostgresStore

`Identity` takes a transaction of postgres for one step, which may report an
error after its effect. `PostgresStore` shows that it may. A call (`call`) takes
a connection of the pool (`Begin`), receives the answer that ends it (`Receive`),
loses its connection (`Break`) or leaves early, and then runs the deferred
`rollbackSafely`. A token stands for the call that would enter it: `job[t]` is
what the call asks, `tx[t]` what the server knows of its transaction, which
stays there when the connection breaks, until it commits what it was sent or
the server finds that its client is gone (`Reap`).

| Code | Actions |
|---|---|
| `pool.Begin` and its error | `Begin`, `BeginFails` |
| `DELETE ... expires_at > now()`, `RowsAffected() != 1` | `DeleteToken`, `Receive` (`"zero"`) |
| `INSERT INTO users`, `mapUserInsertError` | `InsertUser`, `mapUserInsertError` |
| roles, `INSERT INTO refresh_tokens` | `Insert` |
| `tx.Commit`, the single statement of `Save` | `Commit` |
| any error of a statement, a context that is done | `Fails`, `Break` |
| `rollbackSafely` | `rollbackSafely` |

Under READ COMMITTED a statement sees what is committed when it executes, waits
for the open transaction that holds its row or its key in the unique index
(`Blocks`), and then looks again; `now()` is the time of the BEGIN (`began`).
The answer of a statement and the sending of the next are one step: what breaks
between them may as well break before the next is executed.

### RedisTokenBucket

Every number of the script is a multiple of 1000 micro-tokens, which one token
a second yields in a millisecond; it is the unit of the model, so that
`token_scale` is the number of milliseconds in a second. `MaxExact` is Lua's
largest exact integer in that unit, and `SafeInLua` what the constructor asks of
the rate and the burst, or panics; `Numbers(h)` are the numbers the script then
computes from a hash, the product of the refill only when time alone has not filled the bucket (`FullByTime`). `hash` is what redis
holds, `Tokens(h)` the value the script computes from it, `Write` its HSET and
PEXPIRE. A call of Allow is started, and then answered, or lost (the script has
run), or not sent, or cancelled; go-redis sends it again `MaxRetries` times.
`taken[k][s]` counts the tokens taken from `s` on (history).

### ApiPipeline

A request passes `global`, `ip`, `auth_ip` and, for GET /me, Auth and `user`,
and then its handler. `KeyedRateLimit(r, p)` is the whole handler of a limiter:
allowed, denied, or failed before or after it charged, with what `KeyedRateLimit`
and `WithFailOpen` make of an error. `SendAgain(r, p)` is a script of redis that has
taken a token and is sent again: one call may charge any number of tokens. What a
bucket charged is therefore counted twice, in tokens (`charged`) and in requests
(`payers`, `total`, history), of which `paid` says that the call under way was one
already. `Timeout` sends 504 at any point and the
chain runs on. `failOpen` is `cfg.Redis.RateLimitFailOpen`. The buckets are those of `TokenBucket`: `RedisTokenBucketProofs`
proves that the redis limiter implements them, and `LocalRateLimiterProofs` that
the local one does while no call waits for its mutex and there is room for every
key; what it may grant beyond that is `ExcessIsExplained`, proved for every wait. A call of redis that fails before
the deadline, after it, or because of it is one and the same alternative.

### LocalRateLimiter

`ReadClock` is `l.now()` before the mutex and `Allow` the critical section:
clean-up when it is due, room for a new key, `AllowN` of `golang.org/x/time/rate`,
`lastSeen`. Between the two a call may wait, for `Lag` ticks at most, while others
enter with later readings; `rate.Limiter` then sees time run backwards, and a call
that is allowed sets the clock of the bucket back. A tick yields `Rate` of the
`Unit` parts of a token, which is the exact form of the library's floating point.
The histories `taken`, `rewound` and `evicted` are those of one key, `watched`,
which is any of them.

### HttpShell and FrontendSession

A request has the goroutine of net/http (`pc`), which waits in Timeout, and the
one Timeout starts (`chain`); the first of an answer, a panic and the deadline
is sent. The layers run in the order of `engine.Use` (`ServeHTTP`): `CORS` writes its
headers on the way in, to the writer it finds, or answers a preflight; `BodyLimit`
answers what declares too much; and `RunInside` is Timeout, which puts a buffer in
the place of the connection for all that runs inside it (`Writer`). `allow` is the
set of the writers that hold the header: the buffer's are added to the connection's
when the chain has answered in time (`Merged`), and dropped with a panic or a
deadline. `Sent` is what an answer meets on its way out: the line of the log
(`Lines`), AccessLog's or, when a panic passes it, Recovery's.

`FrontendSession` EXTENDS it with a tab: React's state, `sessionStorage`, the
query of the current user, and the requests it awaits, each after a preflight or
with one that is remembered. `signOut` is what the button and a refusal with
UNAUTHORIZED call; `Retries` is MePage's `retry`. Storage may be denied at every
call. A reload forgets everything but the storage, and the answers on their way
find nobody. Strangers use the server with any origin and body.

### Lifecycle

`pc` is where the main goroutine is: `Load` with `Validate`, the steps of `New`, `run`'s select, the
drain and `shutdownStartup`, whose order is that of the code. `clients` tells a
client that is nil from one that is open and one that was closed and is still
pointed to: the selectors ask whether it is nil, requests need it open. `given` are
the arguments of `shutdownStartup`, which differ from call to call (`Abort`, twice,
and the two ends of the drain): it closes what it is given. `New` branches on
the configuration, on errors, and on the ping of redis, whose answer decides once
and for all what is wired. `server` is the goroutine of ListenAndServe. A
request runs in its handler, holds a connection of the pool or not, and is
answered by the handler or by Timeout, after which the handler runs on. `up` is
which services can be reached, and changes at any time; a signal comes at any time.

## Runs

| Run | Instance | What it shows |
|---|---|---|
| `identity_memory` | 2 requests, 2 users, 1 address, 3 tokens, refresh TTL 2 s, access TTL 1 s, clock to 2 | the two maps agree, a failure issues nothing and consumes nothing that is still good, no expired token is exchanged |
| `identity_redis` | the same, TTLs 1 s, clock to 1, no stalls | one live token per session, successes are stored, failed registrations leave no user and none is left unattended, and `Sessions` is implemented, with lost answers and scripts that run twice |
| `identity_postgres` | the same with 2 addresses | registration is atomic with lost COMMIT answers and several processes |
| `identity_me_404` | as `identity_memory` | finding: GET /me answers 404, which its doc does not list |
| `postgres_store` | 2 calls, pools of 1 and 2, 1 address, 3 tokens, TTL 1 s, clock to 1 | answers are true, no exchange of what had expired at its BEGIN, `Sessions` implemented, every call returns |
| `redis_token_bucket` | 1 key, 2 calls, 3 tokens a second of 4 ms, burst 2 | the bound in every window, no unjustified denial, no number beyond Lua's exact integers, `TokenBucket` implemented |
| `api` | 2 concurrent requests, 2 addresses, 1 user, failing closed or open, scripts that run again | nothing gets past a limiter, inner limiters charge only what outer ones have charged; open, no failure of redis turns a request away |
| `api_auth_ip` | 3 requests, local limiters | finding: the limiter of the authentication endpoints turns GET /me away |
| `web` | a tab that logs in twice, 2 requests at a time, strangers | every request is answered, once, readably for the allowed origin only and with one line; a sign-out forgets, a refused token is not used again |
| `local_racing` | 2 calls that wait up to a tick, 2 keys and room for 1, burst 1 | the map stays bounded, and every excess is explained by an eviction, a wait or a clock set back |
| `local_ordered` | 2 calls that do not wait, 2 keys and room for both, burst 2 | the map with its clean-ups implements `TokenBucket`, and idle keys go |
| `lifecycle` | 2 requests, every configuration | prod never serves from memory, clients are closed once and not under those who wait, what exit code 0 and readyz say, and that the process exits |

Every property of a passing run has a mutant: an operator beside the one it
replaces (`FreshTokenWithoutJti`, `SwapKeepsOld`, `HalvedIdleTTL`, ...), the
way a plausible slip would have it, under which TLC finds the property violated.

**Bounds.** Two requests are what a race of two needs, and a third arrival is
possible because a slot is used again. Three tokens allow an opening and two
exchanges, two openings and an exchange, and both refreshes of one token. The
clock passes every TTL: a token is issued, expires while it is used, and is
gone. One address makes every registration collide; the postgres run has two,
for users that are independent. The ten instants of the limiter's run are three
fills of the bucket (3 ms each) and more than its idle TTL of 6, with a rate that yields
less than a token in a tick and does not divide the burst, so that neither the
refill of a denied call nor the rounding is idle. The local limiter's clock runs
for two TTLs and a half in `local_ordered`, long enough for two clean-ups, and past
the TTL in `local_racing`, where two evictions of the watched key suffice to
tell one from none and from many (`MaxEvictions`). `Lifecycle` has no counters. The
three tokens of `postgres_store` are a session and two calls that exchange its token
at once, or two registrations that meet and a login; its pool of one makes
calls wait for connections, that of two lets transactions meet at a row. Two
logins of `web` are a session that comes after another, and two requests an
answer that is late while the next is under way. The buckets of the pipeline are
no larger than what two requests can take with scripts that run again, so that each
kind of limiter refuses some. `MaxExact` is 12, the least the constructor accepts for
that rate and burst, so that a product of the refill that no comparison keeps in
bounds exceeds it within the clock of the run.
`MaxTime`, `MaxRequests`, `MaxEvictions`, `MaxTokens`, `MaxLogins` and the number of
tokens cap the counters; the proofs hold for every value of them.

**Fairness.** `PostgresStore!FairSpec` has weak fairness of what a call does with
an answer and of its rollback, of what the server executes and of its finding a
client gone (TCP tells it), and strong fairness of taking a connection, because
pgxpool serves its waiters in their order. No failure need happen and no
deadline need pass: that `CallsReturn` holds without them is the point.
`FrontendSession!FairSpec` assumes of each request only that the goroutine of
net/http goes on, which includes the timer of Timeout; handlers need not return.
`Lifecycle!FairSpec` assumes that the main goroutine runs, its shutdown timer
included, and that a connection of the pool is given back: the context of a
request ends when net/http has its answer, which Timeout gives in the worst
case, and pgx heeds it. `Identity` and `ApiPipeline` state no liveness. In place
of one, `NoUnattendedUser` says as an invariant which request will give a user
its token or take it back; a process that stalls for the five seconds of a
rollback's context may leave its user behind, and reports it (`joined`): that is
`Stalls`, which `identity_memory` includes and `NoUnattendedUser` excepts.

**Deadlock** is checked in every run but `local_racing`, whose bounds stop it:
no call comes after `MaxEvictions` or is answered after `MaxTime`.
`ApiPipeline!Rest` and `PostgresStore!Rest` are the process that waits when the requests
or the tokens of the bound are used up, `Lifecycle!Exited` the process that is gone.

## Proofs

For every value of the constants, from the named assumptions of the modules only
(`ConstantsOK`, `StoreConstants`, `PipelineConstants`, the two `LimiterConstants` with
`NoHashIsNoHash`, `SafeInLua`, `ShellConstants`, `TabConstants`; `Lifecycle` needs none). A theorem that
needs more states it as a hypothesis: the wiring, or `Roomy` below.

* `IdentityProofs`: `Inductive` (`IInv`), `TypeCorrect`, `SingleWinner`
  (`OneLiveTokenPerSession`), `SuccessStored` (`SuccessIsStored`), `Refinement`
  (`ImplementsSessions`), `NoStaleExchangeHolds` (for memory: postgres judges
  at the BEGIN, of which `NoStale` below says what it can, and redis compares no clock,
  it has dropped the key, or not yet), and of the users
  `IndexesStayTogether` (`IndexesAgree`), `NobodyUnattended` (`NoUnattendedUser`),
  `AtomicRegistration` (`RegistrationIsAtomic`, with postgres), `FailureLeavesNoUser`
  (`FailedRegistrationLeavesNoUser`, without) and `FailuresCostNothing`
  (`FailureCostsNothing`, with memory). `SessionsSafe` is the invariant of the
  abstract service, over sessions of which nothing else is known; `PromiseKept` the
  same invariant of `Identity`, and `NeverAcceptedAgain` that no token that left the
  store comes back in any step. `SessionKeepsItsUser`: all tokens of a session are
  its user's, and Refresh answers with a pair of the session it was asked about.
* `PostgresStoreProofs`: `Inductive`, `TypeCorrect`, `AnswersTrue` (`AnswersAreTrue`),
  `NoStale` (`NoStaleExchange`), `Refinement` (`ImplementsSessions`), `PromiseKept`
  (no two rows of a session, and no row that comes back), `AddressIsKept` (no registration
  takes over the address of another), `NoLockCycle` and `PoolBounded`, the two safety
  facts that keep `CallsReturn` possible.
* `ApiPipelineProofs`: `Inductive`, `TypeCorrect` (`TypeOK`), `NotBypassed`
  (`NeverBypassed`), `InnerFollowsOuter` (`InnerChargesFollowOuter`),
  `FailOpenAvailable` (`FailOpenStaysAvailable`).
* `TokenBucketProofs`: `BucketWithinRate`, `BucketGivesAll`.
* `RedisTokenBucketProofs`: `FillsAgree`, `Inductive`, `TypeCorrect`, `Exact`
  (`NumbersStayExact`), `Refinement` (`ImplementsTokenBucket`),
  `WithinRateHolds`, `DeniesOnlyWhenExhausted`.
* `LocalRateLimiterProofs`: `Inductive`, `TypeCorrect`, `MapBounded`
  (`VisitorsBounded`), `ExcessExplained` (`ExcessIsExplained`), `IdleGo`
  (`IdleVisitorsGo`, for every `Lag`), and when `Roomy` `Refinement`
  (`ImplementsTokenBucket`), `WithinRateHolds`, `DeniesOnlyWhenExhausted`.
* `FrontendSessionProofs`: `Inductive`, `TypeCorrect`, `AnswersAccounted` (`Accounted`),
  `EveryAnswerReadable` (`AnswersReadable`), `AnsweredOnce`, `NobodyElsesProfile`,
  `SignedOutHasForgotten` (`SignedOutForgets`), `RefusedNotReused`
  (`RefusedTokenIsNotReused`).
* `LifecycleProofs`: `Inductive`, `TypeCorrect`, `EverythingClosed`
  (`CleanupComplete`), `NobodyCutOff` (`NotCutOff`), `CleanExit`
  (`CleanExitAnswersAll`), `ServesOpen` (`ServesWithOpenClients`),
  `ReadyIsReachable` (`ReadyMeansReachable`), `ProdDurable` (`ProdIsDurable`).

`OneLiveTokenPerSession` is not inductive: a request that is about to save or
rotate holds a token the store does not have yet. `IInv` adds that this token is
known to its request only, has never been in the store and has the session of
the token presented (`PendingOK`, `CandidatesDiffer`), that unsigned tokens are
nowhere (`UnsignedUnused`), that a session is named after a token that was in
the store (`FamiliesEntered`), and that a token that left it does not come
back. One lemma per action shows that the step keeps it; the three ways a step
touches the store (`TokensLeave`, `TokenEnters`, `TokensSwap`) carry the argument.
The refinement shows that a step whose store gains a token opens or exchanges,
and one whose store loses tokens ends their sessions.

The users have an invariant of their own, `UInv`, over `IInv`. A registration owns
its user alone (`RegistrarsDiffer`), the user is not there before the call that
creates it and is gone after a rollback that answers (`UserOK`), and whoever
exists had a pair signed (`UsersSigned`). That a user without a stored token is
attended to is inductive only with these. Sessions keep their user because a request
that has come with a token works for the user of that token until it has its pair,
and only a token nobody has is signed (`OwnersOK`, `KeepsItsToken`).

`PostgresStore` rests on the row lock. From its DELETE to its end a transaction
is the only one to have consumed its token (`LocksExclude`), the token stays in
the committed table and keeps its expiry (`Locked` in `TxOK`), and a token that was
missed once is missed for ever (`Missed`): nothing enters a token twice. One lemma
carries a step of the server over to all calls and transactions (`ServerStep`),
one a step of a call (`ClientStep`), and one the arrival of a call (`EnterStep`). In
the refinement the COMMIT is the step of `Sessions`, whoever is left to hear of it,
and all else stutters (`CommitOrUnseen`); that a session has one row follows with the
facts about a COMMIT (`CommitFacts`) and two clauses of `SessionsOK`, and that no row
comes back because a COMMIT makes a row of its own token only, once. The addresses
have an invariant beside it: a registration that has inserted its user is alone
with the address, which nobody has yet (`AddressesOK`). No cycle of locks follows
from `Program`: a transaction that has executed a statement never comes to one that
waits. The bound of the pool needs that every call past `Begin` counts as a holder
until it returns (`PoolOK`).

For `ApiPipeline` the invariant relates every count of requests to those that have
passed the policy, or were charged by it, and not the next one yet, so that what is
charged outside is never less than what is charged inside (`InOrder`), a count of
requests to the tokens taken for them, and a bucket's level to what it was charged.
With scripts that run again no such order holds of tokens, only of requests.

For the redis limiter the two ways of rounding a fill come first: `FillsAgree` is the
division argument, `TickAdvances` that the value computed on demand gains the
rate at every tick up to the capacity, `ExpireKeepsTokens` that the idle TTL is
at least a fill, so that a bucket that is dropped was full. The bound in every
window is then proved once, for the ideal bucket, with the invariant that what
was taken and what is left stay within the bound in every window and meet it in
the window that began when the bucket was last full (`WithinBounds`, `Tight`),
and is carried over by the refinement.

The local limiter refines no bucket when calls race, so its bound is proved
directly. While the watched bucket is there, what a window took and what is left
are within the bound at the time of the bucket's own clock, which may be behind
(`Held`); while it is not, there is room for another burst now (`Dropped`).
An expiry leads from the first to the second because the clock of a bucket is at
most `Lag` ahead of its `lastSeen` and the TTL is long enough to fill it
(`ClocksOK`, `ExpiredIsFull`); an eviction and a clock that is set back
are paid for by their terms in the bound. The assumption
`Rate * visitorTTL >= capacity + 2 * Rate * Lag` is where a TTL too short would
show: a clean-up would then hand out bursts.

That idle keys go rests on when the next clean-up is due: a TTL from now at the
latest, and two TTLs after the last use of any key that is there (`CleanupsOK`),
for which a wait must not exceed the TTL (`LagFits`). The refinement
needs `Roomy`: `Lag = 0`, and no more keys than `maxVisitors`, which is what keeps
`deleteOldest` from running. Then a reading is the clock itself, `advance` gains the
rate with every tick (`AdvanceByOne`), and a visitor that is dropped is one whose
bucket was full. The bound in every window and the denials that are justified are
instances of `TokenBucketProofs`.

For the tab and the middleware around the API the invariant says of each request
what its goroutine and its chain owe each other: one that waits has no line yet,
and what its chain has answered was counted; one that was answered has one line
(`RequestOK`); and from the time CORS has run the connection has the headers of the
origin, and the buffer has none (`OriginWritten`). `AnsweredOnce` is the step form of it:
the chain that is left behind after a 504 moves nothing that was sent. Of the tab it
says that one sign-in is under way at the most, from a tab that holds no token
(`LoginOK`), that the cache has no profile but that of the token it holds
(`OwnProfileOnly`), and that a refused token was issued and is not the one it
holds (`RefusedOK`): a late login or a late profile would otherwise bring a session
back. With the last two the two properties of the tab are immediate; the work is
in the answers that arrive after a sign-out, a reload or another login.

`Lifecycle`'s invariant says which clients are there at each `pc`, that none is
closed and still pointed to while the process serves, and that the clean-up was
given all that are open (`OpenOK`),
that what was wired is there and checked (`WiredOK`), that nobody waits before
the server listens nor after a drain that has ended in time (`WaitedOK`), and that
a timeout is reported (`ResultOK`).

Every invariant and every action property of the passing runs is a theorem, and
so are the refinements. Only model-checked: liveness (`CallsReturn`,
`EveryRequestAnswered`, `Exits`), since fairness needs ENABLED, which is beyond the
prover, and the two findings, which are counterexamples. The refinements that are
proved are of safety specifications.

## Findings

* GET /me answers 404 when the user of a valid access token is gone (users in
  memory and a restart); the doc of the handler lists no 404. The service keeps
  access tokens valid until they expire whatever happens to the user.
* `AuthEndpointIPKey` is documented as the limiter of login, register and
  refresh; it is installed on the group and so limits GET /me too.

## Assumptions

* In `Identity` the effect of a remote call happens before the call returns. A
  COMMIT that takes effect after its caller has given up is in `PostgresStore`; a
  command of redis that does, only when it is sent again.
* Postgres keeps READ COMMITTED, row locks and the wait on a unique index as its
  manual has them, and finds in the end that a client is gone.
* The browser keeps the rules of cross-origin requests, and react-query drops the
  answer of a query that was removed.
* All processes and stores agree on the second; the clock of redis does not
  step back. Redis and postgres do not lose what they have acknowledged.
* 128 random bits do not repeat; signatures cannot be forged.
* Closing a pgx pool refuses new connections at once and waits for those in use.
* A call waits `Lag` at the most for the mutex of the local limiter: critical
  sections are short, and the TTL that `app.go` sets is ten minutes, where every
  burst it sets fills in seconds.
* The TTLs are at least a second (the validation of the configuration requires
  them to be positive; the files under `configs/` have minutes and days).

## Not modelled

Envelopes, pagination and the validators (pure functions; the API uses neither of
the last two), the deployment files, the load test, generated docs and the
migrations, whose constraints are in the postgres actions. Inside the modelled
parts: the reader that bounds a body without a length (a handler that reads too much
of it fails to bind), passwords and addresses (a choice between success and failure), which
roles a user has, JSON, the wording of answers, the decoder of the configuration,
spans and histograms, request ids and security headers, the forms of the web app,
and what has no caller: `TokenStore.Exists`, `RequirePermissions`, the client's
`register` and `refresh`, and `Create` and `Delete` of postgres, which the wiring
bypasses. `HttpShell` stands for gin-contrib/timeout by its contract: what a
handler that is left behind does to the pooled context of gin is the library's.

## Plan

1. `Identity` over `PostgresStore` in place of its atomic steps, in one
   composition, once its instances fit.
2. Pure operators: `pagination.Normalize`, if the API comes to use it.
