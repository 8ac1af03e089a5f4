# tao-gateway: specifications, model checking and proofs

tao-gateway is an asynchronous Python service (FastAPI, SQLAlchemy on
PostgreSQL, redis.asyncio, Bittensor) that sells access to Bittensor subnets:
it authenticates API keys, limits their rate, chooses a miner, forwards the
request, streams the answer, scores the miner and records the usage. A React
dashboard manages keys and shows usage. One process runs one event loop, so
two handlers interleave only at `await`s; they share the process's memory,
PostgreSQL (READ COMMITTED) and Redis with each other and with background tasks.

This directory holds TLA+ specifications of the parts whose correctness depends
on such interleavings, on failures and on time, the TLC configurations that
check them, and proofs that the TLA+ proof system checks. Source paths below
are relative to the repository; `gateway/` is `src/gateway/` of the map in
`PROJECT.json`, which names the lines that every definition stands for.

## 1. Inventory

| component | state | operations | what makes it correct |
|---|---|---|---|
| API-key authentication, `middleware/auth.py`, `services/api_key_service.py` | `api_keys` rows; Redis `api_key:<prefix>` (60 s) and `api_key_revoked:<prefix>` (120 s) | tombstone check, cache lookup, SELECT and argon2, cache fill; create, revoke, rotate, update | a revoked key is refused at once, at the latest after one cache life; a valid one never; a replaced `debug_mode` is not used for long |
| Key creation and limits, `services/api_key_service.py` | `api_keys` rows and their locks | lock rows, count, name, insert; rotate; revoke | at most `MAX_KEYS_PER_ORG` active keys, an automatic name is new |
| Rate limiter, `scripts/rate_limit.lua`, `middleware/rate_limit.py` | one counter with an expiry per window, key and subnet | the atomic script, the answer made of its reply | limits hold over sliding periods, counters expire, the wait a denied client is told is right to within whole seconds |
| Redis client, `core/redis.py` | the client, a lock, the breaker's time | connect under the lock, reset, use | no client replaced without being closed, a dead Redis is not hammered, recovery |
| Request lifecycle, `subnets/base.py`, `api/chat.py`, `api/_subnet_handler.py`, `middleware/usage.py` | locals of nested generators; scorer; usage tasks | query, stream, poll for disconnects, error events, record usage | one well-formed answer, at most one observation and one record, fair scores, no record of a served request lost but by a logged failure or a dropped task |
| Metagraph sync and selection, `routing/metagraph_sync.py`, `routing/selector.py` | metagraph, generation, times and failure count per subnet; thread pool; cached list of miners | round of calls, timeout, late result, selection, startup check, stop | never older, never silently stale, rounds go on |
| Scores, `routing/scorer.py`, `tasks/score_flush.py` | score and counters per miner; table `miner_scores` | observe, snapshot and reset, upsert, delete old, final flush | nothing counted twice, nothing lost without a failure, newest score persists |
| Usage, `middleware/usage.py`, `tasks/usage_aggregation.py`, `services/usage_service.py` | `usage_records`, `daily_usage_summaries` | record, aggregate yesterday, delete old, read usage and quota | summaries whole, kept, nothing shown twice |
| Dashboard sessions, `services/auth_service.py`, `api/auth.py`, `dashboard/src/hooks/useAuth.ts` | `refresh_tokens` rows and locks, two cookies | login, refresh (two transactions and a cleanup), logout | a token rotates once, nobody is signed out by others, logout ends the session |
| Auth rate limiter, `core/rate_limit.py`, `api/auth.py` | Redis window, in-memory fallback of bounded size | count, fall back, evict | attempts bounded through outages, only the oldest forgotten, nobody shut out |
| Lifespan, `main.py` | everything above | start and stop of tasks and clients in order | no managed loop without its resources, none left behind, a shutdown loses no score but by a failure |
| Health cache, `api/health.py` | answer of up to five seconds ago | check | bounded staleness |
| Debug-log cleanup, `tasks/debug_cleanup.py` | `debug_logs` | DELETE per hour | old content goes |
| Admin, dashboard and usage endpoints, adapters, headers, logging, schemas | none of their own | queries, formatting | – |

How they meet: `get_current_api_key` is a dependency of every completion
endpoint, followed by `check_rate_limit`; both get the Redis client from
`get_redis`, the first fails open (database), the second fails closed (503).
The handler calls `MinerSelector.select_miner`, which reads what
`MetagraphManager` holds and asks `MinerScorer` for scores; the adapter
gives the scorer one observation; the handler leaves a `record_usage` task on
the loop. `ScoreFlushTask` and `UsageAggregationTask` move scores and records to
their tables, and the quota query reads summaries and records together.

What is hard: decisions taken on state read before an `await` (cache fills, key
counts, final flushes); two stores that are not updated together (row and
cache, counters and commit, token rotation in two transactions); blocking calls
that outlive the `await` that gave them up; generators closed wherever a client
leaves; periodic work that sleeps after it works; midnight. Each hazard is in
`PROJECT.json` at the line where it bites, with the properties that watch it.

## 2. Modules

Each module models a component whole: an action is what a handler does between
two awaits, and alternatives in it are the outcomes of what it awaited.

| module | models | kept | abstracted |
|---|---|---|---|
| `KeyAuthority` | what authentication promises (abstract) | rows, an answer, the age of a revocation | no cache, no interleaving |
| `ApiKeyAuth` | authentication and owners | every await of `get_current_api_key` and of revoke, rotate, update; every Redis command may fail with or without effect; row locks; expiry | a token is a key and whether its secret is right; `try_rehash`, undecodable cache values |
| `KeyQuota` | create, rotate, revoke in one organization | snapshots per statement, `FOR UPDATE` with recheck, commit and rollback | a name, automatic or given by the caller, is the N of its "Key N", 0 for any other text |
| `RateLimiter` | Lua script, `check_rate_limit` | order of windows, denial, lost replies, the clock read before and after the call and cut to whole seconds, TTLs rounded to whole seconds | other keys and subnets (other Redis keys) |
| `RedisClient` | `core/redis.py` | double check, lock, ping, breaker, reset, cancellation, the client each coroutine keeps over its awaits, connections broken by an outage, taken by a close or used up | what a command does |
| `RequestLifecycle` | `execute`, `execute_stream`, both handlers | every `except` and `finally`, each yield and await where a generator can be closed, usage tasks | payloads; an SSE item is its kind |
| `MetagraphSync` | manager, selector's cache, lifespan's check | thread pool, queue, timeouts, late results dropped by generation, stop | the metagraph is its version; weights of the choice |
| `ScoreFlush` | scorer and flush task | snapshot-and-reset, flush, cancellation and second flush at a stop, crash, retention | a score is the number of its last observation |
| `DebugCleanup` | `DebugLogCleanupTask` and its table | the sleep before the first run, cutoff before the session, failed runs, the last run of a stop, crash, downtime | one row, followed again and again; the cascade from `usage_records` |
| `Lifespan` | `lifespan` around the two modules above | every check of a startup, start and stop of each task and client in order, each of which may fail, `record_usage` tasks that nothing waits for, the end of the process, kills | `enable_bittensor` off; the inner work of aggregation and manager |
| `AuthRateLimit` | `check_rate_limit` of `core/rate_limit.py` | the script, failures before and after it ran, the await of `reset_redis`, the store with its eviction, restarts | other clients' keys in Redis |
| `UsageRollup` | records, aggregation, the two queries | dates given before commits, phases of a run, repeated runs, retention, two-statement reads | one key and subnet; percentiles, filters, months |
| `SessionTokens` | refresh tokens and cookies | `FOR UPDATE`, both transactions, cleanup with its lock waits and deadlocks, unlocked logout, cookie path | passwords, JWTs, the access cookie |
| `ApiKeyAuthProofs`, `RedisProofs`, `KeyQuotaProofs`, `LifespanProofs`, `SessionTokensProofs`, `MetagraphSyncProofs`, `RequestLifecycleProofs`, `UsageRollupProofs` | – | theorems | – |
| `MC...` | TLC instances | symmetry sets, sequences and functions as constant values | – |

Reading them beside the code: variables are named for what the code keeps (a
cache entry, a row, a lock, a local), `pc` names the await a coroutine is at,
and variables marked *history* are read by properties only. Definitions called
"Mutant of ..." are used by no specification: each is a plausible bug in the
definition after it, with which the property listed in `PROJECT.json` fails.

Composition: `ApiKeyAuth` instantiates `KeyAuthority` under the refinement
mapping `ask` (the phase of a request without its await). The selector and the
startup check are composed with the manager in `MetagraphSync`, the task, the
writers and the readers in `UsageRollup`, cookie, client and service in
`SessionTokens`. `Lifespan` composes the tasks: it EXTENDS `ScoreFlush`, instantiates
`DebugCleanup` and joins their `Start`, `Stop` and `Crash` to the steps of `main.py` that start,
stop or kill them, while their other actions run in between; `LifespanProofs` shows that
it is still `ScoreFlush` (`RunsTheFlush`). Where one component only sees whether another works (Redis up
or not, a session that fails), that is a choice in the using module.

## 3. Runs

All runs finish in minutes with two workers. `CHECK_DEADLOCK FALSE` is
given where the system does stop (a request that has ended, a process that is
down, bounds used up).

**auth** – `ApiKeyAuth`, two keys (so that a rotation has somewhere to
go), of which the owners' operations choose one (`Managed`; the theorems hold for any choice); one request slot used again and again, two
owners that revoke, rotate and switch `debug_mode`. A unit of time is 60 s: entry 1 and
tombstone 2 as in the code, stall up to 1.
`RevocationImmediate`: after a reported revocation whose tombstone was set no
request that begins later is accepted, unless its own check of the tombstone
raises; this is what the ratio of the two TTLs is for. `ImplementsAuthority`:
whatever fails, the code implements `KeyAuthority`. `StaleDebugBounded`: an update sets no
tombstone, so a fill under way brings the old mode back; it is still used for at most
one entry's life plus the delay of the fill.

The type invariants of `ApiKeyAuth`, `RedisClient`, `RateLimiter`, `KeyQuota`, `ScoreFlush`, `DebugCleanup`,
`Lifespan` and `SessionTokens` are proved (section 4) and not repeated in a run.

**limiter** – three windows in the code's order of lengths and limits, in thirds of a second (`Second = 3`), so
that the halves at which `TTL` rounds and the fractions that `int(time.time())` cuts off are there.
`CountersExpire` and `NeverLockedOut` (no call, failed call or
hammering client makes a counter immortal), `SlidingBound` (a fixed window lets
through at most twice its limit less one in any period of its length),
`RetryAccurate`: the wait a denied client is told is within a second and a half of what its
exhausted windows have left, half of it due to `TTL` and one to the two readings of the clock; when the
script is delayed the wait may be too short by that delay as well. Neither bound says that a client that
waits as told is let in: it may come up to a second and a half early. `Horizon`,
how far back the history of admissions reaches, is the longest window; a delay is at most 2 thirds
before the script and 2 after it.

**quota** – limit 3, five rows, two sessions, with and without a key that stays
(`pinned`); callers may give "Key 2" themselves (`Given`), which the automatic names then meet. With a key that
stays, creations queue on its row lock, the limit holds exactly and an automatic number is new:
`NamesUnique` allows two active keys of one number only where a caller asked for one that a row had
(`again`, which a rotation hands on). Without one, nothing is locked and the limit is
passed by at most the sessions less one. Five rows are enough to go past the limit by one
and rotate.

**redis** – three coroutines (one connecting, two queued), cooldown 2, a pool
of 2, so that three commands exhaust it. Each coroutine keeps the client it got (`handle`) while it issues any
number of commands. `SingleLiveClient`: a client somebody holds is the cached one, or
it was closed after its coroutine got it; the old one lives on beside the new one for as long as it is held, and this is
the only way to have two. `BurstBounded` (the breaker is not tested again under the
lock: a coroutine already queued pings the dead Redis once, no more), `Recovers`: once Redis is up for good the
process gets a client time and again, and keeps it unless commands go on failing: each reset takes the
connections of other commands, whose coroutines then reset the next client, and so does a pool that is used up.

**request** – one request, JSON or streamed, up to four chunks, enough
for the first-chunk cases, the poll between chunks and a fault after each.
Requests share no state in this module, so more would
only multiply the states. `AtMostOnce`, `WellFormedAnswer`,
`ScoresFair`, `Ends`, and `ServedIsBilled`: a client that was served has its miner scored as good and one
`record_usage` task of status 200, whose row is lost only when the write failed, which is logged, or when the task was
dropped: nothing but the event loop holds it, and the end of the process cancels it (`DropTask`). That is the one loss that leaves no
trace.

**sync** – two subnets, of which the calls of one may hang for good, on the code's two threads;
the code's ratio 30 : 120 : 300 s of timeout, interval and staleness as 1 : 4 : 10; calls that return
take up to 2 ticks (so they can be late); two chain versions. `NeverOlder`,
`RoutedOnPresent`, `RoundsGoOn`, and `NoSilentStaleness`: a process that serves has a
metagraph of every subnet, and one older than the threshold has its failures counted.

**usage** – days of 2 ticks, three days, an interval of a day, retention of 2
days; a run takes at most 1 tick and a record at most 1 to be committed
(assumptions about the environment). `SummaryWhole`, `SummaryKept`, `NeverOver`.

**lifespan** – `Lifespan` with `ScoreFlush` and `DebugCleanup`: one miner (miners do not meet
but in a batch, and the theorem holds for any number), three observations, so that
one comes before, in and after a flush; three days with retention 2; two restarts, each after
a shutdown, a failed startup or a kill; a log interval of 1 and a retention of 2, rows committed
up to 1 after their `created_at`, 2 of delay. `AllCounted`, `Persisted`
(the newest score gets into the table, by the last flush of a shutdown if need be), `LogsGo`
(content goes one interval after its retention, plus the delay of failures and downtime;
without the run at each stop a process restarted often would never delete any) and
`Orderly`: the managed loops use the database only while the engine is there and are gone when lifespan
has ended. The `record_usage` tasks, of which there are up to 2 at a time (`MaxRecords`), are not managed: lifespan waits for none, so they
go on after the engine has been disposed of, on connections it opens anew, and after lifespan, until the process
ends (`Exit`); the property says that this is the only time they are alive without the engine.

**auth_rate** – `AuthRateLimit`, four clients and a store of two, so that eviction is reached with windows
that are over and windows that are not; limit 2, window 2, one call per client in
`reset_redis`. `AttemptsBounded` is tight: through outages a client gets twice
what one fixed window lets through around its end, `2 * (2 * AuthLimit - 1)`, unless the
store forgets it. `ForgetsOldest`: it does so only when as many others began no earlier
as the cap. `NeverShutOut`: attempts, refused ones too, do not put off the end of a window.
`AuthTypeOK` carries the size of the store: the cap and one.

**sessions** – one browser, two requests in flight, three tokens. The client is
one that uses all endpoints and sends its refresh cookie to all of them, which
makes every interleaving of rotations, cleanup and logout possible. `OverStaysOver`: a session
that has ended (no live token, none on the way) never has a live token again.
`OneLivePerLogin` needs three tokens to fail (two rotations of one),
two logins at once are enough for the deadlock of cleanups that `Abort` resolves.
When the tokens are used up, a rotation ends as one whose second transaction failed.

**request_disconnect** and **session_logout** are expected to fail; see section 6.

### Fairness

- `RateLimiter`: time passes (Redis keeps it) and a call to Redis returns or raises.
- `RedisClient`: weak fairness of time; strong fairness of getting a client, of
  taking the lock (`asyncio.Lock` wakes its waiters in order), of the ping's and
  its success while Redis is up, and weak fairness of each coroutine's next step: requests keep coming,
  cancellation does not hit every one, and a command and a close return or raise.
- `RequestLifecycle`: every await ends (Dendrite has a timeout, sends and
  database calls return or raise).
- `MetagraphSync`: time, the event loop, threads; not the calls of hanging subnets.
- `ScoreFlush` and `Lifespan`: the loop wakes and its transaction proceeds; commits, which can
  always fail instead, do not fail for ever. Startups, shutdowns and kills get no fairness.
- `AuthRateLimit`: time passes; clients, Redis and restarts do as they please.
- `SessionTokens`: strong fairness of a request's next statement, as PostgreSQL
  grants locks in turn; none of failures. The deadlock detector is fair as it
  is part of the database.
- `ApiKeyAuth`, `KeyQuota` and `UsageRollup` state safety only.

## 4. Proofs

Proved by TLAPS for all values of the constants that satisfy the named assumptions of the
modules (`ConstantsOK` and those with a prefix), and from these alone where no other is named. Every
safety property that a passing run checks is proved.

An inductive invariant is given for each, as a conjunction of named parts; a proof has one
step per action and below it one per part that the action can disturb. What several steps need of
the state is a lemma about operators of the locals of one request, coroutine or row.

Authentication (`ApiKeyAuthProofs`), for any keys, requests, owners and times:

- `TypeCorrect`: `Spec => []TypeOK`.
- `Refinement`: `Spec => ImplementsAuthority`, the whole refinement. `KeyAuthority` has
  no fairness, so the initial states and the steps are all there is to it. The abstract `Accept` step of a revoked key needs
  `revokedFor <= Grace`, which no variable alone gives. `IInv` supplies it:
  - `RedisInv`: Redis holds nothing of absent keys and no tombstone of an active one;
  - `CacheInv`: for a revoked key, the age of the revocation plus what its
    entry has left to live is at most `Grace = CacheTTL + MaxStall`;
  - `FillInv`: a request about to write the cache read its row while it was active,
    and the row was revoked no longer ago than the request has been stalled;
    this is what makes `CacheInv` survive a late fill;
  - `AdminInv`: a handler past its SELECT has a row, a rotation holds its lock and a
    handler past its commit has revoked the key, so tombstones hit revoked keys only.
- `Revocation`: `Spec => []RevocationImmediate` if `TombstoneTTL >= CacheTTL +
  MaxStall`. `TombstoneInv`: a tombstone that was set is there until no entry
  can be; `LateInv`: a late request past its check finds no entry and no active row. The
  assertion of `api_key_service.py:28` is only `TombstoneTTL >= CacheTTL`; the 60 s
  between the two constants are what a fill may be delayed by.
- `DebugBounded`: `Spec => StaleDebugBounded`, an action property, from `StaleInv`: an
  entry whose `debug_mode` is not the row's was read before the change, so the age of the
  change plus what the entry has left is at most `Grace`, and the same of a fill under way
  with its stall in place of the rest.

Redis client (`RedisProofs`), for any number of coroutines, cooldown and pool:

- `OneClient`: `Spec => []SingleLiveClient` and `ClientTypes`, from `LockInv`: whoever pings or
  closes holds the lock; nobody pings while there is a client, and whoever closes has one to close. So a
  client is forgotten only by `Closed`, which makes all who hold it late.
- `BurstBound`: `Spec => []BurstBounded`, from `BurstInv`: while the breaker is open the pings made
  since it opened and the coroutines that still wait for the lock are together fewer than the coroutines.

`RedisProofs` extends the two limiters too, whose calls go through this client and whose proofs share lemmas on
sums; this is why names in `RateLimiter` and `AuthRateLimit` have a prefix (`LimiterSpec`, `AuthSpec`).

Rate limits (`RateLimiter`, in `RedisProofs`), for any windows, limits and lengths:

- `NoImmortalCounter`: `LimiterSpec => []CountersExpire`, an inductive invariant as it stands
  with the types of the variables it reads.
- `LimiterTypes`: `LimiterSpec => []LimiterTypeOK`; no negative `retry_after`.
- `RetryHolds`: `LimiterSpec => []RetryAccurate`. `RepliesRounded`: a reply's TTLs are what its counters had left, rounded.
  The answer takes the exhausted window whose rounded TTL is the longest, less the whole seconds the clock has advanced by; the
  rest is the arithmetic of the two conversions, for any number of ticks in a second.
- `SlidingBounded`: `LimiterSpec => []SlidingBound`. `SlideInv` says of each counter (`Within`): since the moment
  after its creation fewer were let through than it has counted, and what the window's length
  holds from before is less than the limit.

Auth endpoints (`AuthRateLimit`, in `RedisProofs`), for any clients, limit, window and cap:

- `AuthLimitTypes`: `AuthSpec => []AuthTypeOK`, with the size of the store: an eviction leaves
  no more than the cap, and one client is added.
- `OldestForgotten`: `AuthSpec => ForgetsOldest`, from the types and from how `_evict` chooses what stays (`Kept`).
- `AttemptsHeld`: `AuthSpec => []AttemptsBounded`. `AttemptsInv`: what was let through is the sum of two
  histories (`Splits`), Redis's and the store's, each of which is `Within` its own counter. No variable holds them: a
  step adds to the one that decided, and an eviction or restart empties both.

Both rest on sums over the last units of time. An induction principle with the formula as a
parameter cannot be used with these provers; the lemmas use sets in its place: a set of numbers that
is not empty has a least one (`Least`, from the library's `NatLessThanWellFounded` and `WFMin`), so one
that holds 0 and the successor of each of its members holds every number (`Inductive`). `SumsExist` to `SumsSame` say
that the sums exist, are unique, and what a tick and one more request make of them.

Keys (`KeyQuotaProofs`), for any rows, sessions, kinds of operations and limit:

- `QuotaHolds`: `Spec => []LimitHolds`, `NumbersUnique`: `Spec => []NamesUnique` and `QuotaTypes`.
  `LockInv`: a creation past its lock holds every row that stays, so with such a row
  there is one at a time (`Alone`), and a rotation holds an active row.
  `LimitInv`: active keys and creations that have counted are together at most the limit and
  the excess; with no row that stays all sessions may have counted the same keys. `NameInv`: an automatic number about to be
  inserted is higher than all that rows have, whoever gave them theirs.

Sessions (`SessionTokensProofs`), for any tokens, requests and browsers, with logins, cleanups, expiry, aborted
transactions and failures at any point:

- `OneToken`: `Spec => []OneLivePerLogin`. `LockInv`: a rotation that has passed its checks holds the lock of its
  row, which stays alive. `RotateInv`: between its two transactions its login has no live token and
  no other rotation. Without the lock neither is inductive.
- `NobodySignedOut`: `Spec => []CookieAlive`. `OwnInv`: a cookie is in one browser and only that one sent
  requests with it; `GrantInv`: a token on its way back is known to nobody else, so no other
  rotation, cleanup or logout finds it.
- `EndedStaysEnded`: `Spec => OverStaysOver`, an action property: a step that makes a token alive is a login's
  or that of a rotation under way. `SessionTypes`: `Spec => []TypeOK`.

Metagraph synchronization (`MetagraphSyncProofs`), for any subnets, threads, order, timeouts and call times:

- `NeverBack`: `Spec => NeverOlder`. `CallInv`: a call whose result is awaited is the only one of its subnet and
  will return nothing older than what is held; `QueueInv`: what waits for a thread is awaited, and not running.
- `StalenessShows`: `Spec => []NoSilentStaleness` if `Staleness >= Interval + 2 * Timeout`; the code has 300 s
  for 120 s and twice 30 s. `AgeInv`: the age of a metagraph whose last call did not fail is at most what
  the phase of the round allows. `PhaseInv`: a process that serves holds every metagraph.
- `RoutedRight`: `Spec => []RoutedOnPresent`; a cached list of the present generation was built from what is
  held (`RouteInv`). `SyncTypes`: `Spec => []TypeOK`; no round outlasts its timeouts.

Request lifecycle (`RequestLifecycleProofs`), for any requests and number of chunks. `LifeInv` says of each place a
request can be suspended at, and so of each place a generator can be closed or raise at:

- how many records and tasks there are and whether one was lost (`Counted`), what has been observed and what the miner did
  (`Scored`), what is still to be sent (`Queued`) and what a client that is there has got (`Shape`).
- Hence `OnceOnly` (`AtMostOnce`), `Fair` (`ScoresFair`), `Served` (`ServedIsBilled`), `AnswersWellFormed`
  (`WellFormedAnswer`) and `LifeTypes` (`TypeOK`), each `Spec => []...`. What a client has got is a prefix of a whole
  answer; the lemmas on `Texts`, the chunks so far, and on prefixes carry that over each send.

Usage (`UsageRollupProofs`), for any days, length of a day, interval and delays:

- `NothingTwice`: `Spec => []NeverOver`. `CountedInv`: a summary counts records of its own day only;
  `ReaderInv`: what a reader has added up so far is at most the records there are, of which usage
  takes only those before the day it was asked on.
- `SummariesWhole`: `Spec => []SummaryWhole`, and `SummariesKept`: `Spec => SummaryKept`, if `Retention >= 2`. The
  invariant (`RollInv`) says that no cleanup before a run has deleted records of its day (`RunInv`) and none is dated to it any
  more but those in flight (`ClosedInv`): what is read covers the day and the summary it replaces (`ReadInv`).
  With one day of retention both fail; section 6 says how.
- `RollupTypes`: `Spec => []TypeOK`.

Tasks and lifespan (`LifespanProofs`), for any miners, bounds, retentions and intervals:

- `EveryObservation`: `Spec => []AllCounted`. `FlushInv`: a batch is held only inside a
  flush and nothing is left to count in memory once the last one has begun; `FlushedAdds` and
  `CutOffAdds`: however a transaction ends, a row has grown by its batch or its miner is hurt.
- `RunsTheFlush`: `LifespanSpec => Init /\ [][Next]_vars` of `ScoreFlush`: each step of the
  lifespan is one of the task's or leaves it alone. Hence `LifespanCounts`: `AllCounted` of the lifespan.
- `OrderlyAlways`: `LifespanSpec => []Orderly`, from `OrderInv`: at which steps
  each loop may be alive, all of them before the engine is disposed of, and at which steps a request's task may be.
- `ContentGoes`: `LifespanSpec => []LogsGo`, from `LogInv`: what is left to sleep bounds the age a
  row may have, a run that leaves a row found it young enough to last another interval, and
  nothing past its retention is left by a process that is down, but for the delay counted.
- `LifespanTypes`: `LifespanSpec => []LifespanTypeOK`.

Only model-checked: liveness (`Ends`, `Recovers`, `RoundsGoOn`, `Persisted`, `Answered`,
`NeverLockedOut`, `NeverShutOut`), which needs fairness and ENABLED and is out of the prover's
reach. The two properties of section 6 that the code violates have no theorem.

## 5. Bounds and assumptions

- `MaxStall` (ApiKeyAuth): longest time from a request's SELECT to its cache SET.
  The code sets no limit; the properties say how their bounds depend on it.
- `Second`, `MaxLag` (RateLimiter): ticks in a second, and the delay between the clock and the script and between the
  script and the answer. The wall clock and that of Redis run at one rate, from any offset.
- `Pool` (RedisClient) is `redis_max_connections`; the model's coroutines stand for those whose commands are under way.
- Whatever has the TTL of minutes elsewhere (cache entries, tombstones, the windows of `AuthRateLimit`) lives a whole number of units.
- `RunTime`, `Lag` (UsageRollup), `MaxCall` (MetagraphSync): as above, environment.
- `Lag` (DebugCleanup): from the start of a writer's transaction, which gives `created_at`, to its
  commit; at most the retention. `MaxLate` bounds the delay by failures in the model; a run
  that fails adds an interval to it.
- `Managed` (ApiKeyAuth): the keys owners operate on, to keep the run small; the key that a rotation
  creates is used by requests all the same.
- `MaxWaiting` (AuthRateLimit): attempts of a client inside `reset_redis`; the decision itself is one
  step, so more of them reach no new order of decisions.
- `MaxChunks`, `MaxHead`, `MaxTime`, `MaxSeen`, `MaxDays`, `Restarts`, `MaxTokens`, `MaxRecords`, `Rows`: counters
  of the models only; each is large enough for its module's cycle to
  complete and start again, and every action is taken within them.
- Symmetry is used for keys, requests, owners and rows in the runs without liveness
  properties.

## 6. Findings

1. `request_disconnect` – `subnets/base.py:390` says disconnects are not counted as full
   success. Only a disconnect seen by the poll between two chunks is; one that closes the
   generator at an await or a yield leaves the flags unset and the `finally` scores the
   miner with full success for part of an answer.
2. `session_logout` – `api/auth.py:199` says logout revokes the refresh token. The refresh
   cookie has the path `/auth/refresh`, so a browser does not send it to `/auth/logout`,
   and the token stays good.

Other behaviour a maintainer should know, seen while modelling and within what the
properties above allow:

- A fill delayed past the tombstone's life, a lost tombstone command or a failed
  EXISTS lets a revoked key through for up to one entry's life (`KeyAuthority` says how long).
- `update_api_key` deletes the entry only; a fill under way restores the old `debug_mode`.
- The first keys of an organization are not serialized by `FOR UPDATE`: there is no row.
- The breaker of `get_redis` is not tested again once the lock is held.
- `Retry-After` is computed in whole seconds and from the clock before the script: it may be up to a second and a half too
  short, behind a slow Redis by the delay as well, and when it comes out as 0 the header is dropped.
- Nothing refuses a name: a key named "Key 2" by hand, twice or beside the automatic one, is created, and a
  later automatic number is counted on from it.
- `reset_redis` closes whatever client there is. Commands under way on it raise with Redis healthy, and those coroutines reset
  in their turn the client made since; while new ones keep coming this need not end (`Recovers`), and a used-up
  pool starts it with no outage at all. A coroutine that kept the closed client over an await (`middleware/auth.py:134`) opens its pool again, beside the new
  one, and nobody closes it a second time.
- A `record_usage` task is referenced by nothing and awaited by nobody: it may be dropped at the end of the process with its
  row unwritten, and it may run after `engine.dispose`.
- A stream whose generators are closed before their last lines leaves no usage record; a
  JSON request cancelled before its record likewise.
- Two hanging chain calls occupy the pool of two threads: other subnets then time out
  unrun. This shows in their failure counts (`NoSilentStaleness`).
- With a retention of one day a run repeated during the day finds only the part of
  yesterday's records the cleanup has kept, and replaces the whole summary with it:
  `SummaryWhole` and `SummaryKept` are checked from two days on.
- Aggregation sleeps its interval after each run and takes only yesterday: drift or a
  day of downtime leaves a day without a summary.
- At midnight the quota may count the day it was asked on twice (`NeverOver`), and in the
  morning, before aggregation, it counts yesterday's requests not at all.
- A restarted process scores miners from scratch; `miner_scores` is never read back.
- A logout that meets a rotation revokes the old token and leaves the new one.
- While Redis comes and goes, an auth endpoint lets through twice what either limiter does; a
  restart of the process empties the fallback store, and the store holds one entry more than its cap.
- A debug log outlives its retention by up to one interval, and by each run that fails.
- The dashboard never calls `/auth/refresh`: its session ends with the access cookie.

## 7. Not modelled

Endpoints and services that only read (admin, dashboard, usage filters), payload formats
of the subnet adapters, headers, logging and redaction, password hashing, JWTs, schemas and
migrations, React components: no state whose changes interleave. The weights in
miner selection and the arithmetic of scores are data here; the properties are about which
list and which observations are used.

The health endpoint (`api/health.py`) keeps a copy of its last healthy answer and gives it for
five seconds from the time its request came in. What it reports are the states of `RedisClient` and
`MetagraphSync`; a property of the copy alone would restate the comparison of two times. Two checks at once may
bring a healthy answer back after a 503, never for longer than those five seconds.

With `enable_bittensor` off the lifespan skips four of its steps. Redis keeps its data in these models:
a Redis that loses it gives every limit a new window and drops tombstones. More than one worker
process is not modelled; the code starts one, and the fallback store and the scores are per process.

## 8. Plan

Done, in this order: `KeyAuthority`, `ApiKeyAuth` and its proofs, `RateLimiter` and its first proof, `RedisClient`,
`KeyQuota`, `RequestLifecycle`, `MetagraphSync`, `UsageRollup`, `ScoreFlush`, `SessionTokens`; then
`AuthRateLimit`, `DebugCleanup`, `Lifespan` and the proofs of `RedisClient`, `KeyQuota`, `ScoreFlush`,
`Lifespan` and part of `RateLimiter`; then the proofs of `SessionTokens`, `MetagraphSync`, `RequestLifecycle`,
`UsageRollup`, `AuthRateLimit` and the rest of `RateLimiter`. Next:

1. An abstract specification of a session (a login that is alive until it ends, once), refined by
   `SessionTokens`; `OneLivePerLogin` and `OverStaysOver` are what its proof needs.
2. An abstract limiter of one counter per client, refined by `RateLimiter` for each window.
3. The quota query over a rolled-up month: how much it may miss in the morning before aggregation.
