# elysia-nazli: TLA+ models and proofs

elysia-nazli is a rate-limit plugin for Elysia servers.  A request runs through the rules that match
it; each rule hits a store with a key; the store runs a limiting algorithm on the key's state and
says whether the request is over the limit.  This directory holds TLA+ models of that code, TLC runs
that check them, and proofs that TLAPS checks.  Paths below are relative to the repository.

## 1. Inventory

| Component | State | Operations | Interacts with |
| --- | --- | --- | --- |
| Algorithms (`src/core/algorithms.ts`) | none; per key, the record a store keeps: counter and window end, two counters, tokens, arrival time; and a ban | one evaluation per algorithm: old record and hit to answer, new record and expiry | all stores call it |
| Memory store (`src/plugins/memoryStore.ts`) | a Map in insertion order, `nextEvictionSweepAt` | `hit`, `algorithmHit`, `cleanup`, eviction inside a hit | evaluator; registry timer |
| Redis store (`src/plugins/redisStore.ts`, `redisScripts.ts`, `redisClient.ts`) | keys with TTLs in Redis; two flags "Lua works" | Lua scripts; portable command sequences; GET/SETEX of JSON state | evaluators of several processes |
| SQLite store (`src/plugins/sqliteStore.ts`) | one row per key, in columns and JSON; the table's columns | constructor with migration; transactions `hit`, `algorithmHit`; `cleanup`; `close` | evaluators of several processes; restarts |
| Store registry and factory (`src/core/storeRegistry.ts`, `storeFactory.ts`) | cache of instances, timers | `getStore`, timer, `close` | plugin set-up, route macros, `onStop` |
| Decision evaluator (`src/core/decisionEvaluator.ts`) and request evaluation (`src/index.ts`) | per request: rule at hand, decisions, store latency | skip, key, primary hit, timeout, fallback, error policy, verdict | stores; user callbacks |
| Plugin lifecycle (`src/index.ts`, `src/core/responseHeaders.ts`) | `deferredHeaders` per request and limiter | `onRequest`, route macro `beforeHandle`, `onAfterHandle`, `onStop`, fast path | evaluator, registry |
| Rule compilation and matching (`src/core/compileRules.ts`, `ruleMatcher.ts`, `src/utilities.ts`) | none | validation, ordering, path and method matching, strictest decision | plugin set-up |
| Key resolvers (`src/core/keyResolvers.ts`, `ipKeyResolver.ts`, `keyGenerator.ts`) | none | request to key string | evaluator |

What is hard:

- **Stale time.**  `evaluateRequest` reads `Date.now()` once and then awaits skip predicates, key
  resolvers and the stores of earlier rules.  A hit reaches its store with a `now` of the past, and
  two hits may arrive in the opposite order of their `now`.
- **Bans over windows.**  A ban is part of the record and must survive window rollovers, cleanups and
  sweeps.
- **Two copies.**  The memory store's `hit` repeats the fixed window of `algorithms.ts` by hand.
- **Boundaries.**  The millisecond in which a window ends; floors and ceilings of fractions of tokens.
- **Cap.**  A full map evicts at each new key; a throttled sweep prefers expired records only at times.
- **Timeouts that do not cancel.**  A store call goes on after its timer fired: it may be charged later.
- **Partial failure.**  A store may fail before or after it charged; the fallback may be the same store;
  one rule of several may fail.
- **Processes on shared data.**  Redis's portable paths are several commands, interleaved with those of other processes and cut short
  by errors; SQLite rows outlive the process.
- **Restarts and upgrades.**  A database file outlives the process that wrote it: the next may run another algorithm for the same keys,
  find an older table, or be killed between two ALTER TABLEs while another process starts.
- **Several evaluations of one request.**  Each limiter's plugin rules and a route's macro decide about the same request in turn, on stores
  they may share; the fast path repeats that by hand; the application may stop in between.
- **Two ways to one key.**  The Redis store runs a Lua script or, when that fails, plain commands; a script that "failed" may have run,
  or run later, and the two ways read what the other wrote.

What makes each component correct: the algorithms admit no more than their documented rate and tell
clients the truth about `remaining` and `retryAfter`; the memory store respects its cap, evicts the
least recently hit and forgets nothing else that matters; the evaluator charges each store once,
applies the error policy of the failing rule and of no other, fails closed when told to, answers
every request, and shows the strictest decision; a registry shares instances as documented, runs one
timer per store and closes all of them; Redis and SQLite give what the reference algorithm gives.

## 2. Modules

| Module | Models | Notes |
| --- | --- | --- |
| `Algorithms` | `src/core/algorithms.ts` | operators, one per helper and algorithm |
| `MemoryStore` | `src/plugins/memoryStore.ts`, the timer of `storeRegistry.ts`, the clock | extends `Algorithms`; an action per public method |
| `MemoryStoreHistory` | the same, with what callers were told (`admitted`, `promisedBan`) | properties over time |
| `MemoryStoreEviction` | the same, with when keys were last hit (`lastHit`) | properties of the cap |
| `AllowanceMeter` | what token-bucket and gcra promise | abstract; `MemoryStoreHistory` refines it |
| `HeaderDecisions` | `pickHeaderDecision` of `src/utilities.ts` and its use in `src/index.ts` | operators |
| `DecisionEvaluator` | `evaluateDecisions`, `evaluateRequest` | extends `HeaderDecisions`; stores external, seen through their contract |
| `CompileRules` | `src/core/compileRules.ts` | operators: a limiter's rules in order, or its error |
| `StoreRegistry` | `src/core/storeRegistry.ts`, `storeFactory.ts` | operators on one limiter's registry |
| `RequestLifecycle` | the hooks of `src/index.ts`, `responseHeaders.ts`, `ruleMatcher.ts` | composes `CompileRules`, `StoreRegistry` and `HeaderDecisions`: an application from set-up to stop |
| `RedisServer` | the Redis commands in use | external: keys with a value and an expiry |
| `RedisFixedWindow` | `hit` of `src/plugins/redisStore.ts` and `ATOMIC_SCRIPT` | extends `RedisServer`; an action per round trip |
| `RedisState` | `algorithmHit`: gcra, token-bucket and `hitSliding`; `GCRA_SCRIPT` | composes `RedisServer` with `Algorithms` |
| `SqliteStore` | `src/plugins/sqliteStore.ts` | composes processes, a database file and `Algorithms` |
| `MCMemoryCap`, `MCMemoryRates`, `MCDecisions`, `MCRedisFixedWindow`, `MCRedisState`, `MCSqliteStore`, `MCRequestLifecycle` | constants for TLC | the `.cfg` files name their operators |
| `AlgorithmLemmas`, `MemoryStoreProofs`, `RedisFixedWindowProofs`, `RedisStateProofs`, `SqliteStoreProofs`, `HeaderDecisionProofs`, `DecisionEvaluatorProofs`, `RequestLifecycleProofs` | proofs | section 5 |

Operators named `X_Something` with a comment "Bug:" are mutated forms of `X`; no specification uses
them.  They show that each property notices a plausible mistake (PROJECT.json, "mutants").

### Algorithms

A rule is a record `[algorithm, limit, window, cost, ban]`; times are milliseconds.  The code computes
fractions of a token and of a millisecond in doubles.  The model is exact: `tokens` is in units of
1/window of a token, `tat` in units of 1/limit of a millisecond, and every floor and ceiling of the
code is one of the model.  Rounding errors of doubles are therefore outside the model.

### MemoryStore

`map` is the Map without its order; `older` is its insertion order as a set of pairs; `clock` is
`Date.now()`.  `Hit` and `AlgorithmHit` are the two public methods, each with its eviction, as JavaScript runs them
without interruption; `Cleanup` is the timer's callback; `Tick` lets a millisecond pass.  A hit of key
`k` carries any `now` up to `MaxLag[k]` before the clock: this is the abstraction of the awaits before the
hit.  A key belongs to one rule, as the rule's id is part of the key, so the branch for a record of
another algorithm is only modelled by `SameState`.  Lag 0 is the fast path of `src/index.ts`, which
hits right after it reads the clock.

Fixed-window records carry no `expiresAt` in the code; cleanup and sweep take the later of `resetAt` and
`banUntil` instead.  The model stores that value.

### DecisionEvaluator

A request is suspended at each await; `pc` says where.  `idle`, `rule` (at the top of the loop),
`primary` and `fallback` (in `tryStoreHit`), `policy` (in `applyStoreErrorPolicy`), `observe` (in
`emitDecision`), and the ends `exempt` (options.skip), `passed`, `limited` (429) and `failed` (an error of a
user callback).  A store call is in `open` from when it is sent until the store charges it, and from then
in `ledger[store][rule]`, whose order is the order of the counts.  The store may charge it at any time or never, answer, or
fail before or after the charge; a timed-out call stays open.  All requests share a key per rule, and the
window does not end, so a call's count is its place in the ledger.

`onDecision` errors are swallowed (`Respond`); `options.skip`, key resolvers and `onLimit` may throw
(`failed`); `rule.skip` and `onStoreError` functions that throw are the cases "not skipped" and "allow".

### CompileRules, StoreRegistry and RequestLifecycle

An application is a record: the options of its limiters in the order of installation, the routes that have a `rateLimit` option, and the
targets its clients request.  `Install` is one call of `rateLimit()`: compile the rules, build the registry with its
fallback, look up and check a store for each rule; it may throw, and the application then never serves.  `Declare` is the macro of a route.  A request then goes through `OnRequest` or
`FastRequest` of each limiter, `BeforeHandle`, the handler and `Respond` (all the `onAfterHandle` hooks).  `HitRule` is one
turn of the loop of `evaluateDecisions`; requests interleave between any two.  `Stop` and `OnStop` close the registries one limiter after the other,
while requests may still be under way.

`app` is chosen at the start and kept.  `rules`, `registry`, `deferred` and `count` are the compiled rules, the registries, `deferredHeaders` and the counters
of the stores; `evals` and `asked` record what was decided and which rules were hit.
A registry keeps timers and closed stores as sequences, so that a second timer or a second close of a store can be seen.

What is assumed of Elysia, which is no part of the repository: a response of `onRequest` or `beforeHandle` ends the request, and
`onAfterHandle` runs for a handler's response only (`docs/production.md`, "Lifecycle").  The stores are simple here: one client, a window that
does not end, a memory store that always answers, a custom one that answers until it is closed and throws from then on.  How a store call
fails, hangs or is retried is `DecisionEvaluator`'s, as are the callbacks.  The macro belongs to the limiter installed last.

### SqliteStore

`pc[p]` is where a process is: down, at a statement of its constructor (each `ensureColumn` is a check and an ALTER TABLE, two steps), up, or between the SELECT
and the upsert of a hit.  `tx[p]` is what the open transaction read.  SQLite is external: `db.transaction` is deferred, its SELECT fixes a
snapshot, and a write is refused with SQLITE_BUSY if another connection has written since.  Hence a commit makes every other
open transaction stale (`Outdated`), and a stale one can only be rolled back (`Busy`).  `Down` is `close()` or a kill at any step;
`Start` may bring another algorithm, as a new version of the application would.  A file starts empty or as an older
version left it, without the two later columns.

`shadow` is the table if nothing were ever deleted and each hit read the row at its commit; `promised` is the ban clients were told of,
as far as the last writer of the key knows of it: a fixed window reads the columns any algorithm wrote, the others only their own state, so another algorithm that takes a key over starts without a ban.

### RedisFixedWindow and RedisState

All hits are on one logical key, from several store instances (processes).  `pc[h]` names the command hit `h` sends next and
`job[h]` what it has learnt; each action is one round trip: the command runs at the server and its reply is handled.
A script is one step, as Redis runs it.  `EvalAnswers` is a script whose reply arrives; `EvalLost` one whose error is
transient, after which `LateScript` may still run it; `EvalRefused` one whose error `isPermanentLuaFailure` recognises,
which clears `useAtomic` (`useGcraAtomic`) of the instance; `EvalRaises` a Lua error.  `Fail` ends a hit between two commands: its command's
error reaches the caller, or its process stops.  The PTTL after a PEXPIRE only feeds `resetAt` and is part of `ArmExpiry`.

`RedisServer` expires a key in the millisecond after `expires`, as Redis does; processes and server share one
clock, as the code compares no time of one with a time of the other.  A state is the record of `Algorithms`, as JSON keeps it, or
`Number(tat)`, as the script writes it; each path reads the other's format as the code does (`ScriptErrors`,
`Evaluated`).  `tat` is exact in the model, as in `Algorithms`; Lua's `tostring` keeps 14 significant digits.  A script's reply is
always an array, as Redis returns it for both scripts.

`RedisState` picks a rule of `RuleChoices` at the start and keeps it.  A sliding window is six commands on the counters of
two windows (`windowKeys`, by the window's number) and the ban key; a hit may read the previous counter in a later window than it counted itself in.

History variables hold what callers were told and the charges that were made (`promised`, and in `RedisState` `admitted` and `charged`; in `RedisFixedWindow` a hit that was let through keeps in `job` what it was charged), which counter the
last answered hit was charged to (`life`, `answered`), and the state the in-process algorithm would have (`reference`, lost as soon as hits
overlap, come late, fail or take both paths).

## 3. Runs

| Run | What it asks | Bounds | Result |
| --- | --- | --- | --- |
| `memory_cap` | cap, order and victims of eviction, purge of expired records | 3 keys (a ban longer than the window; a shorter window with late hits; a token bucket), cap 2, clock 0..5 | holds |
| `memory_rates` | rates, bans, `remaining`, `retryAfter`, cleanup, the inline copy, refinement of the meter | a key per algorithm (limit 2, window 3, ban 2) and a gcra key without ban, clock 0..6 | holds |
| `late_token_bucket` | the rate of a token bucket with hits one tick late | as above | **violated**, finding 1 |
| `eviction_order` | "expired rows first" | as `memory_cap`, no lag | **violated**, finding 2 |
| `retry_after` | "when to try again" for a sliding window | as above | **violated**, finding 3 |
| `redis_fixed_window` | rate, expiry and ban of a fixed window in Redis, on both paths | 3 hits, 2 instances of which one has the script, limit 1, window 2, ban 3, one EVAL lost or hit stopped, clock 0..3 | holds |
| `redis_algorithms` | rates and bans, agreement with `algorithms.ts`, no hit refused without cause, for gcra, token buckets and sliding windows | 3 hits, 2 instances with the script, rules gcra (limit 1, window 2, ban 3), token-bucket (1, 3), sliding-window (1, 2, with a ban of 2 and without), 2 failures, hits up to 2 late, clock 0..5 | holds |
| `redis_fallback` | transient failures "fall back only for that request" | as `redis_algorithms`, gcra | **violated**, finding 4 |
| `decision_evaluator` | charges, failing closed, order and choice of decisions, liveness | 2 requests, 2 rules, 2 stores; rule 2's store is the fallback | holds |
| `sqlite` | the schema, lost updates, cleanup, bans and waits over restarts | 2 processes, 1 key, 4 algorithms, limit 1, window 2, ban 3, 3 starts, counts up to 3, clock 0..4, a new file or one old row | holds |
| `request_lifecycle` | who counts a request, what its headers say, which stores are shared, timed and closed | 7 applications, 3 interchangeable requests | holds |
| `strictest_shown` | "the strictest relevant decision" of plugin and route rules | one limiter with a global rule and a route option, 2 requests | **violated**, finding 5 |

Why the bounds suffice: two windows and a ban fit in the clock of `memory_rates` with room to spare, so a
window ends during a ban and a ban during a window, and a limit of 2 lets part of the quota be left.
Keys of an uncapped store do not touch one another, so each behaviour of `memory_rates` hits one
key (`focus`).  A cap one below the number of keys makes every hit of the third key evict, and a sweep
interval of two ticks gives evictions with and without a sweep.  Two requests suffice for a shared
quota of 1, and two rules for every combination of a failing and a working store, with the fallback
another store for the first rule and the same store for the second.

Three hits on a Redis key with limit 1 are one more than a race of two, so that a third sees what a race has left behind; two share an
instance, so that one's refused EVAL changes the other's path, and those two are symmetric.  A window shorter than the clock lets
a counter expire and be started again while a hit of the old one is still between two commands, and the ban outlives that window.  These systems stop when all
hits are done and the clock has run out, so their deadlock check is off.

Three starts on one file let both processes start at once on an old table and one of them come back with another algorithm for a key that the other still
counts.  A ban longer than the window, and both within the clock, lets a cleanup meet a row whose window is over and whose ban is not.

Each of the seven applications has a case of its own: a fast path before a limiter whose only rule is a route's (`FastThenRoute`); plugin and route rules
on one memory store (`OneLimiter`); one custom object as default, rule store and fallback (`SharedCustom`); memory stores of
two caps and a fallback (`Capped`); a fallback that cannot count (`Unsupported`); an id used twice (`DuplicateId`); two
limiters that share stores of which one fails to close (`Throwing`).  Three requests are one more than the limits of
1 and 2 that they compete for.  Requests end and applications stop, so the deadlock check is off there and in `sqlite`.

`MaxCount` caps a window's counter (a hit that would exceed it is not taken) and is
above the limit of each rule; `MaxClock` stops the clock.  With the clock stopped cleanup still runs, so
`ExpiredPurged` is not helped by the bound.

Properties worth a word:

- `RateLimited` measures admitted cost in real time, not in the time of hits: a fixed window admits
  at most two limits in any interval shorter than the window less the lag; a sliding window's blend of what was
  admitted stays within the limit; token-bucket and gcra admit the burst and the refill of the interval and the lag.
- `ImplementsMeter`: for keys without lag, token-bucket and gcra records stand for an
  `AllowanceMeter` level (`InUse`); a cleanup is a stuttering step, a tick drains, an admitted hit raises it
  by its cost, and only if that fits in the burst.
- `DropsLeastRecentOnly` is about whole steps, so that sweep, eviction and cleanup cannot cover for each
  other; `OrderIsRecency` is what makes oldest-first eviction least-recently-hit.
- `FailsClosed` counts passed requests of a rule with the `'block'` policy against its limit, per store that may
  answer for it; it breaks if any failure, timeout, late charge or other rule's policy lets one through.
- `FixedRate`: in less than a window at most two counters live, so at most two limits are admitted, however scripts and commands
  of several processes mix, whoever stops midway, and however often a lost EVAL is charged twice.
- `ExpiryRearmed` ties each answered hit to the counter it was charged to; `MatchesReference` says that Redis's expiries and
  the separate ban key cannot be seen from outside; `NeverTooStrict` is what is left under lost updates and mixed paths, where more than
  the rate may be admitted (`docs/production.md` says those paths are not atomic): a hit that fits beside all charges is not refused.
- `MatchesSerialTable` asks of a table that two processes write, clean up and restart on, for each algorithm that may ask next, whether its answer is the one of the
  committed hits run one after the other; a lost update, a cleanup too early or a row misread by another path shows as another answer.
- `CleanupInvisible` compares each hit, on time or late, before and after a cleanup.  Only a late hit whose record was live at its `now` and has expired since may be answered differently: it becomes a first hit, which is
  never refused, nor left less, because of that.
- `BanHonoured` of `SqliteStore` follows a reported ban over restarts and migrations, for the algorithm that wrote the key last and for fixed windows, until it ends or an algorithm other than fixed-window takes the key over
  (that one forgets it, see the end of the findings); `CarriedWaitBounded` is the other side: what one algorithm wrote never makes
  another lock a key out for longer than its own window or ban.
- `CountedByEveryRule` says for whole requests, over several limiters, the fast path and the macro, which rules count it and in which order; `HeadersHonest` that the
  headers are one decision made for this request, and a 429 only what a blocking rule says; `HeaderFamilies` that the fast path's copy of the header rules gives what the general one gives.
- `FailsClosed` of `RequestLifecycle` holds while the application stops: a store closed under a request makes its rules fail closed.
- `StoresShared`, `OneTimerPerStore` and `StopReleases` compare the registry after any order of look-ups with what was configured.
- `StrictestDecisionShown` compares the fold of `pickHeaderDecision` with the order the documentation states.

### Fairness

`MemoryStore`: the interval timer calls `cleanup` again and again and time passes (weak fairness of
`Cleanup` and `Tick`); no request is ever assumed.  `DecisionEvaluator`: the event loop runs what is
ready, user callbacks settle, and with `storeTimeout` set the timer of `withTimeout` fires (weak
fairness of a request's own steps and of `StoreTimeout`).  Nothing is assumed of stores: `EventuallyAnswered` holds with
stores that never answer.  The Redis and SQLite modules and `RequestLifecycle` state safety only and assume no fairness: a request's liveness is `DecisionEvaluator`'s.

## 4. Findings

1. `late_token_bucket`: `tokenBucketHit` stores `updatedAt: now` even if `now` is before the stored one; the next
   hit refills the same time again.  More than "a refill rate of 60 tokens per minute"
   (`docs/algorithm.md`) is admitted.  A hit gets such a `now` when requests overtake one another
   between `src/index.ts:399` and the store.  The gcra key `k5` has the same lag in `memory_rates` and is not affected, as its arrival time never goes back.
2. `eviction_order`: "Eviction removes expired rows first, then oldest keys." (`docs/stores.md`) holds
   only for the eviction that runs a sweep; for the rest of the second the oldest record goes, live or not.
3. `retry_after`: a refused sliding-window client that obeys `Retry-After` ("telling the client when to try again", `README.md`)
   may be refused again: at the start of the next window the counter of the last one, refused hits included, has full
   weight.  gcra has a milder form: during a ban `retryAfter` is the rest of the ban, although the arrival time may be
   later (hence the condition in `RetryAfterHonestWhereExact`).
4. `redis_fallback`: when one EVAL of gcra fails, the fallback stores the state as JSON under the key that the script reads with
   `tonumber`.  From then until the state expires the script raises for every later request of the key, and all of them take the non-atomic path, although
   "Transient EVAL failures fall back only for that request." (`docs/stores.md`).

5. `strictest_shown`: on a route with a `rateLimit` option the macro's evaluation replaces the pending headers of the plugin's rules (`src/index.ts:442`), whichever is
   stricter, so a client may be shown more remaining requests than it has, although "Headers and `retry-after` use the strictest relevant decision" (`docs/examples.md:324`;
   `docs/configuration.md:82` counts the route's rule among the rules).  Within one evaluation the strictest is shown (`HeadersHonest`).

Not a finding, as no document rules it out, but worth knowing: while processes of two algorithms share a SQLite file, or one comes back with another, a ban in a row's `ban_until` is obeyed by fixed windows only.
`algorithmHit` reads `state` alone (`src/plugins/sqliteStore.ts:98`) and ignores another algorithm's, and `hit` clears it (`:70`).  So a token-bucket, gcra or sliding-window process admits a key that a fixed window
banned, and one that it banned itself once a fixed-window process has hit it.  `docs/algorithm.md:147` has bans preserved "across window rollover when applicable", and `tests/core/algorithmStrategies.test.ts:82`
has another algorithm's state, its ban included, ignored on purpose.  `BanHonoured` of `SqliteStore` therefore promises nothing past such a takeover.

## 5. Proofs

Every theorem holds for any finite set of keys or hits, any processes, rules, caps, intervals, lags and bounds; what it assumes beyond the named
`ASSUME`s of its module is stated with it.  Those `ASSUME`s (natural numbers, finite sets, positive limits, windows and costs, as
`compileRules` validates; a fallback that is a store or absent; options of the shapes that `src/types.ts` declares, with at least one limiter; a custom store that is no memory store, and a
decision, pending or not, that is not the absence of one) are evaluated by TLC in each run.  No theorem uses fairness.

| Theorem | States | Assumes |
| --- | --- | --- |
| `MemoryStoreProofs!TypeCorrect` | `TypeOK` | |
| `MemoryStoreProofs!CapHolds`, `!EvictionOrderIsRecency` | `WithinCapacity`, `OrderIsRecency` | |
| `MemoryStoreProofs!OnlyLeastRecentGoes` | `DropsLeastRecentOnly` (a step) | |
| `MemoryStoreProofs!CopiesAgree`, `!RemainingIsExact`, `!RetryAfterIsHonest` | `InlineHitMatchesReference`, `RemainingExact`, `RetryAfterHonestWhereExact` | |
| `MemoryStoreProofs!CleanupIsInvisible` | `CleanupInvisible` (a step, with any lag and cap) | |
| `MemoryStoreProofs!BansHold`, `!StoreImplementsMeter` | `BanHonoured`, `ImplementsMeter` (a refinement) | no cap |
| `MemoryStoreProofs!RatesHold` | `RateLimited` | no cap, `OnTime` |
| `DecisionEvaluatorProofs!TypeCorrect`, `!ChargesOnce`, `!RulesFailClosed`, `!StrictestIsShown` | `TypeOK`, `ChargedOncePerStore`, `FailsClosed`, `StrictestDecisionShown` | |
| `DecisionEvaluatorProofs!RulesCount` | `EveryRuleCounts` | `FunctionsNameTheirRule` |
| `SqliteStoreProofs!RowsTypeCorrect`, `!SchemaAlwaysReady`, `!BansSurvive`, `!SerialTable` | `TypeOK`, `SchemaReady`, `BanHonoured`, `MatchesSerialTable` | |
| `SqliteStoreProofs!WaitsBounded` | `CarriedWaitBounded` | `OldRowsInReach` |
| `RedisFixedWindowProofs!TypeCorrect`, `!ExpiryIsRearmed`, `!FixedRateHolds` | `TypeOK`, `ExpiryRearmed`, `FixedRate` | |
| `RedisFixedWindowProofs!BanIsHonoured` | `BanHonoured` (a step) | |
| `RedisStateProofs!TypeCorrect`, `!NoneInvented`, `!BanIsHonoured`, `!AnswersAlike` | `TypeOK`, `NeverTooStrict`, `BanHonoured`, `MatchesReference` | |
| `RedisStateProofs!RatesHold` | `BurstRate` | `NoneOverdue` |
| `RequestLifecycleProofs!StoresAreShared`, `!TimersAreSingle`, `!StopIsClean` | `StoresShared`, `OneTimerPerStore`, `StopReleases` | |
| `RequestLifecycleProofs!TypeCorrect`, `!RulesFailClosed`, `!EveryRuleCounts`, `!FamiliesAsRuled` | `TypeOK`, `FailsClosed`, `CountedByEveryRule`, `HeaderFamilies` | |
| `RequestLifecycleProofs!HeadersAreHonest` | `HeadersHonest` | `CountApart` |

The assumptions in the last column:

- *No cap* (`MaxEntries = 0`).  A capped store forgets live records, bans and counters included (`docs/stores.md` says it evicts): the properties are false of it.
- `OnTime`: hits of sliding-window and token-bucket keys have no lag, those of gcra keys at most a window.  Fixed windows may be late by any lag.
  Without it the rate is false: finding 1, and a sliding-window hit of an earlier window (in the hazards).  `memory_rates` meets it.
- `FunctionsNameTheirRule`: a decision that an `onStoreError` function returns names the rule the function was asked about.  The code does not look at the name.
- `NoneOverdue`: no hit is under way for longer than its rule's window (`MaxLag <= window`).  The code sets no such bound; a client's timeout may.  Without it the rate is false: a hit that
  reaches Redis after its window's counter (or the script's state) has expired starts an empty one and is let through beside those the old one knew of.  TLC finds that with `MaxLag = 6`, windows of 2 and `MaxClock = 8`.
- `OldRowsInReach`: the rows an older version left end within a window or a ban of the clock's start, as rows of the same rule do.
- `CountApart`: the options of no application give two rules one key of one store: a route's rule has another key than each other rule of its limiter, and rules of two limiters that have the same key
  have no custom store in common (`compileRules` keeps a limiter's own ids apart, and no memory store is another limiter's).  Where two rules share a counter (in the hazards) each shows what the other's hits have used up.
  The seven applications of `request_lifecycle` meet it, as `RulesCountApart` of `MCRequestLifecycle` has TLC evaluate; TLC finds `HeadersHonest` false of an eighth, added to the run without that assumption, with two
  limiters whose global rules share a custom store and the default id.

### The arguments

`AlgorithmLemmas` states what each algorithm does to a record: it keeps it well-typed (the interesting case is the token bucket, whose tokens stay in `0 .. limit * window`),
keeps a running ban, leaves a record that means nothing after its expiry (`Outlives`), answers what the next hit can use, names waits no longer than a window or a ban (`InReach`,
`Foreseen`), and cannot tell apart two records of which one is stale where they differ (`Twins`).  The stores' invariants are about records, and their steps cite these lemmas.

- *Types.*  `TypeOK` is inductive for the memory store.  `RedisFixedWindow` needs that only an instance that may use the script has its flag set (`TypeInv`), `DecisionEvaluator` that a request in the loop has a rule
  (`Positions`), `SqliteStore` the whole of `RowsInvariant`: the type of an open transaction's rows is that of the table's.
- *Cap.*  The n earliest of a finite set under a strict total order are n, so what eviction leaves is exactly the cap.  `InsertionOrder` (the order is total and strict) and `lastHit <= clock` make it inductive.
  A hit puts the map one over the cap at most, and only if its key is new; so at most one record is evicted after the sweep, the first in order, which was hit longest ago and is not the hit's own.
  The sweep may take the hit's own record if it is over at once: a token bucket stays full when the cost exceeds the limit.  The proof brought that case up.
- *Bans of the memory store.*  A promised ban that still runs is the `banUntil` of a tracked record.  Hits keep it, cleanup keeps a record whose expiry is not before its ban, and no cap evicts it.
- *Answers.*  `RecordInvariant` ties each record to its expiry: from then on it means nothing.  It holds under evictions too, which only drop records.  `CleanupIsInvisible` follows (for a late
  hit to a record that has expired since, from `EvaluateFirst`: a key's first hit is the most lenient one), as does `StoreImplementsMeter`: the meter's level is what a record has in use, nothing after its expiry.
- *Rates.*  `RateInvariant` adds an account per algorithm that ties the ledger of admitted cost (`admitted`) to the record: what a fixed window admitted since its window began is its counter, up to the
  lag; a sliding window's two counters cover what was admitted in their windows; tokens spent are at most the burst and the refill; a gcra arrival time is ahead of any interval's admitted cost.  A hit, a tick and the loss of an
  expired record keep each account, and each account implies its rate.  A running total as a ledger, and not a set of events, is what lets the proof subtract.
- *Charges and failing closed.*  `Accounts`: a call that was sent is open or in the ledger of its own store and rule, once, and its request is past the point where it sends it.
  The two calls of a request for one rule go to different stores, as the fallback is tried only if it is another.  `Cleared`: a request that has left a fail-closed rule behind holds
  a decision that blocks it, or a place among the first `limit` charges of a store that serves the rule.  Requests that pass hold no such decision, so they map one to one into these places, which are as many as `limit` per store.
- *Decisions.*  `Ordered`: the decisions of a request are of the rules before the one at hand, in order, and none of those that fail closed is missing.  `HeadersKept`: the header of a concluded request is `HeaderOf` of its decisions.
  That `HeaderOf` is the strictest is an induction over the loop of `pickHeaderDecision`.  The library's induction theorem cannot be used, so the loop is a recursive function (`BestPlaces`)
  and the induction takes the least place at which the claim fails: a natural number, which well-foundedness of `<` gives.
- *SQLite.*  Columns are only added, and a process passes a check only when the column is there (`SchemaInvariant`).  A promised ban that still runs is stored in the `ban_until` column and, for algorithms other than the fixed window, in the state;
  and an open transaction still sees the row as it is (`BanInvariant`): without the last part a stale upsert could undo a ban that another process reported.  `RowsInvariant` adds that each row is like the undeleted one
  (`Alike`): equal, or with a state that no hit from now on tells from it, or deleted while the other is over.  A hit on two alike rows gives one answer and leaves alike rows.
- *Redis, fixed window.*  `ExpiryRearmed` alone is not inductive: a hit about to answer must be known to have seen or set an expiry.  `IInv` adds that each hit past its commands on the
  counter is settled: if the counter it was charged to is still there, it has an expiry.  `BanInv`: a promised ban that still runs is covered by the ban key's expiry, which never reaches further
  than a ban from now, so no hit is told of one the key does not back; and a hit knows of no ban promised after it began.
  `RateInv` is about receipts, one per hit that was charged and may still be let through, or was: two receipts of one life of the counter have different counts, multiples of the cost; a counter that is there outlives
  by a window all receipts of earlier lives, as an expiry is only ever set to a window from then; hence receipts two lives apart are a window apart.  So a stretch shorter than the window has receipts of two lives at most, and they map one to one into
  `1 .. 2 * (limit / cost)`.

- *Redis, the other algorithms.*  `TypeInv`: what a hit has read and is about to write comes from a state that was sound when it was read, and soundness only mentions quantities that grow (the clock, `charged`), so a stale write is sound too.
  Part of it is `NotAhead`: no stored arrival time, and no bucket's missing tokens, are ahead of `charged`, the arrival time that has taken every charge; lost updates leave less than that.  `NoneInvented` follows: what fits beside all charges fits beside the stored state.
  Bans are those of fixed windows without receipts (`BanInv`).  `RatesHold` has one account per algorithm.  gcra (`GcraInv`): the admitted hits from any time on have moved the arrival time by their price, and the key that holds it is there until no hit under way can start below it.
  Sliding window (`SlidingInv`): the hits of a window that were let through, and those under way whose own count is within the limit, together cost no more than the window's counter says, as long as anybody counts on that
  counter; counting those under way is what makes it inductive, as the answer comes commands after the count.
  `AnswersAlike`: as long as hits come one at a time and none is late or fails, the keys stand for the state of the in-process algorithm (`MatchInv`), which knows no expiries.  Portable path: the key, or the hit about to write it, holds a
  state that no hit tells from the reference's, or it is gone and the reference's is over (`Mirrors`).  Script: the two arrival times are equal as far as they are ahead of now, the ban key's expiry is the reference's ban, and what a key held is past
  by the time it expires.  Sliding window: the counters of the present and the previous window are the counts the reference knows, as they last while they are needed, and the hit that has counted itself will be told what the reference tells.

- *Registries.*  `RegistriesKept` relates the registry of each limiter to its options: no store is in use twice, each memory store was made by this registry (`Tracks`), a look-up's key has its configuration's custom store or a memory
  store that no other key and no fallback has (`Caches`), and until the limiter's onStop the timers are exactly the stores in use that can be cleaned up (`Timed`); afterwards it is `Released`.  A construction looks up a
  store per rule and may stop anywhere, so that each look-up keeps this is shown by induction over the look-ups.
- *Requests.*  `RulesKept`: each limiter has the rules its options compile to, and while requests are served each rule has a store that supports it, closed or not.  `Served` follows a request by what it meets (`World`: who is due, who is
  firm, which keys, stores and limits), which no stop changes: each firm rule (one with the `block` policy, or whose own store always answers) of a limiter that was passed has admitted it, and in the evaluation under way each has decided or is
  still to be hit (`OnItsWay`).  `Placed`: the requests of one key that a rule admitted map one to one into the first `limit` counts of the stores that may count for it; a hit that admits takes a count nobody had, as counts only grow.
  A request that is through was admitted by all, hence `RulesFailClosed`.
- *Hits.*  `AllPay`: what a request has been counted by, and what the evaluation under way has still to hit, make up together what it owes to the limiters it has reached (`Tallied`), by the hook it is in; the fast path hits its only rule and is
  past it in one step.  What is owed to a prefix of the limiters is a flattened sequence, and `FlattenSeq` is recursive: `JoinsOneMore`, that one more limiter appends its own rules, is shown for the loop behind it (`FlattenRun`) by induction over
  the sequence.
- *Headers.*  `AllTold` gives each request a `Story`: none of its concluded evaluations holds a blocking decision, and what each limiter has pending is a strictest decision (`Backs`) of its last evaluation that decided something
  and lets a header through (`Waits`), where evaluations come in the order of the limiters, the macro's last (`InOrder`).  Once it is answered, what it shows is the blocking decision or what was pending (`Told`).  The order is what makes
  it inductive: an evaluation that is concluded replaces what its limiter has pending, so no other evaluation of that limiter may be later than it.  The fast path, which defers nothing if no family is allowed, meets the same invariant.
  `Tracked` counts: the hits a store holds under a rule's key are at most the requests that the rule was hit for (`CountsAskers`), as no request is hit twice by a rule (`Asks`) and no other rule counts there;
  so each decision that does not block counts at most these (`Earned`), and stays so as they only become more.  That no other counts there is `KeysApart`, of the registries as they are in a state, which follows from the options:
  `RulesKept` gives each rule its compiled form, `Caches` and `FallbackKept` (a custom fallback is the options' own) the custom stores it may count in, and `Tracks` says that a memory store has one owner (`OptionsKeepApart`).

### Only model-checked

What is temporal with fairness (`ExpiredPurged`, `EventuallyAnswered`), which TLAPS cannot prove.

## 6. Plan

Done: 1. algorithms and memory store; 2. their proofs; 3. decision evaluator; 4. Redis: fixed windows, gcra, token buckets, sliding windows; 5. the proofs about fixed windows in Redis;
6. SQLite store and its theorems; 7. rule compilation, registry and request lifecycle; 8. the evaluator's theorems; 9. rates, answers and refinement of the memory store; 10. the serial table of SQLite;
11. types, bans, rates and answers of the other algorithms in Redis; 12. the registries, the failing closed, the hits and the headers of the request lifecycle.
Every property that a passing run checks and that needs no fairness is now a theorem.

## 7. Not modelled

- Key resolvers, `keyGenerator` and key hashing: pure functions of one request to a string.  The evaluator keeps that they may throw and take
  time, the lifecycle that requests share a key.
- The strings `compileRules` parses: durations, the text of "METHOD /path" keys, path normalisation.  Rules come parsed; the errors of limits, algorithms,
  methods and ids are in the model.
- The adapters of the Redis client libraries (`redisClient.ts`), which translate calls one to one, and key names.
- `onLimit` and `onDecision` within `RequestLifecycle` (they are steps of `DecisionEvaluator`), header values other than limit,
  remaining and `retry-after`, Elysia's deduplication of plugins.  If Elysia ran `onAfterHandle` after a macro's 429, a pending decision of the
  plugin's rules would overwrite the blocked headers; the documentation says it does not.
- The timers that a constructor leaves running when it throws after it has registered a store: in the model (the registry of a failed limiter), but nothing in the repository says what should hold.
- The rounding of doubles, in JavaScript and in Lua's `tostring`.
- Benchmarks, scripts and examples.
