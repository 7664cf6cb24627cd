# Parry in TLA+

Parry is an Express middleware. It limits the rate of requests, bans clients
whose requests carry attack patterns, and slows down guessing at login routes.
Nearly all of its decisions rest on counters, bans and blocks in a *store*, with
an `await` between any two calls; requests, a sweep timer, admin listings and,
with Redis, other processes run in those gaps. This directory models that state
and those gaps, checks the models with TLC and proves the main results with TLAPS.

Paths below are relative to the repository (`src/stores/...`); times are in
abstract ticks, with the rule of the code: a deadline is over when it is `<= now`.

Around that core are the parts that decide without waiting: what the operator's
options become, which policy and which counters a request gets, what the scan makes
of its values, and whom the admin API lets in. They are operators over small data
here, and one module, `Application`, puts them together as a deployment runs them.

## Inventory

| Part | State | Operations | Hard because |
|---|---|---|---|
| `MemoryStore` (`src/stores/memory-store.js`) | logs of timestamps, bans, strikes, failure counters, blocks, each with a deadline | increment, get, reset, ban, unban, strike, block, unblock, `is*`, lists, snapshot, `cleanup` | no timer per entry: every read decides for itself what is over; a read deletes; the sweep and a read forget different things |
| `RedisStore` (`src/stores/redis-store.js`) | keys with a TTL, two index Sets | the same, as one to four commands | processes interleave between commands, keys expire between commands, a process may stop between commands |
| Rate limiter (`src/rate-limit/limiter.js`, driven by `src/core/engine.js`) | none but the store and an interval | `check`, `recordSuspicious`, `unban`, `snapshot` | `isBanned`, count, scan, strike and ban are separate awaits of concurrent requests |
| Brute-force guard (`src/brute-force/brute-force-guard.js`) | a context per request | check every key; after the response count, block or reset every key | two requests that share a key, in the middle of their walks; a store failing half-way |
| Request pipeline (`src/express/middleware.js`, `src/core/engine.js`) | progress of each request, response observer | `handleRequest`, `analyzeRequest` | early returns, fail-open and fail-closed at six places, the observer sees Parry's own answers too |
| Metrics (`src/observability/metrics.js`) | counters | `recordRequest`, `recordEvent` | fed twice, directly and by events, in the order of the answers |
| Event bus and store (`src/events`) | listeners, ring of events | `emitThreat`, `onThreat`, unsubscribe, paging | a listener may throw, emit, subscribe or leave during the dispatch; readers page while the buffer moves |
| Address resolution (`src/express/ip-resolver.js`) | none | `getClientIp` | part of what it reads is written by nodes nobody trusts |
| Configuration (`config`, `mergeConfig`) | the configuration in force | validate, merge | a limit can be written in six places; a key with the value `undefined` hides a default |
| Policies (`src/policies`) | the list of policies, `lastIndex` of a global RegExp | build, match | presets and policies of the same name; the first that fits decides; a pattern that remembers |
| Key builder (`src/brute-force/key-builder.js`) | none | keys of a request under a policy | names are sanitized, values hold the separator, clients choose how they spell themselves |
| Request shape, target collection, structured detectors, scoring (`src/detectors`, `src/express/request-targets.js`, `src/core`) | none | three walks over the same values | three depths, counted by three rules; the first finding speaks for all |
| Pattern detectors, console reporter | none | regular expressions, output | - |
| Admin authentication (`src/admin/auth`) | a strategy, fixed when the router is made | validate, authenticate, combine | identity headers that anybody can write; opt-ins that must hold inside a combination too |
| Admin API (`src/admin`) | none | listings, `GET /events` | writes: a listing sweeps |

How they interact: the middleware resolves the policy and the address, asks the
guard, then the route limit, then installs the response observer, then lets the
engine ask the limiter and scan. Guard, route limit and limiter share one store
and meet on its keys. Everything that happens is an event on the bus; metrics are
one of its listeners, the event store keeps the last ones for the admin API. The
limiter's interval and the admin listings call `cleanup` at any moment.

What makes each part correct:

- store: an entry is seen until its deadline and not after it; a count is that of
  one window; a Redis store never keeps what should have ended and never loses
  what has not;
- limiter: a client does not get more than its quota, a banned client stays out
  and cannot prolong its ban, nobody is banned without recent strikes;
- guard: a blocked key lets nobody new in, concurrent guesses overshoot
  `maxAttempts` by a known amount, nobody is blocked without the failures;
- pipeline: no request is dropped or answered twice, each is counted once, has one event
  that says why it was refused, and in fail-closed mode gets by no check that was not answered;
- bus: a listener that stays hears each event once; the buffer is the newest
  events; a reader that pages misses none;
- address: a request is charged to the last node that no trusted proxy vouches for;
- configuration: what validation accepts limits;
- policies: a request is held to the first policy that fits, whatever came before it;
- keys: nobody gets a second counter by writing the same in another way; a counter is
  shared only where a name is altered or a value holds the separator;
- scan: with a shape guard no deeper than the other walks, nothing a detector is told
  to look for gets through, at any depth, and nothing else is turned away;
- admin: nobody is let in, or taken for somebody, whom nothing vouches for.

`PROJECT.json` lists every component and, under `hazards`, the lines where each
of these can go wrong.

## Modules

| Module | Models | Built on |
|---|---|---|
| `ExpiringStore` | the promise: flags and counters that vanish at their deadline by themselves | - |
| `MemoryStore` | every operation of `memory-store.js`, entries left in place until a read or a sweep meets them; implements `ExpiringStore` | - |
| `RateLimiter` | the limiter and the part of the engine that calls it; one process per request, one action per await | EXTENDS `MemoryStore` |
| `BruteForceGuard` | the three walks over a request's keys, one action per key | EXTENDS `MemoryStore` |
| `RedisFlags` | bans, blocks and their indexes, command by command | - |
| `RedisCounters` | counters, by script and by `SET NX` + `MULTI`; implements `ExpiringStore` when there is `eval` | - |
| `EventBus` | the call stack of `emitThreat`, the listener arrays, the event store and a paging reader | - |
| `Middleware` | the way of a request through all checks; what the stores answer is arbitrary | - |
| `ClientIp` | a request that passes trusted and other nodes, and what `getClientIp` makes of its headers | - |
| `JsValues` | properties that are missing or `undefined`, spread and `\|\|` | - |
| `Policies` | presets, merge by name, normalization, the match with its `lastIndex` | EXTENDS `JsValues` |
| `Options` | defaults, `validateParryOptions`, `mergeConfig` | EXTENDS `Policies` |
| `KeyBuilder` | from specs and values to the names of counters | EXTENDS `JsValues` |
| `RequestScan` | shape guard, target collection, detectors, severity | EXTENDS `Options` |
| `AdminAuth` | validation, the strategies, their combinations, the router's answer | EXTENDS `JsValues` |
| `Application` | a deployment: options to configuration, requests to policy, counters and verdict, admin requests to answers | EXTENDS `RequestScan`, `KeyBuilder`, `AdminAuth` |
| `MC*` | instances for TLC | |
| `*_proofs` | theorems and their proofs | EXTENDS their module |

State and actions follow the code. In `MemoryStore` each Map is a function over the
keys: `rateLimits`, `bans`, `suspicious`, `counters`, `blocks`; an entry that
is not there has a value of its own (`None`, `EmptyLog`, deadline 0). A timestamp of
a log is a pair of its tick and its number in the tick, since the code keeps equal
timestamps apart. An action is one public method, with every deletion a read does on
the way: `CheckBan` is `isBanned` and drops the ban, the log and the strikes of a ban
that is over; `Cleanup` drops what `cleanup` drops and no more (the strikes of a ban
stay). `Snapshot`, `ListBans` and `ListBlocks` are their own actions because they
write.

In `RateLimiter` and `BruteForceGuard`, `pc` is where a request's `await` is. JavaScript
runs one step to the next `await` without interruption, and the methods of
`MemoryStore` have no `await` inside, so a step is: one store call, its answer and
everything up to the next call. In `RedisFlags` and `RedisCounters` a step is one
command. In `EventBus` everything is synchronous, and what interleaves is the code
of listeners, so the model is the call stack: a frame per `emitThreat` with the array
its loop is over. The reader's `GET` comes only when the stack is empty. `Middleware`
has the pipeline's order, its early returns, and the events and counters of each, and
remembers whether a request was answered (`answer`), so that one that was dropped
differs from one that was served. A step there is one call of the engine: a check,
count or reset of the guard is the whole walk over a request's keys, which
`BruteForceGuard` has key by key.

One place is coarser than the code. A listing of `RedisFlags` reads the index in one
step, as with a client that has no `sScan`; with it the members come in several replies.
No property depends on it: what is then done to a member is a lookup, and lookups of any
keys in any order are actions of their own. Express's error handler is external: a
`next(error)` is answered there with 500.

In `Application` an action is a call of the application or of Express: `CreateParry`
validates and merges (or throws), `MountAdmin` makes the router (or throws), `Receive`
is `handleRequest` up to its first `await`, `Inspect` the scan, `Respond` any answer,
`AskAdmin` the authentication middleware. Nothing in between awaits, so there is
nothing to interleave but whole requests. The data are abstracted to what the code
branches on:

- an options object is a function from the names it has; `Undefined` may be a value
  of it, and `Wrong` stands for every value of a type or sign that the place is not
  for; `True` and `False` may stand where an object may;
- a pattern of a policy is known by the places where it is found in each path, so
  that texts, prefixes and RegExps are one thing, and `lastIndex` another;
- a text in a key is the sequence of its parts between colons, which is all that
  makes two keys equal or not;
- a path in the allowlist is a text: a key with a dot in it and two keys one below the
  other are the same entry (`Spelled` gives the texts of such keys);
- the values of a request are a forest under query, params, body and a header;
  what a pattern would find in a text, and what is special about a key, is what the
  text or key *is*;
- a credential is right, wrong or missing. A gateway, and whoever has its secret, is
  assumed to say of a request only what it has verified; anybody else says anything.

History variables (marked as such) remember what a property needs: the requests that
were past a check when a ban was placed (`overlap`), the failures that still count,
the count at the last block (`settled`), the flags whose member of the index was lost
(`unlisted`), the people behind the counters in use. No guard reads them except for the bounds.

## Runs

| Run | What it asks |
|---|---|
| `memory_store` | In every order of all operations of one key: is a log always exactly one window with the right `resetAt` (`LogIsOneWindow`), does a store that expires lazily look like one that expires by itself (`ImplementsExpiringStore`), and is whatever is over removed in the end even if nobody asks for it again (`OverIsForgotten`)? |
| `memory_store_sweep` | *violation.* Does a sweep keep what is alive? It does not for logs, see Findings. |
| `limiter` | Three concurrent requests, unbans, sweeps, failing calls: quota (`LessThanTwoQuotas`), who is past a ban check (`OnlyOverlapPastBan`), what a ban rests on (`StrikesBehindBan`). |
| `guard` | Three requests that guess at one account, one of them with another key before the shared one, fail-closed, failing calls: `BlockedStayOut`, `OvershootBounded`, `BlockJustified`. |
| `redis_flags` | Two processes with crashes, two keys, bans and blocks: a lookup costs only a flag that was set again after that lookup found it over (`OnlyOverlappingSetIsLost`); and the admin API lists every flag in force but for what a crash between two commands, or such a lookup, has taken out of the index (`InForceIsListed`). |
| `redis_flags_lifting` | *violation.* Is a ban in force lifted only by a call that lifts it? |
| `redis_counters` | Two processes, each with or without `eval`: where all have it, every counter has a deadline within a window (`EveryCounterExpires`) and the counters keep the promise of `ExpiringStore`; without it a deadline is lost only when the key went away between the two round trips (`OnlyOverlapLosesDeadline`), and counting again never moves a window in which something is counted (`WindowIsFixed`), the script of the one and the `SET NX` of the other included. |
| `event_bus` | `DeliveredOnce`, `BufferIsNewest`, `ReaderMissesNothing` while listeners throw, emit, subscribe and leave. |
| `middleware` | Both failure modes, three kinds of route, any call failing: the books of metrics and events (`EveryRequestIsCounted`, `EventsMatchCounters`), `FailClosedAsksAll`, `OneAttemptPerAdmitted`, `AnsweredOnce`, and `EveryRequestIsAnswered` under fairness. |
| `client_ip` | Paths of up to four nodes, forged, malformed and overlong headers, both header conventions: `ChargedToResponsible`. |
| `application` | 427 deployments with their traffic: limits (`EveryLimitLimits`), choice of the policy (`OnlyLeftoverSkips`), keys (`SharedOnlyByNameOrSeparator`, `NoSecondCounter`), scan (`VerdictIsRight`, `SeverityIsHighest`), admin API (`IdentityIsVouched`, `AnonymousOnlyByOptIn`). |
| `application_keys` | *violation.* With the preset as it is, does a counter count one address on one account? Not with IPv6, see Findings. |

Every property has a mutant in `PROJECT.json`: a plausible mistake in the code that
breaks it under the same bounds.

### What the numbers say

`LessThanTwoQuotas` is the strongest quota that holds. `maxRequests` per window does
*not* hold, because the sweep drops a log by its oldest timestamp; but such a log is
at least a window old, so a window never meets more than two logs, and one request of
the first has always left it. It needs that counting calls do not fail unnoticed and
that a ban outlasts the rate window (the defaults do), and it leaves out requests a
ban overtook. Likewise `OvershootBounded` is `maxAttempts - 1` plus one per request in
flight, between two blocks: the code checks and counts at two ends of a request.

### Bounds

Every counter is capped in a guard by a named constant. `MaxTime` is a few times the
longest lifetime, so that an entry can be created, end, be met late and be created
again; windows of two ticks have an inside and an edge, and lifetimes of different
kinds differ (strikes outlive bans, counters outlive blocks) wherever their relation
matters. `MaxHits`, `MaxStrikes` and `MaxFailures` are above the thresholds they are
measured against. Three requests (`limiter`, `guard`) let one overtake two others, and
one of those of `guard` has the shared key second. Its store fails closed; that the
overshoot is no larger when it fails open is `GuardOvershoot`, for every mode. Two
Redis processes are enough for a lookup and the call it races with, and a third party
is played by expiry. The event store holds two events and three are made, so it
overflows once in the middle of a dispatch and of a page. `MaxProxyHops` is 3, and
forged chains with appended hops go beyond it.
In `application` a deployment is one of four kinds: one limit at a time, missing,
`undefined`, zero or wrong, in every place it can be written; presets and lists of one
to three policies over two paths, one of them matched by a global RegExp, requested up
to three times, with keys of every form the builder knows; depths of guard and
collection on either side of each other over all well-built forests of seven nodes,
one of them marked; every strategy with every way to trust a gateway, alone and in
pairs, in and out of production. The depth at which the search for NoSQL operators
stops is 8 in the code and 1 here: the three walks meet at the depth of the forests.
Symmetry is used only where requests with the same keys are
interchangeable and no liveness is checked; `middleware` has none.

`CHECK_DEADLOCK FALSE` is set where a bound stops the model for good: all events
made (`event_bus`), all requests made (`middleware`), the path at its longest
(`client_ip`), and in `application`, where a deployment whose options are refused has
stopped. The others always have a sweep or a read to do.

### Fairness

`memory_store` checks `OverIsForgotten` under `FairSweep`: the interval that every
`RateLimiter` starts, whether rate limiting is on or not, calls `cleanup` until
`destroy()`. No caller of the store is assumed to come back.

`middleware` checks `EveryRequestIsAnswered`. `FairSpec` assumes weak fairness of each request's
own steps: a call to the store settles, that is resolves or rejects, and a handler of
the application answers. Both lie outside Parry, which sets no timeout on a store call;
with a store that never settles a request would stay open, in the code as in the model.
No fairness is assumed of clients: they need not come, leave, or wait. The branch that
a step takes is not subject to fairness either, so `EveryRequestIsAnswered` holds
however often calls fail.

## Findings

1. **The sweep forgets requests that still count** (`memory-store.js:168`, also `:34`).
   `cleanup` removes a whole log when the `resetAt` of its *oldest* timestamp has
   passed. `tests/unit/memoryStore.test.js:48` says "cleanup does not remove active
   item". Run `memory_store_sweep`: two requests in different ticks, the first leaves
   the window, a sweep drops both. `LessThanTwoQuotas` bounds the damage.
2. **A lookup can lift a new ban** (`redis-store.js:61`, also `:135`). Between `PTTL`
   and `DEL` another process may have set the flag again; `DEL` does not look.
   `docs/security-model.md:18` promises shared bans. Run `redis_flags_lifting`;
   `OnlyOverlappingSetIsLost` says it happens in this way only. The `SREM` that follows
   can in the same way take the new flag out of the listing.

3. **Two clients on one counter** (`key-builder.js:63`). The values of a composite key are
   joined with `:`, which an IPv6 address and any text of a body may hold. On
   `ip+body.email`, a key of the presets, address `2001:db8::1` with account `2:bob@x`
   and address `2001:db8::1:2` with account `bob@x` make one key, and the failures of
   the one can block the other. `tests/fixtures/payloads/brute-force.json:45` says
   "Block after repeated failures by IP and email". Run `application_keys`.
   `SharedOnlyByNameOrSeparator` says which counters can be shared at all: two people
   only if a value of one has the separator more often than the same value of the
   other, two policies or key types only if `sanitizeType` alters a name of one (it
   makes `a b` and `a-b` the same).

Not recorded as a finding because no text promises otherwise: without `eval` a counter
whose key goes away between `SET NX` and `INCR` has no deadline at all and counts for
ever (`redis-store.js:240-243`). `OnlyOverlapLosesDeadline` pins down when.

Differences between the texts and the code that were met while modelling; the
properties of `application` hold with them as stated exceptions:

- `docs/security-model.md:42` and `docs/architecture.md:36` say that the highest
  severity is chosen. It is, for the decision, which nobody reads; the event that the
  metrics count and `GET /events` filters by has the severity of the *first* threat
  (`core/threat-event.js:8`), so duplicate parameters found together with an injection
  are reported as medium (`SeverityIsHighest`).
- An option that is given as `undefined` takes the place of its default
  (`middleware.js:184`, `normalize-policy.js:63`) and passes validation: a limit
  compared with `undefined` never limits, and `sql: undefined` turns the detector off.
  `EveryLimitLimits` says that this is the only way.
- `types/index.d.ts:59` allows `bruteForce: false`, and `mergeConfig` and
  `buildPolicies` have a branch for it, but validation throws (`validate.js:208-210`).
- `docs/configuration.md` says that SQL, XSS and path traversal detectors inspect
  query, params, body and selected headers; path traversal leaves out headers and the
  items of a body that is a list (`path-traversal.js:36-43`). `Harmful` does too.
- A pattern that is a RegExp with the `g` flag misses every second request
  (`matcher.js:31`): `OnlyLeftoverSkips` shows that nothing else makes a request miss
  its policy.
- `{mode: 'combined', allowAny: [], requireAll: [...]}` is accepted and refuses
  everybody: validation looks for a list with something in it, the strategy for a list.

## Proofs

`tlapm` checks the theorems below for all values of the constants. What they assume of
the constants is named in the modules. `TtlAssumption`, `LimiterAssumption`,
`GuardAssumption`, `CounterAssumption`, `FlagAssumption`, `BusAssumption`,
`MiddlewareAssumption`, `ClientIpAssumption`: lifetimes and limits are positive, there
are finitely many requests in flight, a request's keys are a sequence of keys, a text
parses to an address or not. For `Application`: `ValuesAssumption` (`undefined`, a wrong
value and the booleans differ, and are no numbers), `PatternsAssumption` (a pattern is
found in a path at pairs of numbers), `DeploymentAssumption` (a list of strategies, of
policies or of patterns is a list), `RequestAssumption` (the values of a request are a
forest), `SpecAssumption` (a key type says its parts), `FieldAssumption` (what is one
person: two values of one place are about the same person when they are the same text,
but for letter case where the code folds it), `GatewayAssumption` (a gateway, and
whoever has its secret, says only what it has verified). TLC evaluates each of them in
the runs of its module. What a theorem assumes beyond that is said with it.
Except for the bounds of TLC, which are constants like any other, nothing limits how
many requests, keys, processes, listeners or events there are.

Most properties are not inductive. What each proof had to add is the argument why the
code is right, so it is told here.

- **`RateLimiter_proofs`**, first part, on the store: `TypeCorrect`, `LogCorrect`
  (`LogIsOneWindow`), `StoreImplementsPromise`. `resetAt` is computed from the minimum
  of a log, and a minimum exists because logs are finite: the invariant is
  `IInv == TypeOK /\ LogsFinite /\ LogIsOneWindow`. An increment keeps it because a
  filtered log with a new stamp is one window again; a tick, because the window is only
  required of logs whose `resetAt` is ahead. For the refinement an entry maps to itself
  while its deadline is ahead and to nothing otherwise; then every deletion by a read or
  a sweep is a stutter, and every other action its namesake. The one action that is
  more is `isBanned`, which on a ban that is over also drops strikes: the promise allows
  a ban that has ended to take them along.
- **`RateLimiter_proofs`**, second part: `LimiterTypeCorrect`, `BansHaveStrikes` (`StrikesBehindBan`),
  `BansKeepOut` (`OnlyOverlapPastBan`), `QuotaHolds` (`LessThanTwoQuotas`). Every step of
  the limiter is a step of the store or leaves it alone, so `IInv` carries over. For the
  strikes, `StrikesLogged`: a strike count that is not over is as many logged strikes
  since it began, and the strikes of one instant are numbered, so that a new one is new.
  For the quota, `TwoLogs`: the admissions a window can see are split by the moment a
  log was last dropped; those after it are in the log of the store, those before it were
  in one log, which had one quota, and its oldest had left the window when it was
  dropped. `BansKeepOut` assumes fail-closed, or a store that does not fail; `QuotaHolds`
  assumes `BanTtl >= Window`, as `isBanned` drops the log of a ban that is over, and with
  a shorter ban a third log meets a window.
- **`BruteForceGuard_proofs`**: `GuardTypeCorrect`, `GuardKeepsOut` (`BlockedStayOut`),
  `GuardOvershoot` (`OvershootBounded`), `GuardBlockJustified` (`BlockJustified`).
  `BlockedStayOut` is inductive over the types and `Walking` (a request under way points
  at one of its keys): only `CheckKey` brings a request past a key, and not while it is
  blocked; only `BlockOne` makes a key blocked, and it takes down who is past it; a
  request leaves `overlap` only by coming back to the start. Assumed: fail-closed, or a
  store that does not fail. For the overshoot, `EveryExcessIsOwed`: what a count has past
  its last settlement is owed by as many requests, those that have counted a failure on
  the key, know that some count reached the maximum, and have not blocked the key yet.
  Assumed: `KeysDiffer`, no request names one key twice. The code does not rule it out (a
  policy with `keys: ['ip', 'ip']` counts every failure twice); the presets do not do it.
  For the justification, `CountsHaveFailures`: a counter that is not over has at least as
  many failures since it opened as it counts, and those are within `windowMs`.
- **`RedisFlags_proofs`**: `FlagsTypeCorrect`, `FlagsAreListed` (`InForceIsListed`),
  `OvertakenLookupsOnly` (`OnlyOverlappingSetIsLost`). Added is `Overtaken`: a lookup that
  is about to delete found the flag over, so if it is in force, it was set since, and the
  lookup knows (`fresh`).
- **`RedisCounters_proofs`**: `CountersTypeCorrect`, `CountersEnd` (`EveryCounterExpires`),
  `DeadlineLostByOverlap` (`OnlyOverlapLosesDeadline`), `WindowsAreFixed` (`WindowIsFixed`),
  `CountersImplementPromise` (`ImplementsExpiringStore`). A value and a deadline come and
  go together; a deadline is ahead and within a window; who has `eval` is never between
  two trips (`OneTrip`); a call between its trips whose key did not go away still has the
  key (`StillThere`), so its `INCR` makes nothing new.
- **`EventBus_proofs`**: `BusTypeCorrect`, `EachListenerOnce` (`DeliveredOnce`),
  `BufferHoldsNewest` (`BufferIsNewest`), `ReaderIsGivenAll` (`ReaderMissesNothing`). For
  the dispatch, `DispatchOK` says of every frame on the stack, not only the innermost:
  a listener that stays has one place in the array the loop is over, and has been called
  once when the loop has passed the place and not yet when it has not. A registration
  goes behind every place, an unsubscription makes another array, so neither moves one.
  For the reader, `ReaderOK`: what it has to be given yet has a rank among the matching
  events that is not below its offset. A new event raises the ranks of all others by one
  or none, and a page is every rank from the offset to its end, so that what is not on
  it is behind it. That a filter keeps the order, and that ranks are a bijection, rests on
  `Least`: sets of numbers have a least element (`WFMin`), which stands in for an
  induction.
- **`Middleware_proofs`**: `PipelineTypeCorrect`, `BooksBalance` (`EveryRequestIsCounted`),
  `EventsAndCounters` (`EventsMatchCounters`), `FailClosedHolds` (`FailClosedAsksAll`),
  `AttemptsAreAdmitted` (`OneAttemptPerAdmitted`), `NoneDroppedOrAnsweredTwice`
  (`AnsweredOnce`). The books count requests by where they
  are, so a step moves one request from one set to another and the proof is arithmetic
  of cardinalities. `OneAttemptPerAdmitted` needs `AttemptsPaid`: it is the requests that
  may still make an attempt or be turned away that pay for the difference. That nothing
  is answered twice rests on where a request is: it is unanswered up to the handler.
- **`ClientIp_proofs`**: `RequestIsCharged`. `ClientIpInv` says what a trusted node finds
  in the headers: an entry of the responsible node with nothing but trusted proxies
  behind it (the first entry when all are trusted), or that node in `x-real-ip`. The
  walk from right to left then cannot stop anywhere else.

- **`Application_proofs`**: one theorem for each property of `application`. The
  inductive invariant `AppInv` says what every part of the state was made of: the
  configuration from accepted options, the router from that configuration, the reply from
  the router, the verdict from the request. What is left is about the operators.
  - `AnonymousByOptIn` (`AnonymousOnlyByOptIn`), `IdentityVouched` (`IdentityIsVouched`):
    the answer of any combination is the answer of one of its strategies
    (`OneStrategySpeaks`), so that a case per strategy is enough; and what validation
    refuses in production is not in an accepted router, at any place of a combination
    (`NothingIsRefused`).
  - `SeverityHighest` (`SeverityIsHighest`): the highest of what was found, and which
    detectors can come first (`FirstThreat`).
  - `VerdictRight` (`VerdictIsRight`): every node has a way to its root (`WaysAreThere`; the
    least node without one has a parent before it, which has one), so a depth; a
    walk that reaches as deep as the guard allows reaches every node (`WalksReachAll`).
  - `PolicyIsFirst` (`OnlyLeftoverSkips`): a pattern that is passed over although it
    is there has a `lastIndex` other than 0, and since a search that fails leaves the
    place at 0 or as it was, it had one before the search for a policy began
    (`PathsInTurn`, `FirstFitting`).
  - `LimitsLimit` (`EveryLimitLimits`): a policy in force is one of a preset, or was given
    and validated (`PoliciesInForce`); from there, and from the sections of the
    options, place by place (`PolicyLimits`, `TopLimits`, `NestedLimits`, `DepthLimits`).
  - `SharingIsExplained` (`SharedOnlyByNameOrSeparator`), `PeopleKeepTheirCounter`
    (`NoSecondCounter`): every counter in use was made of a specification of the
    deployment and one of its requests (`CountedOK`). A join of two lists of texts, in
    which each text has as many parts as the one in its place, can be cut in one place
    only (`CutInOnePlace`), so equal joins have equal values (`JoinIsUnique`). Assumed:
    `TypesAreOwn`, two functions of the operator that pick different things do not give
    their keys one type, nor the type of a key of parts. The code takes any type.

  The loops of the code are recursive functions here. That such a function has a value
  after each turn is `Iteration`, from a set that no turn leaves; what holds after each
  turn is `Throughout`. Both come from the least counterexample, as an induction theorem
  cannot be used.

Only model-checked: liveness (`OverIsForgotten`, `EveryRequestIsAnswered`), which the
prover cannot do. The three expected violations are false, and so have no theorem.

## Not modelled, and the plan

- What a regular expression finds in a text, decoding and normalization of texts
  (`constants/patterns.js`, `src/detectors/sql.js`, `xss.js`, `src/utils`): over
  characters; the fixtures of the repository are the better check.
- Redaction and the look-ups by type of event normalization, the forms of a ban entry
  in a listing: text to text, without state.
- `src/observability/snapshot.js`: it reads the other parts; with `RedisStore` its
  count of active bans is 0 because `listBans` is asynchronous (line 22). Nothing under
  `src` calls it: the router's `/metrics` awaits the listings.
- Console reporter, demo, examples, scripts.
- Redis, Express and `ipaddr.js` are external and appear by what the code uses of
  them. `MemoryStore.clear` is modelled, `MemoryEventStore.clear` has no caller.

The modules above model what has state and the decisions it rests on, and every safety
property and refinement that a run checks is proved. What is left is the rest of event
normalization and the forms of a ban entry, should they come to carry state.
