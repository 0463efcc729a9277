# Camellia gateway: verification project

TLA+ models of the stateful core of Camellia – its API gateway, and the web
application that keeps the accounts, money, channels and prices which the gateway
works with – the TLC runs that check them on small instances, and theorems about
them that TLAPS proves for every value of the constants.

Camellia sells access to language models. A Go gateway (`src/gateway`) accepts
OpenAI-style requests, authenticates an API key, applies limits, forwards the
request to one of several upstream *channels*, and bills what was used. A
Next.js application (`src/frontend`) has the accounts, keys, payments and the
administration. PostgreSQL holds users, keys, channels, prices and billing
records; Redis holds counters, windows and caches. Production runs two or more
gateway replicas behind one load balancer (`docker-compose.production.yml:90`),
which share both stores and nothing else.

Contents: [inventory](#1-inventory) · [modules](#2-modules-and-the-code) ·
[runs](#3-what-the-runs-check) · [fairness](#4-fairness) ·
[proofs](#5-what-is-proved) · [disagreements](#6-where-code-and-comments-disagree) ·
[limits](#7-what-is-not-modelled) · [plan](#8-plan)

## 1. Inventory

### Gateway

| Component | State it keeps | Operations | Talks to |
|---|---|---|---|
| Circuit breaker (`internal/pool/circuit_breaker.go`) | per Channel object: state, consecutive failures and successes, cooldown, time opened, half-open count; a mutex | `Allow`, `RecordSuccess`, `RecordFailure`, `State`, `Reset` | called by the pool only |
| Channel pool (`internal/pool/pool.go`) | per replica: maps `byModel`, `byID` of Channel objects (an RW lock); in Redis: `channel:{id}:concurrency` with a TTL of two minutes; in PostgreSQL: `channels.status` | `LoadFromDB` (at start, then every 30 s from `HealthCheckLoop`), `AcquireChannel`, `ReleaseChannel`, `RecordSuccess`, `RecordError`, `Shutdown` | Redis, PostgreSQL, breakers |
| Request handlers (`internal/handler/proxy.go`) | one goroutine per request; a second one for a streamed answer | `ChatCompletions`, `executeWithRetry` (up to four attempts), `proxySSE`, `Embeddings` | every other component |
| Billing workers (`internal/billing/worker.go`, `record.go`) | a bounded channel of tasks, a shared buffer, a flush signal of capacity one, N workers and a flusher | `Enqueue`, `worker`, `periodicFlush`, `flushBatch`, `writeDirectBatch`, `RecordUsageWithShadow`, `Shutdown` | PostgreSQL (`users.balance`, `billing_records`), Redis (daily tokens) |
| Rate limiter (`internal/ratelimit/token_bucket.go`) | Redis sorted sets per key and IP, concurrency counter per user, tokens per minute | `AllowSlidingWindow`, `AcquireConcurrency`/`ReleaseConcurrency`, `CheckTPM` | Redis scripts |
| Authentication (`internal/middleware/auth.go`) | cache of key and user rows in Redis with a TTL | `Auth` | Redis, PostgreSQL |
| Quota and balance checks (`internal/billing/quota.go`) | none of its own | `CheckDailyQuota`, `RecordUsage`, `CheckBalance` | Redis, PostgreSQL |
| Pricing (`internal/billing/pricing.go`) | a map of prices per gateway, replaced by a refresh loop; a copy in Redis (`pricing:models`, five minutes) | `Load`, `GetPrice`, `CalculateCost` | PostgreSQL, Redis |
| Process (`cmd/server/main.go`) | – | start, signal handling, shutdown order | all |
| Tokenizer, Gemini adapter, payment stubs, metrics, model list | – | conversions | – |

### Frontend

| Component | State it keeps | Operations |
|---|---|---|
| Registration and login (`app/api/auth/*`, `lib/auth.ts`, `lib/email.ts`, `middleware.ts`) | `users`, `verification_codes`, session cookies (JWT, seven days) | send, verify and use a code; login; session; password; an administrator's change of rights |
| Login page and layouts (`app/login`, `hooks/use-auth.ts`, `app/dashboard/layout.tsx`, `app/admin/layout.tsx`) | tab, step and fields of the form; who the page thinks the user is | edit, ask for a code, submit, sign in, visit, log out |
| Keys (`app/api/keys/*`) | `api_keys` | create, disable, delete |
| Payments and balances (`app/api/billing/*`, `app/api/admin/users`) | `users.balance`, `users.daily_token_quota`, subscriptions | checkout (a stub), webhook credit, end of a subscription, an administrator's absolute writes |
| Pages of usage and users (`app/dashboard`, `app/dashboard/billing`, `UsersTab`) | the period or row shown, what was answered, `loading` | choose a period, refresh, edit a field |
| Channel administration (`app/api/admin/channels/*`, `app/api/admin/model-pools`, `ChannelsTab`) | `channels`, `model_pools`, the balances of upstream accounts, the pool that is open, forms, an import | create, edit, delete; open a pool (asks every key's balance); check, refresh, calibrate; import |
| Prices (`app/api/admin/pricing`, `PricingTab`) | `model_pricing`, the list shown | create or overwrite, switch on and off |
| Other pages and components, texts and translations | – | presentation |

### How they interact

A handler passes authentication, the IP and key windows and the user's
concurrency limit; checks balance and quota; acquires a channel, calls upstream
and records the result on the channel's breaker; it retries with another channel
on 401, 403, 429, 502–504 and connection errors; it releases the slot when it
returns and enqueues a billing task. The pool reloads from PostgreSQL every 30
seconds *replacing* every Channel object while handlers still hold old ones. The
frontend never calls the gateway: it changes rows, and the gateway sees them at
the next reload, cache expiry or query.

### What is hard about it

* Slots are counted by commands on a counter that other replicas change
  between any two of them: increment, expire, test, decrement on overflow; decrement,
  read and repair on release; a TTL; a deletion by a replica that stops. The client
  library sends a command again whose reply was lost (`db/redis.go` leaves its
  retries at their default), so any of them may take effect twice.
* A reload swaps the maps under running handlers; `AcquireChannel` reads one of
  them without the lock; results are reported to breakers no longer in use.
* A breaker hears of requests long after it changed state, and in any order.
* The pipeline of billing tasks has five places where a task can be when the
  process stops, three ways of being written, and statements that fail without
  effect, or take effect and report an error.
* Shutdown cancels, then closes, while handlers, workers and the flusher run on.
* The limits per minute are kept by gateways with clocks of their own, in keys that
  Redis drops by its clock, and some of the commands come one at a time.
* Routes of the web application are sequences of statements without a transaction,
  and other requests run between any two of them: a code is checked, marked and
  used; a channel is taken off its records and deleted; balances are read, asked
  for upstream for seconds, and written.
* Rows are cached by gateways, Redis, tokens and screens, and old copies are
  written back: an edited row by the console, a price or a daily counter by a
  slow query, an answer by a page that asked something else since.

`PROJECT.json` lists every hazard at its line. What makes each component
correct:

* *breaker*: does not close without the required successes; bounded probes; a
  rejected token stays out; it does not stay open for ever;
* *pool*: never more requests on a channel than `max_concurrency`, over all
  replicas, but for what a counter has lost; the counter drifts by faults only; no slot is lost for good; changes reach every
  replica; a channel taken out comes back; nobody gets stuck;
* *billing*: charged at most once; recorded only if charged; billed once when
  nothing fails; nothing left behind by a graceful stop; tasks get through;
* *limiter*: no more than the limit per window; who waits as told gets in; silence
  ends a refusal; acquire and release match;
* *authentication*: how long a disabled key still works;
* *balances*: every credit and every charge counts exactly once; the debt that
  checks let a user run into is bounded; less than a cent is given away per request
  whose price is found;
* *quota*: no token used today is missed; a quota comes back the next day;
* *accounts*: an account comes from a code mailed to its address, once; old codes
  and users who lost their rights stay out, although their tokens live on;
* *channels*: no billing record is lost with its channel; a key is in the pool of its
  model; the first reading of a balance stays the yardstick;
* *prices*: what a balance is asked for before a request is not more than what is
  charged after it; old prices do not stay in a cache;
* *screens*: a page shows what was last asked of it.

## 2. Modules and the code

| Module | Models | Code |
|---|---|---|
| `BreakerOps` | the breaker as operators from a record to a record | `circuit_breaker.go` |
| `CircuitBreaker` (uses `BreakerOps`) | one breaker, requests in flight and time | the same, as its tests use it |
| `Semaphore` | what a limit on concurrent use promises | abstract |
| `ChannelPool` (uses `BreakerOps`, implements `Semaphore`) | replicas, their maps and breakers, the shared counters, handlers, administrators, faults | `pool.go`, the calls in `proxy.go`, `channels/route.ts` |
| `BillingWorker` | queue, buffer, batches, direct writes, ledger, shutdown | `worker.go`, `record.go` |
| `Gateway` | a request from its API key to its billing task, and the order in which the process stops | `auth.go`, `token_bucket.go` (concurrency), `proxy.go`, `main.go` |
| `RateLimiter` | the windows of requests and the counter of tokens, with clocks, delays and expiry | `token_bucket.go` (windows, tokens), `proxy.go` |
| `Enrolment` | what registration promises of an address | abstract |
| `Accounts` (implements `Enrolment`) | codes, accounts, sessions, and the pages in front of them | `api/auth/*`, `lib/auth.ts`, `lib/email.ts`, `middleware.ts`, login page, layouts |
| `Ledger` | one user's money and daily quota, and the screens that show them | `quota.go`, `record.go`, `auth.go` (cache), `api/billing/webhook`, `api/keys`, `api/admin/users`, `UsersTab`, pages of usage |
| `ChannelAdmin` | channels, pools and balances under routes that interleave | `api/admin/channels/*`, `api/admin/model-pools`, `ChannelsTab`, `record.go` |
| `Pricing` | both tables of prices, their caches, the estimate and the charge | `pricing.go`, `proxy.go`, `record.go`, `api/admin/pricing`, `PricingTab` |
| `Sums` (used by `Ledger`, `ChannelAdmin`, `RateLimiter`) | the sum of what the records of a set cost | – |
| `MC…` | small instances for TLC | – |
| `GuardProofs` | theorems about `CircuitBreaker` and `RateLimiter` | – |
| other `…Proofs` | theorems about the module of that name | – |

**BreakerOps, CircuitBreaker.** Every method holds the mutex for its whole body
and is one operator: `AfterAllow`, `AfterSuccess`, `AfterFailure`, `AfterReset`.
The record has the fields of the Go struct, with two changes: `openAt` is the
age `sinceOpen`, since the code only asks whether `openAt + cooldown` has
passed; and `consecutiveFails` stops counting at the threshold, since the code
only compares it with that. `lastFailureTime` is written and never read.
In `CircuitBreaker` a request is admitted by `Allow` and reports
later – `RecordSuccess`, `RecordFailure(code)` – or never (`Abandon`, a streamed
answer). Four history variables remember what the properties ask: admissions in
this half-open period, successes since the last opening, ticks since the last
401/403, and whether a 429 followed it.

**ChannelPool.** Each Redis command, SQL statement and critical section is a
step of its own.

| Code | Actions |
|---|---|
| `LoadFromDB` | `Query` (SELECT, before the lock), `Clear` (locked: empty maps, new breakers), `Fill` (rows into the maps, `SET NX`, unlock) |
| `AcquireChannel` | `Arrive` (snapshot, sort, filter; `ArriveBlind` when MGET fails), `Try` (INCR and what it decides), `Renew` (EXPIRE), `Undo` (DECR), `Lookup`/`LookupNil` (the unlocked `byID` read), and for Redis errors `TryFails` (no EXPIRE follows), `UndoFails` |
| `executeWithRetry`, `ChatCompletions` | `Answered` (`RecordSuccess`), `Failed` (`RecordError` up to the write), `Persist` (its UPDATE), `ClearFailures` (the `RecordSuccess` that follows a 500) |
| `ReleaseChannel` | `Release` (DECR), `Floor` (GET), `Zero` (SET 0), `ReleaseFails` |
| a command sent again after a lost reply | `TryAgain`, `DecrAgain`, `ZeroAgain` (fault `repeat`) |
| TTL (`ttl`: an INCR or DECR alone makes a key without one) | `ExpireIdle`, and `ExpireLate` when a handler still has its slot |
| process | `Crash`, `LookupRace` (a concurrent map access stops a Go process), `Shutdown` (deletes counters) |
| `channels/route.ts` (POST, PATCH, DELETE) | `Administer` |

`byID` is the set of channels in the maps; a handler with `stale` set holds a
Channel object that a reload has replaced. `byModel` and `byID` always change
together under the lock, and all channels serve the one model asked for, so one
map is enough. A retry is a new `Arrive` of the same handler, so any number of
attempts is covered. Two histories say what a counter is off by: `leaked`, what
INCRs added that nobody will take off, and `spare`, what was taken off while handlers
go on without it – by a DECR that ran twice, or when the key went or was set to 0.

**BillingWorker.** A task has a stage – `new`, `queued`, `held`, `buffered`,
`batched`, `direct`, `priced`, `charged`, `recorded`, `finished` – and the
goroutine that carries it; the Go channel, the buffer and the batches are the
sets of tasks at a stage, as nothing depends on their order. `flushBatch` is one
transaction: `BatchCommits`, `BatchFails` or `CommitReplyLost`.
`RecordUsageWithShadow` is `NoTokens`, or `LookupPrice`, `Charge`/`ChargeFails`,
`Record`, `Count`. Two facts of the statements decide what a batch does and are
operators of their own: `InsertRejected` (`balance_after` is missing from the
INSERT of a batch and is `NOT NULL` without default) and `Unsent` (the cost
parameter is an `int4`, so the client refuses a bigger one and goes on with the
next task). `Shutdown` is `Cancel`, `Close`, then `Graceful` or `TimedOut`.

**Gateway.** A handler is a sequence of calls on Redis, the pool, upstream and
billing, with many returns; `pc` names the next call, and the deferred calls are
steps like the others, in the reverse order of their registration (`Unwind`),
which differs between the endpoints.

| Code | Actions |
|---|---|
| `Auth` | `AuthHit`, `AuthMiss` (PostgreSQL answers), `Fill` (HSET, EXPIRE); the TTL is `CacheExpires`; a change of the user or key in the frontend is `Toggle` |
| sliding windows | `Throttle`: passes or refuses (see `RateLimiter`); the handler of one of the two endpoints begins |
| `AcquireConcurrency` | `CheckUserConcurrency` (the script is atomic), `ConcurrencyFails` (lets the request through, whether or not the script ran) |
| tokens per minute, balance, quota | `Checks`: pass or refuse (see `RateLimiter`, `Ledger`) |
| `executeWithRetry` | `Acquire`, `AcquireFails`, `AcquireNil` (the nil channel of `LookupNil`), `AttemptFails`, `Answer`, all with `Retry` |
| the answer | `Stream` (starts the goroutines and returns), `Buffer`, `Enqueue` |
| deferred calls | `ReleaseChannel`, `CloseBody`, `ReleaseUserConcurrency`, `ReleaseUserFails` |
| the script or the DECR sent again after a lost reply | `SentAgain` |
| `proxySSE`'s goroutines | `StreamEnds`, `BillStream`, `StaleContext` (the `fiber.Ctx` is used after the handler gave it back) |
| `main` | `CloseBilling`, `StopServer`, `MainReturns` (the deferred second `Shutdown`) |

The pool is here a slot taken and given back, and billing a channel that is open
or closed: what they do inside is the business of their own modules.

**RateLimiter.** One user asks from one address, as users share no window but
that of an address. A client stands for what tells requests apart: the endpoint
(embeddings ask no window of the address and count no tokens), the limits of its key,
and the gateway, whose clock is `Ahead` of Redis'. Time is in ticks; a call arrives
within `MaxDelay`, and the script and the TTL go by Redis' clock, `now`.

| Code | Actions |
|---|---|
| `ChatCompletions`, `Embeddings` | `Post`; `After` is the next limit asked |
| `AllowSlidingWindow` | `Reach` (reads the clock), `Pass`, `Refuse` (the script is atomic), `WindowFails` (lets the request through, or runs the script once more, whether or not it ran) |
| `CheckTPM` | `Unlimited`, `Incr` (INCRBY), `Expired` (EXPIRE, then the test), `TokensAgain` (the reply is lost: both are sent again), `TokensFail` (the error lets the request through, whatever was run) |
| `rateLimitResponse` | `Answer`: the client remembers when it was told to come again |
| Redis | `Tick`: drops what has expired |

`ghost` is the history the properties speak of: what entered a window, and what was
asked for, with the time, the counter it was told of, and whether it was let through
by the test (`counted`) or by a failure (`unchecked`).

**Enrolment, Accounts.** An address is `unknown`, `written` to, or a `member`;
`Enrolment` lets it go one step at a time and never back. In `Accounts` a route is
a record in a slot of `reqs` whose `at` names its next statement; a statement that
fails (`Break`) ends in the route's `catch`. A code is named by its row.

| Code | Actions |
|---|---|
| `send-code`, `register` without a code | `Unique`, `Delete`, `Insert`, `SendMail` – the old codes are deleted in one statement, the new one comes in the next |
| `register` with a code, `verify-code` | `ReadCode` (the newest unused one), `Mark`, then `Create`, or `Find` and `Grant` (signs in, or creates the account) |
| `login` | `Lookup` (by email, by name, by name in lower case) |
| `getSession` | `Session`; `SessionBlind` (the database fails: the claims of the token are believed) |
| `password`, PATCH of `admin/users` | `AfterSession`, `Compare`, `Update`; `Patch` (status, role, name), `PatchRefused` (a name that is taken) |
| time | `Expire` (codes), `TokenExpires` |
| login page | `SetTab`, `EditEmail`, `DifferentEmail`, `SendCode`, `CodeSent`, `VerifyCode`, `Submit`, `Refused`, `SignedIn` |
| `middleware.ts`, `useAuth`, layouts | `Visit`, `Mounted`, `Logout` |
| any client | `Call` (holds any token issued, sends any code mailed), `Answered` |

`send-code` mails to the address as it was typed and writes the code for the same in lower
case without blanks; both are one mailbox here.

A request for which its page no longer waits has `live` false: `fetch` is not
aborted, so its effects happen all the same.

**Ledger.** Users share nothing of it, so there is one. A request is in one of the
steps between authentication and the publication of its balance.

| Code | Actions |
|---|---|
| `Auth` | `Auth` (hit or read), `Fill`; `AuthExpires`, `CreateKey`, `DeleteKey` |
| `CheckBalance` | `CheckBalance` (free tier only; no price, no check; the prompt's price only is asked for), `Embeddings` (neither balance nor quota is looked at) |
| `CheckDailyQuota` | `GetCount`, `GetLimit`, `Select`, `SetLimit`, `SetCount`; `CountExpires`, `NextDay` |
| the request itself | `Serve` (its size is known after it) |
| `RecordUsageWithShadow` | `Charge` (nothing, when no price is found), `RecordIt` (refused when its key or its channel is gone), `Publish` (INCRBY, which may be sent twice) |
| DELETE of `channels` | `DeleteChannel`: one of the channels that serve the user |
| webhook | `Completed` (credit or plan), `Cancelled` |
| `UsersTab`, GET and PATCH of `admin/users` | `ListUsers`, `Listed`, `SaveField` (absolute) |
| pages of usage | `Choose`, `Shown` (the two answers of a question, or none) |

`ghost` is the history the properties speak of: the balance last written as such,
what requests were worth and what they paid, what was charged `unchecked` and what was
`waived` because no price was found, the numbers of questions asked.

**ChannelAdmin.** Two slots, `jobs`, hold routes that take several steps and the
goroutines they start without waiting; the console's form for a new key, its edit
dialogue and its import are state machines of their own.

| Code | Actions |
|---|---|
| POST of `channels`, `fetchInitialBalance` | `AddKey` or `ImportKey` (insert), then `InitialAsk`, `InitialWrite` |
| GET of one pool | `OpenPool`; `Keys`, `DetailAsk` for each key, `DetailWrite`, `DetailAnswer` |
| DELETE of a channel, of a pool | `DeleteKey`, `DeletePool`; `ChannelFirst`/`ChannelSecond`, `PoolFirst`/`PoolSecond` |
| PATCH, `check-balance`, `calibrate-balance` | `EditKey`, `CheckBalance`, `PatchFirst`, `Refresh`, `Calibrate` |
| `ChannelsTab` | `CreatePool`, `Back`, `Listed`, `Added`, `StartImport`, `FindPool` |
| `record.go` | `RecordBilling` (charged, then recorded unless the channel is gone); the shadow billing of Gemini is never reached, as every caller passes an empty provider (`record.go:15`, `worker.go:264`) |
| upstream | `Account` (external: any balance at any time) |

**Pricing.** Models share nothing, so there is one.

| Code | Actions |
|---|---|
| `Load`, `StartRefreshLoop` | `Refresh` (`Query`, then `Replace` of the map and of Redis); `RedisExpires`, `Restart` |
| `GetPrice` | `Start` (a chat of the free tier or another, or embeddings, which ask for no price), `Memory`, `Redis`, `Database`, `Store` |
| `CalculateCost`, the check | `Pool` (the pool's price if it has one, else the table's); `Estimated` (whole cents, one at least, free tier only) |
| the request, `RecordUsageWithShadow` | `Serve`, `Charge` (by the active pool's row), `Fallback` (by the table), both cut to whole cents |
| `PricingTab`, its route | `Submit`, `ToggleActive`, `List`, `Listed` |
| `model-pools` | `PoolChanges` |

## 3. What the runs check

| Run | Instance | Result |
|---|---|---|
| `breaker` | thresholds of the product (5 failures, 2 successes, 2 probes), ticks of 15 s, 3 requests in flight | passes, 96 000 states |
| `pool_slots` | 2 replicas, 2 channels (1 slot preferred, 2 slots), 2 handlers, one fault of any kind | passes, 1 105 000 states |
| `pool_progress` | 1 replica, 1 slot, 2 handlers, 2 outcomes, 2 faults (a Redis error, a repeat, a crash), an administrator | passes, 181 000 states |
| `billing` | 2 tasks of every kind, 2 workers, a channel of 1, a fault and a shutdown at any time | passes, 208 000 states |
| `gateway` | 2 requests of 1 user with limit 1, either endpoint, 1 retry, 1 fault, 1 change of the key, a shutdown at any time | passes, 246 000 states |
| `accounts` | 2 requests at a time, 1 browser, an administrator and a new address, 2 names that differ in case, 2 codes, 3 requests, 1 field changed by a PATCH, 1 fault | passes, 1 494 000 states |
| `ledger` | 2 requests before their charge, 1 key, 2 tiers, a token at half a cent, 2 days, seven profiles | passes, 2 881 000 states |
| `channel_admin` | 2 channels (1 of Gemini), 2 pools, 2 routes at a time, seven profiles | passes, 470 000 states |
| `pricing` | 2 gateways, 2 requests, 2 prices in halves of a cent (below a cent and above), 2 rows of pools (free, per call), five profiles | passes, 1 317 000 states |
| `rate` | 2 clients, a Redis error, two setups – windows: one client of each endpoint, limits 2 and 1, gateways that differ by a tick, 4 requests in 7 ticks, of which a minute has 4; tokens: limit 2, prompts of 1 or 2, 3 requests in 3 ticks, of which a minute has 2 | passes, 4 743 000 states |
| `billing_shutdown`, `quota_reset` | small | the comment quoted is violated, see §6 |

`breaker` – `ClosedIsHealthy`: a closed breaker has fewer failures than the threshold,
and closed only after `SuccessThreshold` successes recorded since it opened;
successes of one half-open period do not count in the next. The code does not ask
who reports them: a request admitted before the opening that succeeds in half-open
counts, and the property allows it. `ProbesAreBounded`:
`HalfOpenMaxReqs + 1` admissions at most (the request that turns the breaker
half-open is not counted by the code). `AuthQuarantine`: after a 401/403 the
breaker is open for five minutes unless a 429 is recorded or `Reset` called.

`pool_slots` – `SlotsLimited` (refinement): the pool is a semaphore for each channel: a handler
gets a slot only if one is free, keeps it until it leaves and never swaps it, so at no time do more
handlers hold a slot of a channel than `max_concurrency` and what its counter has
lost (`spare`), over all replicas (`SlotsBounded`). `SlotsAccounted`: the counter
is exactly the handlers between INCR and DECR plus `leaked` – a panic, a crash, a
failed DECR, an INCR that ran twice or whose error hid that it ran – less `spare` – a DECR that ran twice, a
counter that expired, was deleted or was set to 0 under its handlers. So the limit
is exceeded only by these, and by no more than they took off. Every kind of fault
happens in this run, once in a behaviour: an INCR or DECR sent twice, an expiry and a
deletion under a handler, and after these the negative counter that leads to `Zero`. Two handlers on a one-slot channel force the overflow
and its rollback; the second channel makes a handler go on to another
candidate; two replicas make reloads meet handlers of the other replica.

`pool_progress` – `FullChannelFrees`: a channel that looks
full does not stay so (lost slots expire with the counter), if its counter has a TTL. It
has none when an INCR reported an error after it took effect, or its handler died, before
the EXPIRE: then nobody tries the channel, nothing renews the key, and it looks full until
a handler whose MGET failed takes it for free, or a replica stops and deletes it.
`OpenChannelReturns`: nothing calls `Allow`, so only the reload brings a channel back.
With one replica and one channel every handler contends for the same slot; two
faults are what it takes to lose the slot of a counter that has a TTL, and then one that
has not. Late expiry and `Shutdown` only take off counters, so they are left to `pool_slots`.

`billing` – `NoDoubleCharge`, `FinishedIsBilled`, `GracefulLeavesNoBuffer` and
`EnqueuedGetsThrough`. A channel of one makes the second task overflow; two
workers and the flusher race for the buffer in a shutdown; the pairs of kinds
put a task without tokens and one too big for the batch together, so a batch
that commits, one that aborts and an empty one all occur.

`gateway` – `UserLimitHolds` and `UserCounterExact`: whichever return or panic
ends a handler, the user's counter is the number of handlers at work, until a
Redis command fails or is sent twice, a counter expires under a slow handler or the server stops
(these are counted in `faults`). `SlotsSettled`: the slot of every attempt is
given back once. `BilledOnce`, `AnsweredIsBilled`: whether an answer is streamed
or buffered, it is billed once, unless the process stops. `RevokedKeyDies`: a
handler that read the row before the key was disabled may fill the cache after,
but the entry dies. Two requests with a limit of one make the
second be refused or wait its turn at every point of the first; one retry makes
a slot be taken twice by a request; the limit of five that embeddings uses
whatever the tier (`EmbeddingsLimit`) equals the user's, as in the free tier. One
change of the key is enough: it may come at any time, and twice is as before.

`accounts` – `Enrols` (refinement): whatever routes run together, fail and are
repeated, an account comes into being once, after a code was mailed to its own
address, and stays. `OnlyNewestCode`: a code that was used or replaced when a
request was sent does not let it in. `SpentCodeHasAccount`: a used code leaves its
email or name registered, unless the database failed in between, or the holder of
that name was given another one since. (That takes four requests – a registration refused
for a name that is taken, then a rename – where the run has three; the theorem of §5 has any number.) `LockedOut`: a
token outlives its user's rights, but nothing is done with it while the database
answers. `FormTellsTruth`: the form that says a code was sent to an address says
the truth, unless the address was edited while the answer was under way. Two
addresses and names, one of each free, make registrations meet a name or an
address that is taken, two codes a replacement, three requests the overlap of two
with one before them.

`ledger` – `Overdraft`: as long as nobody typed a balance, the debt of a user is less than the requests that may run
together can cost, and what was charged without a look at the balance. The code looks for chats of the
free tier on a model with a price only: what embeddings, models without a price and
other tiers add to a debt has no bound in the code. `Explained`: the balance is what was there, and what was credited since, less the
records, the charges about to be recorded and those whose record was refused – by an error, or because the
key or the channel that it names was deleted while the request was under way.
`Undercharged`: less than a cent per request is given away, and the whole of a request only
when its price is not found at the time of the charge. `Counted`: once the
day's counter is loaded, and unless a charge ran into the loading, it misses
nothing. `ScreensSettle`: a screen ends with what was asked of it last, unless an
old answer came late. Sizes of one and three half cents make costs that are cut;
two requests and a cent make the debt; two days the counter's expiry and midnight
inside a check.

`channel_admin` – `RecordsKept`: no record is lost with its channel, and none names a channel that is
gone, although a DELETE may stop half-way; what is charged after the channel is gone has no
record, and is counted apart. `PlacedRight`: a key is in the pool of its
model although pools come and go during an import. `InitialStays`: an initial
balance changes only by a route that read none. Two keys, two pools and two jobs
are the fewest with which one route overtakes another on the same row.

`pricing` – `EstimateHolds`: the balance of a request that nothing disturbed is not asked for more
cents than are charged, but for the least cent, and where a pool without a price makes free what
the table has a price for; and a chat of the free tier that the table charges was asked. `CachesCatchUp`: when prices are left alone, old ones vanish
from every gateway, whatever a slow refresh or Redis puts back. Two gateways let one
put back into Redis what the other has replaced; every initial row is tried.

`rate` – `WindowHolds`: in no period that is surely within a minute by every
gateway's clock, a window lets more members in than the limit, although scripts run in
another order than clocks were read and each cleans the window by its own clock.
`RetryIsEnough`: a client that comes again when it was told is not refused again by
that window, unless somebody else was let through, or the window held more than its own
limit. `TokensHold`: no minute lets more tokens through than the limit and those
that a failed pipeline let through (it lets everybody through, whether or not it counted), unless
the counter expired between INCRBY and EXPIRE. `SilenceHelps`: when no INCRBY was run in the
last minute, a request is refused only for a prompt that is too big by itself, unless an EXPIRE
was lost. An INCRBY that is sent again after a lost reply counts twice, so that its own
request may be refused for what it asked once: the first of the two is an INCRBY in that minute. A behaviour starts with one of two *setups*, since the windows and the counter
share no key. A second of two ticks makes the rounding matter; four requests fill both
windows, wait and come again; with three, one client's commands come between the other's
and a counter lives on by renewals. The minute of the windows is four ticks, that of
the tokens two: they are two arguments in the code.

Bounds: `MaxInFlight`, `MaxFaults`, `MaxAdmin`, `MaxToggles`, `MaxCodes`, `MaxPosts`,
`MaxBalance`, `MaxTokens`, `MaxChanges`, `LastDay`, `MaxDelay`, `MaxAhead` are named in their modules; `MaxCents` is not a bound of
the model but the dearest request, of which `Overdraft` speaks. `Ledger`,
`ChannelAdmin` and `Pricing` have many kinds of event, and a bound for each, in a
record of `Caps`; a behaviour starts with one of them. The *profiles* in their MC
modules each allow the few kinds that interact – money (charges, credits, a deleted
key, a fault), the day, the users' table, an import among deletions – because kinds
that share no state add states and no case. The theorems of §5 hold whatever `Caps` is. One
fault per behaviour is enough for these properties to be at risk: each fault by
itself breaks an invariant of a weaker design (the mutants are such designs), and
the theorems of §5 hold for any number; `pool_progress`, which has no theorem, has two. The breaker's run needs no bound
other than three requests in flight, one more than the probes it counts.
Deadlock is checked except for billing, the gateway, accounts, ledger,
channel administration and the rate limiter, where a process that ended is the end,
clients may stop asking, or the setup's time is over.

Each module has one type invariant. The runs check those of `CircuitBreaker`, `Ledger`,
`ChannelAdmin` and `RateLimiter`; all of them are theorems (`…TypeCorrect`, §5).

## 4. Fairness

* *ChannelPool*: each handler (its calls time out), the reload of each replica (a
  ticker of 30 s), and `ExpireIdle` (Redis drops a key whose TTL has passed). No
  fairness for arrivals, administrators, faults or late expiry.
* *BillingWorker*: each worker, the flusher, each batch and each direct write.
  `writeDirect` sets no timeout, so a statement ends, at the latest, with its
  connection. No fairness for handlers or shutdown.
* *Gateway*: each handler and the goroutines of each stream (Redis, PostgreSQL and
  upstream answer or fail, upstream after five minutes), and `CacheExpires`. None
  for a change of a key, an expiry of a counter, or the shutdown.
* *Pricing*: the refresh of each gateway (`main.go:55` starts the loop, a ticker).
  None for requests, Redis' TTL or the console.
* *CircuitBreaker, Accounts, Ledger, ChannelAdmin, RateLimiter*: none; their properties are about
  what must not happen.

## 5. What is proved

TLAPS checks these for all values of the constants that satisfy the modules'
assumptions (`BreakerAssumption`, `InFlightAssumption`, `PoolAssumption`, …), each of
which some run evaluates. Only `LimitsExact` in
`ChannelPoolProofs` needs one more, named there.

`GuardProofs`, of the breaker: `BreakerTypeCorrect`, `ClosedHealthy`, `ProbesBounded`,
`AuthQuarantined`. The invariant adds to the types what the properties need of
the other states: in half-open the number of successes counted equals the number
recorded since the opening, the admissions exceed the counted probes by one, and
while a 401/403 counts, the cooldown is the longest one and `sinceOpen` does
not exceed `sinceAuth`.

`GuardProofs`, of the limits per minute: `LimiterTypeCorrect`, `WindowsHold` (`WindowHolds`),
`RetriesEnough` (`RetryIsEnough`), `TokensBounded` (`TokensHold`), `SilenceEnds`
(`SilenceHelps`), for any clients, limits, sizes, clocks, delays, seconds and faults. None of the
properties is inductive. *Windows*: what entered within `Surely` is still a member, since
no call that comes now can bring a clock so far ahead that it cleans it away, and the key lives
longer than that (`Remembered`); so the members that the property counts are a
subset of the window, which a script has just found to be below the limit. *Retries* (`RoomAt`):
while a client waits undisturbed, the window is within its limit, and if it is full, some member of it
will be out when the client comes again; the time it was told is rounded up, which is what
makes this last. A script may run when the window has shrunk since, never when it has grown,
as who enters ends the `quiet` of all others. *Tokens* (`TokensInv`): every request was told
the counter as it was with its own tokens in it. For every `v`, the requests of the last
minute that were told `v` or less asked for `v` or less in sum; the limit is one such `v`. A request
that counts for the property keeps the counter alive for its minute, so when the counter goes, all of them
are old – unless it goes between an INCRBY and its EXPIRE. What a failed pipeline lets
through was told nothing, and is added to both sides; an INCRBY that ran twice makes the counter too
high, which refuses more and lets through no more. *Silence*: without a lost EXPIRE
and with no other INCRBY in between, its own first sending included, the counter dies a minute
after it was touched, so who comes later is told its own size. The entries are told apart by the numbers of their requests
(`NumbersInv`). Least and greatest elements, with which `Min` and `Max` are defined, come
from the fact that numbers do not descend for ever (`WellFoundedInduction`), and sums are
counted as in `Ledger`, below. The assumption that matters is `Surely > 0`: the
time-outs of Redis calls and the differences of the gateways' clocks are together
less than the minute; with more, a gateway could clean away what has just entered.

`ChannelPoolProofs`: `TypeCorrect`, `CountersAccounted` (`SlotsAccounted`), `LimitsHold`
(`SlotsBounded`), `PoolIsSemaphore` (`SlotsLimited`), for any number of replicas, channels
and handlers and with every fault; and `LimitsExact`: nothing but an expiry under a handler, a
stopping replica and a command sent twice (`NothingLost` excludes the three) ever makes a counter
too low, so without them `max_concurrency` holds as it stands, whatever else fails. The
counters and the limits are one invariant: a counter is the cardinality of its *window* –
the handlers between INCR and DECR – plus `leaked` less `spare`, and a handler whose INCR
returned at most the limit is one of its *holders*. Every step either leaves the
window of a channel alone, or adds or removes one handler and one unit of its
counter, or changes the counter and a history alike; a counter that is gone or set to 0 has lost
its whole window. That the holders are within the limit and `spare` follows at the INCR, since the
window includes them. `LimitsExact` adds that nobody comes to SET 0, as a counter that lost nothing
is not negative. Lemmas on cardinality carry the arithmetic. The refinement maps what a handler is
inside of to the channel it holds (`Slot`): an INCR within the limit is `Enter`, whose guard
follows from the invariant, the DECR, a lost slot and a replica's death are `Leave`, and all
else, the INCR over the limit and its rollback included, is stuttering.

`BillingWorkerProofs`: `TypeCorrect`, `ChargedAtMostOnce`, `GracefulDrain`, `BilledExactly`, for
any number of tasks, workers and faults. The ledger part of the invariant says,
stage by stage, what may already have been charged and recorded: nothing before
a direct write has begun, and nothing of a batch. It relies on the fact that
`flushBatch` never commits a charge (`InsertRejected`): the mutant that makes
the column nullable lets a lost commit reply charge twice. The drain part says
that a buffer that is not empty has a worker still running to drain it, and
that a goroutine that stopped carries nothing. `BilledExactly` (`FinishedIsBilled`) needs
the other direction, while no fault has happened: what a stage implies was
charged, recorded and counted, has been, and no batch with an ordinary task in it commits.

`GatewayProofs`: `TypeCorrect`, `UserLimited`, `CounterExact`, `SlotsReturned`,
`BilledAtMostOnce`, for any number of requests, users, attempts, faults and
changes, from `GatewayAssumption` (which needs `Requests` finite, so that the
handlers of a user can be counted). The invariant has three accounts. *Slots*: a
request has as many as were lost with a nil channel, plus one between the
attempt under way and its deferred release; the place of that release differs
between the endpoints. *Bills*: while an answer is being passed on by the handler, nothing
was billed and no stream runs, and a stream that has not been billed has no bill
– so the handler and the goroutine cannot both bill. *Counters*: as long as
nothing failed, the counter of a user is the cardinality of the handlers at work,
and within the limit; a refused request is not among them. Few steps
touch the counter or that set: `CheckUserConcurrency` adds to both or to neither,
`ReleaseUserConcurrency` takes one from both, an expiry without fault finds
nobody at work, and `ConcurrencyFails` and `SentAgain` end the calm; all others are `Quiet`.

`AccountsProofs`: `TypeCorrect`, `NewestCodeOnly`, `CodesBuyAccounts`,
`TokensGiveNoRights`, `FormIsTrue`, and `Implements` (`Spec => Enrols`), for any
requests, browsers, addresses, names, codes and faults. The invariant relates the
tables (codes are numbered in the order of their rows; a used one has an account,
a request that is about to create it, or an excuse, a fault or a rename), each request (what its step
implies of the rows it has read: a code it may still use was mailed to its address;
a code it was sent with after it was replaced does not pass; a barred user's request
gets no further than the session), and each form (verifying implies a code mailed,
or an edit). Most steps move a request and leave the tables, so a lemma `Moved`
takes the invariant across any such step, and the rest are one lemma each. The
refinement maps `Create` and `Grant` to `Join`, `SendMail` to `Write`, all else to stuttering.

`LedgerProofs`: `TypeCorrect`, `DebtIsBounded` (`Overdraft`), `LessThanACent` (`Undercharged`),
`ScreensSettled` (`ScreensSettle`), `BalanceExplained` (`Explained`), `QuotaCounted` (`Counted`), for any requests, keys, prices, sizes, payments,
edits, days and faults. *Debt*: while nobody has typed a balance (`plain`), a request whose balance is looked at takes off only
when it sees a cent or more, and takes `MaxCents` at most when it lands; so with `Landed` requests of the slots not
in the air, the debt is less than `Landed * MaxCents` and what was charged `unchecked`, and a take-off, which lowers
that bound, happens at a balance above it. *Cents*: the sum of what was worth and the sum
of what was paid differ, charge by charge, by less than `Unit`, or by a whole request that is counted as `waived`. *Screens*: questions
are numbered; what is on its way is older than what was asked last, and the
screen shows the newest answer unless one was overtaken or failed. *Sums* (`MInv`): what
`Total` adds up is the size of a set of pairs, a record with each of its cents (`Sums`), so that
facts on cardinality say what one more element does, where a fold would need induction. Records and
requests are told apart by their numbers (`NumberInv`); a request between its charge and its record
is counted until the record, or `goneCents`, takes its place; `goneCents` grows only by a fault or when
the key or the channel is deleted. `Counted` needs to know besides
what a check of the quota has in hand while the counter is not loaded (`ClockInv`), and that the
records of a key go with the key (`KeyInv`).

`ChannelAdminProofs`: `TypeCorrect`, `RecordsSurvive` (`RecordsKept`), `KeysPlacedRight`
(`PlacedRight`), `InitialBalanceStays` (`InitialStays`), for any routes at a time, forms, imports and
faults, also when `Channel` and the pools are infinite sets. Ids are given once
(`IdsSpent`), so what a list shown long ago says of a pool is true as long as that
pool is there (`Still`) and an import whose pool was found and deleted cannot put its key into
another that got the same name. The records that name a channel go before it does, in
either order of the two statements, and those of a channel gone cannot come back, since its
id does not; a request in flight that is charged later has no record (`lost`).

`PricingProofs`: `TypeCorrect`, `EstimateIsBound` (`EstimateHolds`). While an
undisturbed request is under way nothing remembered or on its way – caches, Redis, a
refresh, another request's hit – differs from the tables (`Settled`), so estimate and
charge read the same price although they read it at different places; what is left
is that each rule of the one gives no more whole cents than the rule of the other, the least cent
and free pools apart, and that the balance of a free user is looked at whenever the table has a price.

Only model-checked: all liveness – `EnqueuedGetsThrough`, `AnsweredIsBilled`,
`RevokedKeyDies`, `OpenChannelReturns`, `FullChannelFrees`, `CachesCatchUp` – since TLAPS
here proves neither fairness nor `ENABLED`. Every other property that a run finds to hold is a theorem.

## 6. Where code and comments disagree

Each of these two has a run that shows it.

1. `billing_shutdown`: `worker.go:96` – "flushing remaining tasks". Workers leave
   on the cancellation, with tasks still in the channel.
2. `quota_reset`: `quota.go:75` – "daily token quota exceeded (%d/%d). Resets at
   %s". A new day loads `users.daily_token_used` (`quota.go:51`), which nothing
   resets, so a user who used up a quota once is refused on every later day.

Met while modelling, and visible in the modules without a run of their own.

*Gateway*

* `pool.go:151` – "AcquireChannel atomically selects and acquires a concurrency
  slot". After the INCR, `byID` is read without the lock; a reload in between yields a
  nil channel with no error (`LookupNil`). The handler panics and the slot is lost until
  the counter expires.
* `REDIS_SCHEMA.md:39` – "Current minute token count". Every request, a refused one
  too, renews the whole minute (`token_bucket.go:199`), and nothing else lowers the
  counter: without a pause of a minute it counts many minutes.
* `token_bucket.go:24` – "checks if a request is allowed under a sliding window limit". A
  member is the millisecond and `math.random`, which Redis seeds alike for every run of a
  script, so that requests of one millisecond are one member (`Salts` has one element).
* `circuit_breaker.go:141` – "5xx or other errors: threshold-based". A 500 is passed
  on like an answer, so `proxy.go:188` records a success after the failure and the
  count never grows (`ClearFailures`).
* `worker.go:188` – "in a single transaction". The INSERT omits `balance_after`; every
  batch with an ordinary task is rolled back and written one by one.
* `REDIS_SCHEMA.md:43` – "Active concurrent requests". A streamed answer is written by a
  goroutine that starts after the handler has returned, so its request has left the
  counter (and its channel slot, and the body has been closed) before the stream begins.
* A 429 reported after a 401 replaces the five minutes by fifteen seconds
  (`circuit_breaker.go:124,133`); `AuthQuarantine` excludes it.
* A failure in half-open below the threshold leaves the breaker half-open, and
  successes need not be consecutive to close it, although the field is named so
  (`circuit_breaker.go:37`). Half-open has no way out if its probes never report.
* Counters: a TTL that passes under a slow handler (two minutes against five),
  and `Shutdown` deleting the keys of a pool that others use (`pool.go:304`),
  both let a channel exceed its limit, and so does a DECR that the client library sends
  again after a lost reply (`db/redis.go:10` leaves `MaxRetries` at its default), which is
  counted twice; the floor in `ReleaseChannel`
  (`pool.go:202`) does not restore the count while handlers overlap.
* EXPIRE follows an INCR that succeeded only (`pool.go:178`). A key that an INCR made whose error
  hid its effect, or whose handler died before the EXPIRE, has no TTL, and a channel that
  such a key shows as full stays so until a handler that could not read the counters takes it,
  or a replica stops.
* A late `RecordError` writes `active` over `disabled` (`pool.go:226`), and a
  reload ends the quarantine of a rejected token after 30 seconds at most
  (`pool.go:108`).
* `Enqueue` on the closed channel panics (`worker.go:86`). A cost above 21.47 yuan
  is not sent with its batch, and a batch of nothing else commits without
  charging anybody (`worker.go:212`). When the price lookup fails the cost is 0.
* The record of a request whose key or channel was deleted while it was under way is refused by
  the foreign key (`record.go:76`, `001_init.up.sql:143`), after the charge: the user pays for what no record names.
* `Embeddings` asks neither the balance nor the quota (`proxy.go:388`), and `ChatCompletions` asks
  the balance of the free tier only (`proxy.go:99`).
* The shadow billing of Gemini is dead code: every caller passes an empty provider (`record.go:15`, `worker.go:264`).
* The second `Shutdown` of billing, deferred in `main.go:59`, closes a channel that
  the signal handler closed already (`main.go:157`): as soon as `Listen` returns,
  the process dies instead of waiting for requests. Before that, a stream that
  ends when billing is closed panics in a goroutine without `recover`.
* `proxy.go:309` asks a `fiber.Ctx` for its context after the handler has returned
  it to the pool of such objects.
* `REDIS_SCHEMA.md:13` says the TTL of a cached key is "refreshed on each
  authenticated request". The code does not refresh it on a hit – and if it did,
  `RevokedKeyDies` would fail for a key in use. When EXPIRE fails after HSET, the
  key stays in the cache for ever.
* When Redis fails in `AcquireConcurrency` the request is let through uncounted
  and still released, so the counter may be too low, or below zero without a TTL; so may
  it when the script or the DECR is sent again.
* A request refused by the user's window has entered the address' window all the same,
  and one refused for its tokens both. A key's own limit applies to the window that all keys of the user
  share; embeddings apply the default to it. `CheckTPM` always says to come again in
  ten seconds, when the counter has a minute to live. A window's script that the client library repeats
  may refuse the request it let in before.
* An INCRBY whose EXPIRE is lost leaves a counter that never goes until the next
  request; when the counter expires in between, the tokens are forgotten. A pipeline that fails
  lets its request through, counted or not (`token_bucket.go:201`); one that is sent again counts it twice.
* A rejected attempt renews the TTL of the counter, so a user whose counter is too
  high and who keeps asking stays locked out.
* Answers with an error status that is not retried (4xx, 500) are billed with the
  prompt's tokens, and so is an answer to embeddings.
* Costs are truncated to whole cents, while `ARCHITECTURE.md` §4.2 says there is
  no minimum of one cent.

*Accounts*

* `middleware.ts:20` – "Protect dashboard and admin pages". The public paths contain
  `/`, which is a prefix of every path, so every page passes; the layouts turn
  visitors away after the page has asked who they are.
* `verify-code` creates accounts without a name. `ARCHITECTURE.md:155` has no `NOT NULL`
  on `users.username`, the first migration (line 25) has: the constant `NamelessUsers` covers both.
* A PATCH of `admin/users` may rename the account for whose name a registration was refused after its
  code was marked: the code is used, and neither its email nor its name has an account.
* `send-code` keeps the code under the address in lower case without blanks, and mails it to the address
  as it was typed (`send-code/route.ts:29`).
* `getSession` believes the token's claims when the database fails. A request to
  sign in to a disabled account uses up its code.

*Money and keys*

* `users.daily_token_used` is shown as "Used Today" by the wallet page (line 34). A
  share of a model is its tokens of all time by this month's total and may exceed
  100 %.
* A webhook that is delivered twice is credited twice, and its signature is not
  looked at. Nothing acts on `subscription_expires_at`; `RecordUsage` has no caller;
  the hash `user:{id}` in Redis is written but never read.
* A key that was used cannot be deleted (the records refer to it): the route answers
  with 500. `keys/[id]` says "admin can override"; it does not let an administrator.
* Tables and pages do not drop answers that come late.

*Channels*

* The form for a new key writes the balance it fetched to the first key of the pool,
  not to the new one. `BalanceRefresher` is never mounted (`page.tsx:526`).
* The import looks pools up in the list shown when it began, so a name that comes
  twice asks for its pool a second time, is refused, and its key is skipped without a word.
* An answer to `loadPoolDetail` that comes late reopens the pool after Back.
  Balances of zero are never written, so a drained account keeps its last one. The
  edit dialogue saves its whole, possibly stale, row. `calibrate-balance` has no caller.

*Prices*

* Tier discounts are part of `CalculateCost` alone and are never charged.
* An active pool without a price makes a request free, while the estimate falls back
  on the table. A model that has a pool's price only is charged, but its balance is
  not checked.
* `vip_discount || 0.9` turns 0 into the default. `rows.Err` is not looked at in
  `Load`, so a partial map may be put in place and into Redis. The form's `editing`
  changes only the message: saving always overwrites.

## 7. What is not modelled

* The clock inside the pool: the gateway never calls `Allow`, so cooldowns do not
  matter there. `probeRecovered` and `activeProbe` look for half-open breakers,
  which exist only after an `Allow`.
* Weights of channels (ties are broken in any order), decryption, TLS, message
  formats, the Gemini adapter, tokenizer, metrics and payment stubs: no state, or
  data the properties do not see.
* `rows.Next` breaking off half-way through a load of channels. Redis dropping
  keys before their time, for want of memory (`allkeys-lru`, `docker-compose.production.yml:207`); for a
  key with a TTL it is an early expiry, which the models allow anyhow where they have one.
  `Shutdown` of the pool deletes its counters in one step.
* What happens to cache and counters after their process is gone, and sharing
  between replicas outside `ChannelPool` and `Pricing`: the scripts are atomic, and a second
  replica would be more handlers.
* `AllowTokenBucket`, which has no caller. `Gateway` keeps the windows and tokens per
  minute as choices (`Throttle`, `Checks`), and `RateLimiter` has one user.
* Codes that are guessed or equal by chance, nicknames, the columns of users,
  channels and prices that change nothing else, the discounts of tiers, and prices
  of input and output apart.
* Dashboards' charts, documentation and landing pages, settings other than the
  password, translations: presentation.
* The composition of pool, billing and server in one stopping process; each is
  stopped in its own module at any time.

## 8. Plan

Every module planned is written; what would come next:

1. An abstract limiter that admits no more than the limit in any window, which `RateLimiter`
   implements: `WindowHolds` as a refinement.
2. More abstract specifications: the user's counter in `Gateway` as the semaphore that the pool
   is, billing as an at-most-once charge, which their invariants already say.
3. `Pricing` with input and output apart and tiers' discounts; `Ledger` with several
   models.
