------------------------------- MODULE Gateway ------------------------------
(***************************************************************************)
(* The life of a request in one gateway process: the API key and its cache *)
(* (internal/middleware/auth.go), the user's concurrency limit             *)
(* (internal/ratelimit), the attempts on upstream channels, the answer --  *)
(* buffered, or streamed by a goroutine that outlives the handler -- and   *)
(* the task handed to billing (internal/handler/proxy.go); and the order   *)
(* in which the process stops (cmd/server/main.go).                        *)
(*                                                                         *)
(* The pool and the billing workers have modules of their own.  Here a     *)
(* channel is a slot that is taken and given back, and billing is a        *)
(* channel that is open or closed.  Every request is a request of its own; *)
(* each user has one key.                                                  *)
(***************************************************************************)
EXTENDS Integers, FiniteSets

CONSTANTS
  Requests,    \* requests that may arrive
  Users,       \* users, each with one API key
  UserOf,      \* [Requests -> Users]
  UserLimit,   \* concurrent requests a user may have (5, 10 or 20)
  EmbeddingsLimit,  \* the limit that embeddings compares with (5)
  MaxRetries,  \* attempts after the first (3)
  Absent,      \* a counter key that does not exist
  MaxFaults,   \* bound: number of faults
  MaxToggles   \* bound: number of times a key is disabled or enabled

ASSUME GatewayAssumption ==
  /\ IsFiniteSet(Requests)
  /\ UserOf \in [Requests -> Users]
  /\ UserLimit \in Nat \ {0}
  /\ EmbeddingsLimit \in 1..UserLimit
  /\ MaxRetries \in Nat
  /\ Absent \notin Int
  /\ MaxFaults \in Nat /\ MaxToggles \in Nat

VARIABLES
  enabled,   \* enabled[u]: the key is enabled and the user active, in PostgreSQL
  cache,     \* cache[u]: the entry apikey:{hash}; "forever" has no TTL
  conc,      \* conc[u]: the counter ratelimit:concurrent:{u}
  lasting,   \* lasting[u]: that counter has no TTL
  pc,        \* pc[r]: the next step of r's handler
  mode,      \* mode[r]: the endpoint that r is for
  tries,     \* tries[r]: attempts that have failed, while the handler makes attempts
  slots,     \* slots[r]: channel slots r has taken and not given back
  body,      \* body[r]: upstream's answer: "none", "open" or "closed"
  writer,    \* writer[r]: the goroutine that streams the answer
  tasks,     \* tasks[r]: tasks enqueued for r
  process,   \* how far the process is in its shutdown
  faults, toggles,  \* counters for the bounds
  lost       \* history: lost[r]: slots lost when a handler panicked

keyVars == <<enabled, cache, toggles>>
concVars == <<conc, lasting>>
answerVars == <<body, writer>>
handlerVars == <<pc, mode, tries>>
vars == <<keyVars, concVars, handlerVars, slots, answerVars, tasks, process, faults, lost>>

Modes == {"chat", "embeddings"}

\* Steps between CheckUserConcurrency and its deferred release.
Counted == {"checks", "acquire", "upstream", "respond", "enqueue",
            "relChannel", "closeBody", "relUser"}
Steps == {"auth", "fill", "throttle", "limit", "done"} \union Counted

TypeOK ==
  /\ enabled \in [Users -> BOOLEAN]
  /\ cache \in [Users -> {"none", "ttl", "forever"}]
  /\ conc \in [Users -> Int \union {Absent}]
  /\ lasting \in [Users -> BOOLEAN]
  /\ pc \in [Requests -> Steps]
  /\ mode \in [Requests -> Modes]
  /\ tries \in [Requests -> 0..MaxRetries]
  /\ slots \in [Requests -> Int]
  /\ body \in [Requests -> {"none", "open", "closed"}]
  /\ writer \in [Requests -> {"none", "running", "ended", "billed"}]
  /\ tasks \in [Requests -> Nat]
  /\ process \in {"up", "billingClosed", "stopping", "dead"}
  /\ faults \in 0..MaxFaults
  /\ toggles \in 0..MaxToggles
  /\ lost \in [Requests -> 0..1]

Init ==
  /\ enabled = [u \in Users |-> TRUE]
  /\ cache = [u \in Users |-> "none"]
  /\ conc = [u \in Users |-> Absent]
  /\ lasting = [u \in Users |-> FALSE]
  /\ pc = [r \in Requests |-> "auth"]
  /\ mode = [r \in Requests |-> "chat"]
  /\ tries = [r \in Requests |-> 0]
  /\ slots = [r \in Requests |-> 0]
  /\ body = [r \in Requests |-> "none"]
  /\ writer = [r \in Requests |-> "none"]
  /\ tasks = [r \in Requests |-> 0]
  /\ process = "up"
  /\ faults = 0 /\ toggles = 0
  /\ lost = [r \in Requests |-> 0]

-----------------------------------------------------------------------------
(* Helpers *)

alive == process # "dead"

\* Handler r is about to do this step.
At(r, step) == alive /\ pc[r] = step
Goto(r, step) == pc' = [pc EXCEPT ![r] = step]

\* INCR and DECR take a missing key for 0.
Value(u) == IF conc[u] = Absent THEN 0 ELSE conc[u]

\* Requests of u that the counter should count.
Inside(u) == {r \in Requests : UserOf[r] = u /\ pc[r] \in Counted}

\* The context of a request is done once the server has begun to stop, and the
\* Redis client then refuses every command.
RedisWorks == process # "stopping"
RedisFails ==
  \/ process = "stopping" /\ UNCHANGED faults
  \/ faults < MaxFaults /\ faults' = faults + 1

\* No fault so far and no shutdown of the server.
calm == faults = 0 /\ RedisWorks /\ alive

-----------------------------------------------------------------------------
(* Auth *)

\* The cache has the key.
AuthHit(r) ==
  /\ At(r, "auth") /\ RedisWorks
  /\ cache[UserOf[r]] # "none"
  /\ Goto(r, "throttle")
  /\ UNCHANGED <<keyVars, concVars, mode, tries, slots, answerVars, tasks, process,
                 faults, lost>>

\* It does not, or Redis failed: PostgreSQL answers.
AuthMiss(r) ==
  /\ At(r, "auth")
  /\ \/ cache[UserOf[r]] = "none" /\ UNCHANGED faults
     \/ RedisFails
  /\ Goto(r, IF enabled[UserOf[r]] THEN "fill" ELSE "done")
  /\ UNCHANGED <<keyVars, concVars, mode, tries, slots, answerVars, tasks, process, lost>>

\* Mutant: HSET without EXPIRE.
FillNoExpire(r) ==
  LET u == UserOf[r] IN
  /\ At(r, "fill") /\ RedisWorks
  /\ cache' = [cache EXCEPT ![u] = IF @ = "none" THEN "forever" ELSE @]
  /\ Goto(r, "throttle")
  /\ UNCHANGED <<enabled, toggles, concVars, mode, tries, slots, answerVars, tasks,
                 process, faults, lost>>

\* HSET, then EXPIRE, of what PostgreSQL answered.  HSET keeps the TTL of an
\* entry that exists; when EXPIRE fails, a new entry has none.
Fill(r) ==
  LET u == UserOf[r] IN
  /\ At(r, "fill")
  /\ \/ RedisWorks /\ cache' = [cache EXCEPT ![u] = "ttl"] /\ UNCHANGED faults
     \/ RedisFails /\ UNCHANGED cache
     \/ /\ RedisWorks /\ RedisFails
        /\ cache' = [cache EXCEPT ![u] = IF @ = "none" THEN "forever" ELSE @]
  /\ Goto(r, "throttle")
  /\ UNCHANGED <<enabled, toggles, concVars, mode, tries, slots, answerVars, tasks,
                 process, lost>>

\* The TTL of five minutes, which a hit does not renew, passes.
CacheExpires(u) ==
  /\ cache[u] = "ttl"
  /\ cache' = [cache EXCEPT ![u] = "none"]
  /\ UNCHANGED <<enabled, toggles, concVars, handlerVars, slots, answerVars, tasks,
                 process, faults, lost>>

\* The owner deletes the key, or an administrator changes the status of the user.
\* The frontend changes the row and leaves the cache alone.  (What happens to it once this
\* process is gone is left out; the same goes for the counter.)
Toggle(u) ==
  /\ alive /\ toggles < MaxToggles
  /\ toggles' = toggles + 1
  /\ enabled' = [enabled EXCEPT ![u] = ~@]
  /\ UNCHANGED <<cache, concVars, handlerVars, slots, answerVars, tasks, process,
                 faults, lost>>

-----------------------------------------------------------------------------
(* Limits *)

\* The handler of the endpoint begins: the windows of the IP (chat only) and of
\* the user let through, also when Redis fails, or refuse.
Throttle(r) ==
  /\ At(r, "throttle")
  /\ \/ \E m \in Modes : mode' = [mode EXCEPT ![r] = m] /\ Goto(r, "limit")
     \/ RedisWorks /\ Goto(r, "done") /\ UNCHANGED mode
  /\ UNCHANGED <<keyVars, concVars, tries, slots, answerVars, tasks, process, faults, lost>>

\* Chat goes by the user's tier, embeddings does not.
Limit(r) == IF mode[r] = "embeddings" THEN EmbeddingsLimit ELSE UserLimit

\* The script of AcquireConcurrency: INCR, EXPIRE, and DECR over the limit.
Script(u, limit) ==
  /\ conc' = [conc EXCEPT ![u] = IF Value(u) + 1 <= limit THEN Value(u) + 1 ELSE Value(u)]
  /\ lasting' = [lasting EXCEPT ![u] = FALSE]

\* Mutant: the limit is compared with the value before the INCR.
CheckOldValue(r) ==
  LET u == UserOf[r] IN
  /\ At(r, "limit") /\ RedisWorks
  /\ Script(u, Limit(r) + 1)
  /\ Goto(r, IF Value(u) <= Limit(r) THEN "checks" ELSE "done")
  /\ UNCHANGED <<keyVars, mode, tries, slots, answerVars, tasks, process, faults, lost>>

CheckUserConcurrency(r) ==
  LET u == UserOf[r] IN
  /\ At(r, "limit") /\ RedisWorks
  /\ Script(u, Limit(r))
  /\ Goto(r, IF Value(u) + 1 <= Limit(r) THEN "checks" ELSE "done")
  /\ UNCHANGED <<keyVars, mode, tries, slots, answerVars, tasks, process, faults, lost>>

\* Redis reports an error, whether or not the script ran: the request is let
\* through.
ConcurrencyFails(r) ==
  LET u == UserOf[r] IN
  /\ At(r, "limit")
  /\ RedisFails
  /\ UNCHANGED concVars \/ (RedisWorks /\ Script(u, Limit(r)))
  /\ Goto(r, "checks")
  /\ UNCHANGED <<keyVars, mode, tries, slots, answerVars, tasks, process, lost>>

\* Mutant: a request that fails a check does not reach the deferred release.
ChecksReturnEarly(r) ==
  /\ At(r, "checks")
  /\ Goto(r, "acquire") \/ (mode[r] = "chat" /\ Goto(r, "done"))
  /\ UNCHANGED <<keyVars, concVars, mode, tries, slots, answerVars, tasks, process,
                 faults, lost>>

\* The body, the tokens per minute, the balance and the daily quota of a chat
\* request; an embeddings request is not checked.
Checks(r) ==
  /\ At(r, "checks")
  /\ Goto(r, "acquire") \/ (mode[r] = "chat" /\ Goto(r, "relUser"))
  /\ UNCHANGED <<keyVars, concVars, mode, tries, slots, answerVars, tasks, process,
                 faults, lost>>

-----------------------------------------------------------------------------
(* executeWithRetry *)

\* An attempt has failed.  Chat tries again after a backoff, unless the server
\* is stopping; embeddings does not.
Retry(r) ==
  LET again == mode[r] = "chat" /\ tries[r] < MaxRetries /\ process # "stopping" IN
  /\ tries' = [tries EXCEPT ![r] = IF again THEN @ + 1 ELSE 0]
  /\ Goto(r, IF again THEN "acquire" ELSE "relUser")

\* AcquireChannel yields a channel.
Acquire(r) ==
  /\ At(r, "acquire")
  /\ slots' = [slots EXCEPT ![r] = @ + 1]
  /\ Goto(r, "upstream")
  /\ UNCHANGED <<keyVars, concVars, mode, tries, answerVars, tasks, process, faults, lost>>

\* It yields none.
AcquireFails(r) ==
  /\ At(r, "acquire")
  /\ Retry(r)
  /\ UNCHANGED <<keyVars, concVars, mode, slots, answerVars, tasks, process, faults, lost>>

\* It has taken a slot and returns a nil channel: the handler panics, recover
\* stops the panic, and the deferred calls that are registered run.
AcquireNil(r) ==
  /\ At(r, "acquire")
  /\ slots' = [slots EXCEPT ![r] = @ + 1]
  /\ lost' = [lost EXCEPT ![r] = @ + 1]
  /\ Goto(r, "relUser")
  /\ UNCHANGED <<keyVars, concVars, mode, tries, answerVars, tasks, process, faults>>

\* Mutant: an attempt that is tried again keeps its slot.
AttemptKeepsSlot(r) ==
  /\ At(r, "upstream")
  /\ Retry(r)
  /\ UNCHANGED <<keyVars, concVars, mode, slots, answerVars, tasks, process, faults, lost>>

\* No answer, or one that is tried again (401, 403, 429, 502, 503, 504): the slot
\* is given back.
AttemptFails(r) ==
  /\ At(r, "upstream")
  /\ slots' = [slots EXCEPT ![r] = @ - 1]
  /\ Retry(r)
  /\ UNCHANGED <<keyVars, concVars, mode, answerVars, tasks, process, faults, lost>>

\* Any other answer.
Answer(r) ==
  /\ At(r, "upstream")
  /\ body' = [body EXCEPT ![r] = "open"]
  /\ tries' = [tries EXCEPT ![r] = 0]
  /\ Goto(r, "respond")
  /\ UNCHANGED <<keyVars, concVars, mode, slots, writer, tasks, process, faults, lost>>

-----------------------------------------------------------------------------
(* The answer *)

\* The deferred calls run in the reverse order of their registration.
Unwind(r) == Goto(r, IF mode[r] = "embeddings" THEN "closeBody" ELSE "relChannel")

\* Mutant: the handler goes on to its own billing after it has started the stream.
StreamFallsThrough(r) ==
  /\ At(r, "respond")
  /\ mode[r] = "chat"
  /\ writer' = [writer EXCEPT ![r] = "running"]
  /\ Goto(r, "enqueue")
  /\ UNCHANGED <<keyVars, concVars, mode, tries, slots, body, tasks, process, faults, lost>>

\* proxySSE, for a streamed answer with status 200: it starts two goroutines
\* and returns at once.
Stream(r) ==
  /\ At(r, "respond")
  /\ mode[r] = "chat"
  /\ writer' = [writer EXCEPT ![r] = "running"]
  /\ Unwind(r)
  /\ UNCHANGED <<keyVars, concVars, mode, tries, slots, body, tasks, process, faults, lost>>

\* Mutant: any answer may be left unbilled.
BufferUnbilled(r) ==
  /\ At(r, "respond")
  /\ Goto(r, "enqueue") \/ Unwind(r)
  /\ UNCHANGED <<keyVars, concVars, mode, tries, slots, answerVars, tasks, process,
                 faults, lost>>

\* Any other answer is read to its end.  Embeddings without tokens are not billed.
Buffer(r) ==
  /\ At(r, "respond")
  /\ \/ Goto(r, "enqueue")
     \/ mode[r] = "embeddings" /\ Unwind(r)
  /\ UNCHANGED <<keyVars, concVars, mode, tries, slots, answerVars, tasks, process,
                 faults, lost>>

\* Enqueue.  On a closed channel it panics, and the deferred calls run.
Enqueue(r) ==
  /\ At(r, "enqueue")
  /\ tasks' = [tasks EXCEPT ![r] = IF process = "up" THEN @ + 1 ELSE @]
  /\ Unwind(r)
  /\ UNCHANGED <<keyVars, concVars, mode, tries, slots, answerVars, process, faults, lost>>

ReleaseChannel(r) ==
  /\ At(r, "relChannel")
  /\ slots' = [slots EXCEPT ![r] = @ - 1]
  /\ Goto(r, IF mode[r] = "embeddings" THEN "relUser" ELSE "closeBody")
  /\ UNCHANGED <<keyVars, concVars, mode, tries, answerVars, tasks, process, faults, lost>>

CloseBody(r) ==
  /\ At(r, "closeBody")
  /\ body' = [body EXCEPT ![r] = "closed"]
  /\ Goto(r, IF mode[r] = "embeddings" THEN "relChannel" ELSE "relUser")
  /\ UNCHANGED <<keyVars, concVars, mode, tries, slots, writer, tasks, process, faults, lost>>

\* DECR.  It creates a missing key, without a TTL.
Given(u) ==
  /\ conc' = [conc EXCEPT ![u] = Value(u) - 1]
  /\ lasting' = [lasting EXCEPT ![u] = @ \/ conc[u] = Absent]

ReleaseUserConcurrency(r) ==
  LET u == UserOf[r] IN
  /\ At(r, "relUser") /\ RedisWorks
  /\ Given(u)
  /\ Goto(r, "done")
  /\ UNCHANGED <<keyVars, mode, tries, slots, answerVars, tasks, process, faults, lost>>

\* Its error is not looked at.
ReleaseUserFails(r) ==
  /\ At(r, "relUser")
  /\ RedisFails
  /\ Goto(r, "done")
  /\ UNCHANGED <<keyVars, concVars, mode, tries, slots, answerVars, tasks, process, lost>>

\* The script, or the DECR, took effect, but its reply was lost: the client is
\* about to send it again.
SentAgain(r) ==
  LET u == UserOf[r] IN
  /\ RedisWorks /\ RedisFails
  /\ \/ At(r, "limit") /\ Script(u, Limit(r))
     \/ At(r, "relUser") /\ Given(u)
  /\ UNCHANGED <<keyVars, handlerVars, slots, answerVars, tasks, process, lost>>

\* The counter's TTL of two minutes, which every INCR renews, passes; a request
\* may take longer than that.
CounterExpires(u) ==
  /\ alive /\ conc[u] # Absent /\ ~lasting[u]
  /\ \/ Inside(u) = {} /\ UNCHANGED faults
     \/ Inside(u) # {} /\ faults < MaxFaults /\ faults' = faults + 1
  /\ conc' = [conc EXCEPT ![u] = Absent]
  /\ UNCHANGED <<keyVars, lasting, handlerVars, slots, answerVars, tasks, process, lost>>

-----------------------------------------------------------------------------
(* The goroutines of a streamed answer *)

\* The writer stops: the answer has ended or its body was closed, the client has
\* gone, or the server is stopping.  The reader of its channel wakes up.
StreamEnds(r) ==
  /\ alive /\ writer[r] = "running"
  /\ writer' = [writer EXCEPT ![r] = "ended"]
  /\ UNCHANGED <<keyVars, concVars, handlerVars, slots, body, tasks, process, faults, lost>>

\* Billing of the stream, unless neither the request nor the answer had tokens.
\* On a closed channel it panics, and no recover is above this goroutine.
BillStream(r) ==
  /\ alive /\ writer[r] = "ended"
  /\ writer' = [writer EXCEPT ![r] = "billed"]
  /\ \/ UNCHANGED <<tasks, process>>
     \/ process = "up" /\ tasks' = [tasks EXCEPT ![r] = @ + 1] /\ UNCHANGED process
     \/ process # "up" /\ process' = "dead" /\ UNCHANGED tasks
  /\ UNCHANGED <<keyVars, concVars, handlerVars, slots, body, faults, lost>>

\* The writer asks the fiber.Ctx for its context after the handler has returned
\* and the Ctx was given back, and with it the context it pointed to.
StaleContext(r) ==
  /\ alive /\ writer[r] = "running" /\ pc[r] = "done"
  /\ process' = "dead"
  /\ UNCHANGED <<keyVars, concVars, handlerVars, slots, answerVars, tasks, faults, lost>>

-----------------------------------------------------------------------------
(* The process *)

\* The signal handler: first billing, then the pool (ChannelPool has that), then
\* the server.
CloseBilling ==
  /\ process = "up"
  /\ process' = "billingClosed"
  /\ UNCHANGED <<keyVars, concVars, handlerVars, slots, answerVars, tasks, faults, lost>>

StopServer ==
  /\ process = "billingClosed"
  /\ process' = "stopping"
  /\ UNCHANGED <<keyVars, concVars, handlerVars, slots, answerVars, tasks, faults, lost>>

\* Listen returns to main as soon as the listener is closed, and the deferred
\* Shutdown of billing closes its channel a second time.
MainReturns ==
  /\ process = "stopping"
  /\ process' = "dead"
  /\ UNCHANGED <<keyVars, concVars, handlerVars, slots, answerVars, tasks, faults, lost>>

-----------------------------------------------------------------------------
(* The specification *)

Handle(r) ==
  \/ AuthHit(r) \/ AuthMiss(r) \/ Fill(r) \/ Throttle(r)
  \/ CheckUserConcurrency(r) \/ ConcurrencyFails(r) \/ Checks(r)
  \/ Acquire(r) \/ AcquireFails(r) \/ AcquireNil(r) \/ AttemptFails(r) \/ Answer(r)
  \/ Stream(r) \/ Buffer(r) \/ Enqueue(r)
  \/ ReleaseChannel(r) \/ CloseBody(r) \/ ReleaseUserConcurrency(r) \/ ReleaseUserFails(r)
  \/ SentAgain(r)

Background(r) == StreamEnds(r) \/ BillStream(r) \/ StaleContext(r)

Shutdown == CloseBilling \/ StopServer \/ MainReturns

Next ==
  \/ \E r \in Requests : Handle(r) \/ Background(r)
  \/ \E u \in Users : CacheExpires(u) \/ Toggle(u) \/ CounterExpires(u)
  \/ Shutdown

Spec == Init /\ [][Next]_vars

\* Handlers and the goroutines of a stream run on: calls to Redis, PostgreSQL and
\* upstream end, if only with an error (upstream after five minutes).  Redis
\* drops an entry whose TTL has passed.  Nothing says that a key is ever changed
\* or that the process stops.
Fairness ==
  /\ \A r \in Requests : WF_vars(Handle(r)) /\ WF_vars(Background(r))
  /\ \A u \in Users : WF_vars(CacheExpires(u))

FairSpec == Spec /\ Fairness

-----------------------------------------------------------------------------
(* Properties *)

\* While Redis answers in time, a user never has more handlers at work than the
\* limit of the tier (AcquireConcurrency).
UserLimitHolds == calm => \A u \in Users : Cardinality(Inside(u)) <= UserLimit

\* ... and the counter is exactly the number of those handlers, whichever of the
\* many returns of ChatCompletions and Embeddings, or panic, ended the others: a
\* request gives back what it took, once, and a refused one gives back nothing.
UserCounterExact == calm => \A u \in Users : Value(u) = Cardinality(Inside(u))

\* A handler that is done has given back every channel slot that its attempts
\* took, and none twice; except the one of a nil channel, which nobody can give
\* back, and then the request was not billed (executeWithRetry and its callers).
SlotsSettled ==
  \A r \in Requests : pc[r] = "done" => slots[r] = lost[r] /\ lost[r] + tasks[r] <= 1

\* However many attempts a request took and whether its answer was buffered or
\* streamed, it is billed at most once, and only when upstream answered
\* (ChatCompletions, proxySSE, Embeddings).
BilledOnce ==
  \A r \in Requests : tasks[r] <= 1 /\ (tasks[r] = 1 => body[r] # "none")

\* A chat request that upstream answered is billed, or was a stream without
\* tokens, unless the process is being stopped (or dies) before that (proxySSE's
\* second goroutine, Enqueue).
AnsweredIsBilled ==
  \A r \in Requests :
    body[r] = "open" /\ mode[r] = "chat" ~>
      tasks[r] = 1 \/ writer[r] = "billed" \/ process # "up"

\* A key that stays disabled leaves the cache for good, although a handler that
\* read the row before may still fill the cache after (Auth); unless a Redis
\* command failed: the one that fails may be the EXPIRE.
RevokedKeyDies ==
  \A u \in Users :
    <>[](~enabled[u]) => <>[](cache[u] = "none" \/ faults > 0)
=============================================================================
