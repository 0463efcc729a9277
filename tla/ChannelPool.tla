---------------------------- MODULE ChannelPool -----------------------------
(***************************************************************************)
(* internal/pool/pool.go: the pool of upstream channels of each gateway    *)
(* replica, and the steps a request handler (internal/handler/proxy.go)    *)
(* takes on it.  Replicas share the rows of the channels table and, in     *)
(* Redis, one concurrency counter per channel; each keeps its own map of   *)
(* loaded channels with their circuit breakers.                            *)
(*                                                                         *)
(* Every Redis command, SQL statement and critical section is a step of    *)
(* its own, so that handlers, the health check loop, administrators and    *)
(* faults interleave between them.  All channels serve the one model that  *)
(* is asked for.  The breaker has no clock here: Allow, the only method    *)
(* that reads the time, is never called by the gateway.                    *)
(*                                                                         *)
(* The EXPIRE after every INCR gives the counter's key two minutes; their  *)
(* passing is Expires.  A key that only INCR or DECR has made has no TTL.  *)
(* The Redis client has its default retries: a command whose reply was     *)
(* lost is sent again, and so may take effect twice (fault "repeat").      *)
(***************************************************************************)
EXTENDS BreakerOps, SequencesExt

CONSTANTS
  Replicas,        \* gateway processes
  Channels,        \* rows of the channels table
  Requests,        \* handlers that may run at the same time
  Absent,          \* a counter key that does not exist
  MaxConcurrency,  \* [Channels -> Nat \ {0}], the column max_concurrency
  Priority,        \* [Channels -> Nat], the column priority
  Outcomes,        \* how upstream may answer, a subset of AllOutcomes
  Faults,          \* which faults may happen, a subset of AllFaults
  MaxFaults,       \* bound: number of faults
  MaxAdmin         \* bound: number of administrator's changes

AllOutcomes == {"ok", "silent", "unavailable", "internal", "limited", "denied"}
AllFaults == {"lateExpiry", "redis", "repeat", "crash", "shutdown"}

ASSUME PoolAssumption ==
  /\ IsFiniteSet(Requests) /\ IsFiniteSet(Channels)
  /\ Absent \notin Int
  /\ MaxConcurrency \in [Channels -> Nat \ {0}]
  /\ Priority \in [Channels -> Nat]
  /\ Outcomes \subseteq AllOutcomes
  /\ Faults \subseteq AllFaults
  /\ MaxFaults \in Nat /\ MaxAdmin \in Nat

VARIABLES
  db,       \* db[c]: the status column of channel c, or "gone"
  count,    \* count[c]: the Redis counter channel:{c}:concurrency
  ttl,      \* ttl[c]: whether its key has a TTL
  byID,     \* byID[p]: the channels in the maps of replica p
  breaker,  \* breaker[p][c]: the breaker of the Channel object in p's maps
  load,     \* load[p]: where p is in LoadFromDB
  rows,     \* rows[p]: the rows that LoadFromDB has read
  pc,       \* pc[r]: the next step of handler r
  at,       \* at[r]: the replica handler r runs in
  cand,     \* cand[r]: channels r may still try, the current one first
  stale,    \* stale[r]: r holds a Channel object that left the maps
  report,   \* report[r]: what r is about to write, and do next
  faults, admin,  \* counters for the bounds
  leaked,   \* history: what INCRs added to c's counter and no DECR will take off
  spare     \* history: what was taken off c's counter while handlers go on without it

dbVars == <<db, admin>>
redisVars == <<count, ttl, leaked, spare>>
mapVars == <<byID, breaker, load, rows>>
reqVars == <<pc, at, cand, stale, report>>
vars == <<dbVars, redisVars, mapVars, reqVars, faults>>

Busy == {"expire", "lookup", "held", "persist", "clear", "release"}
Over == {"expireOver", "undo"}
Steps == {"idle", "try", "floor", "zero"} \union Over \union Busy

NoReport == [status |-> "active", clears |-> FALSE]

TypeOK ==
  /\ db \in [Channels -> {"active", "error", "disabled", "gone"}]
  /\ count \in [Channels -> Int \union {Absent}]
  /\ ttl \in [Channels -> BOOLEAN]
  /\ byID \in [Replicas -> SUBSET Channels]
  /\ breaker \in [Replicas -> [Channels -> Breaker]]
  /\ load \in [Replicas -> {"idle", "queried", "filling"}]
  /\ rows \in [Replicas -> SUBSET Channels]
  /\ pc \in [Requests -> Steps]
  /\ at \in [Requests -> Replicas]
  /\ cand \in [Requests -> Seq(Channels)]
  /\ \A r \in Requests : pc[r] # "idle" => cand[r] # <<>>
  /\ stale \in [Requests -> BOOLEAN]
  /\ report \in [Requests -> [status : {"active", "error"}, clears : BOOLEAN]]
  /\ faults \in 0..MaxFaults
  /\ admin \in 0..MaxAdmin
  /\ leaked \in [Channels -> Nat] /\ spare \in [Channels -> Nat]

\* A first start: nothing loaded, no counter in Redis.
Init ==
  /\ db = [c \in Channels |-> "active"]
  /\ count = [c \in Channels |-> Absent] /\ ttl = [c \in Channels |-> FALSE]
  /\ byID = [p \in Replicas |-> {}]
  /\ breaker = [p \in Replicas |-> [c \in Channels |-> NewBreaker]]
  /\ load = [p \in Replicas |-> "idle"]
  /\ rows = [p \in Replicas |-> {}]
  /\ pc = [r \in Requests |-> "idle"]
  /\ at \in [Requests -> Replicas]
  /\ cand = [r \in Requests |-> <<>>]
  /\ stale = [r \in Requests |-> FALSE]
  /\ report = [r \in Requests |-> NoReport]
  /\ faults = 0 /\ admin = 0
  /\ leaked = [c \in Channels |-> 0] /\ spare = [c \in Channels |-> 0]

-----------------------------------------------------------------------------
(* Helpers *)

Current(r) == Head(cand[r])

\* Handlers counted in the counter of c, and those of them that hold a slot.
Window(c) == {r \in Requests : pc[r] \in Busy \union Over /\ Current(r) = c}
Holders(c) == {r \in Requests : pc[r] \in Busy /\ Current(r) = c}

\* INCR and DECR take a missing key for 0.
Value(c) == IF count[c] = Absent THEN 0 ELSE count[c]

\* The rows LoadFromDB selects.
Listed == {c \in Channels : db[c] \notin {"disabled", "gone"}}

\* The handler has lost its current channel: it tries the next candidate, or
\* AcquireChannel returns an error and the handler is done with the pool.
NextCandidate(r) ==
  /\ cand' = [cand EXCEPT ![r] = Tail(@)]
  /\ pc' = [pc EXCEPT ![r] = IF Tail(cand[r]) = <<>> THEN "idle" ELSE "try"]

Goto(r, step) == pc' = [pc EXCEPT ![r] = step]

\* The handler is done; it keeps nothing.
Done(r) ==
  /\ pc' = [pc EXCEPT ![r] = "idle"]
  /\ cand' = [cand EXCEPT ![r] = <<>>]
  /\ stale' = [stale EXCEPT ![r] = FALSE]
  /\ report' = [report EXCEPT ![r] = NoReport]
  /\ UNCHANGED at

\* INCR and DECR, which leave the TTL alone.
Add(c, n) == count' = [count EXCEPT ![c] = Value(c) + n] /\ UNCHANGED ttl

Leak(c, n) == leaked' = [leaked EXCEPT ![c] = @ + n] /\ UNCHANGED spare
Spare(c, n) == spare' = [spare EXCEPT ![c] = @ + n] /\ UNCHANGED leaked

\* The counters of S forget what they stood for.
Forget(S) ==
  /\ leaked' = [c \in Channels |-> IF c \in S THEN 0 ELSE leaked[c]]
  /\ spare' = [c \in Channels |-> IF c \in S THEN Cardinality(Window(c)) ELSE spare[c]]

\* The keys of S are gone.
Drop(S) ==
  /\ count' = [c \in Channels |-> IF c \in S THEN Absent ELSE count[c]]
  /\ ttl' = [c \in Channels |-> ttl[c] /\ c \notin S]
  /\ Forget(S)

MayFail(fault) == fault \in Faults /\ faults < MaxFaults /\ faults' = faults + 1

-----------------------------------------------------------------------------
(* LoadFromDB, at start and from HealthCheckLoop *)

\* The query.  A failed query leaves everything as it was.
Query(p) ==
  /\ load[p] = "idle"
  /\ load' = [load EXCEPT ![p] = "queried"]
  /\ rows' = [rows EXCEPT ![p] = Listed]
  /\ UNCHANGED <<dbVars, redisVars, byID, breaker, reqVars, faults>>

\* Mutant: a channel that is already in the maps keeps its Channel object.
KeepsBreakers(p) ==
  /\ load[p] = "queried"
  /\ load' = [load EXCEPT ![p] = "filling"]
  /\ byID' = [byID EXCEPT ![p] = {}]
  /\ UNCHANGED <<breaker, stale>>
  /\ UNCHANGED <<dbVars, redisVars, rows, pc, at, cand, report, faults>>

\* With the lock held, both maps are replaced by empty ones.  Every row gets a
\* new Channel object with a new breaker; the objects that handlers still hold
\* are no longer the ones in the maps.
Clear(p) ==
  /\ load[p] = "queried"
  /\ load' = [load EXCEPT ![p] = "filling"]
  /\ byID' = [byID EXCEPT ![p] = {}]
  /\ breaker' = [breaker EXCEPT ![p] = [c \in Channels |-> NewBreaker]]
  /\ stale' = [r \in Requests |->
                 stale[r] \/ (at[r] = p /\ pc[r] \in {"held", "persist", "clear", "release"})]
  /\ UNCHANGED <<dbVars, redisVars, rows, pc, at, cand, report, faults>>

\* Mutant: the counters are initialised with SET instead of SET NX.
FillResets(p) ==
  /\ load[p] = "filling"
  /\ load' = [load EXCEPT ![p] = "idle"]
  /\ byID' = [byID EXCEPT ![p] = rows[p]]
  /\ rows' = [rows EXCEPT ![p] = {}]
  /\ count' = [c \in Channels |-> IF c \in rows[p] THEN 0 ELSE count[c]]
  /\ ttl' = [c \in Channels |-> ttl[c] \/ c \in rows[p]]
  /\ UNCHANGED <<dbVars, leaked, spare, breaker, reqVars, faults>>

\* The maps are filled from the rows, each row's counter is created with a TTL if
\* missing (SET NX; where that fails, the key stays away as if it had expired),
\* and the lock is released.
Fill(p) ==
  /\ load[p] = "filling"
  /\ load' = [load EXCEPT ![p] = "idle"]
  /\ byID' = [byID EXCEPT ![p] = rows[p]]
  /\ rows' = [rows EXCEPT ![p] = {}]
  /\ count' = [c \in Channels |-> IF c \in rows[p] THEN Value(c) ELSE count[c]]
  /\ ttl' = [c \in Channels |-> ttl[c] \/ (c \in rows[p] /\ count[c] = Absent)]
  /\ UNCHANGED <<dbVars, leaked, spare, breaker, reqVars, faults>>

-----------------------------------------------------------------------------
(* AcquireChannel *)

\* Mutant: only the INCR looks at the limit.
EligibleAtCapacity(p, c, seen) ==
  /\ c \in byID[p]
  /\ breaker[p][c].state # "open"
  /\ ~(breaker[p][c].state = "halfOpen" /\ seen[c] > 1)

\* The filter of AcquireChannel, on the counters that buildSnapshots has seen.
Eligible(p, c, seen) ==
  /\ c \in byID[p]
  /\ breaker[p][c].state # "open"
  /\ ~(breaker[p][c].state = "halfOpen" /\ seen[c] > 1)
  /\ seen[c] < MaxConcurrency[c]

\* compareSnapshots: higher priority first, then more free slots.  Equal weights.
Beats(a, b, seen) ==
  \/ Priority[a] > Priority[b]
  \/ /\ Priority[a] = Priority[b]
     /\ MaxConcurrency[a] - seen[a] > MaxConcurrency[b] - seen[b]

\* What sortSnapshots may return: sorted, ties in any order (it shuffles first).
Sorted(S, seen) ==
  {s \in SetToSeqs(S) : \A i, j \in DOMAIN s : i < j => ~Beats(s[j], s[i], seen)}

\* A handler arrives at replica p; buildSnapshots, sort and filter.  It needs
\* the read lock.  The filter only looks at the snapshot, so the channels it
\* will skip are dropped here.
ArriveSeeing(r, p, seen) ==
  /\ pc[r] = "idle"
  /\ load[p] # "filling"
  /\ \E s \in Sorted({c \in Channels : Eligible(p, c, seen)}, seen) :
       /\ s # <<>>
       /\ cand' = [cand EXCEPT ![r] = s]
  /\ at' = [at EXCEPT ![r] = p]
  /\ Goto(r, "try")
  /\ UNCHANGED <<dbVars, redisVars, mapVars, stale, report>>

Arrive(r, p) == ArriveSeeing(r, p, [c \in Channels |-> Value(c)]) /\ UNCHANGED faults

\* MGET failed: every channel looks free.
ArriveBlind(r, p) == MayFail("redis") /\ ArriveSeeing(r, p, [c \in Channels |-> 0])

\* Mutant: the limit is tested on the value before the INCR.
TryOldValue(r) ==
  /\ pc[r] = "try"
  /\ Add(Current(r), 1)
  /\ Goto(r, IF Value(Current(r)) > MaxConcurrency[Current(r)] THEN "expireOver" ELSE "expire")
  /\ UNCHANGED <<dbVars, leaked, spare, mapVars, at, cand, stale, report, faults>>

\* INCR; the new value will decide whether the handler has a slot.
Try(r) ==
  /\ pc[r] = "try"
  /\ Add(Current(r), 1)
  /\ Goto(r, IF Value(Current(r)) + 1 > MaxConcurrency[Current(r)] THEN "expireOver" ELSE "expire")
  /\ UNCHANGED <<dbVars, leaked, spare, mapVars, at, cand, stale, report, faults>>

\* INCR returned an error, whether or not it took effect: the next candidate,
\* without the EXPIRE.
TryFails(r) ==
  /\ pc[r] = "try"
  /\ MayFail("redis")
  /\ \/ UNCHANGED redisVars
     \/ Add(Current(r), 1) /\ Leak(Current(r), 1)
  /\ NextCandidate(r)
  /\ UNCHANGED <<dbVars, mapVars, at, stale, report>>

\* INCR took effect, but its reply was lost: the client is about to send it again.
TryAgain(r) ==
  /\ pc[r] = "try"
  /\ MayFail("repeat")
  /\ Add(Current(r), 1) /\ Leak(Current(r), 1)
  /\ UNCHANGED <<dbVars, mapVars, reqVars>>

\* EXPIRE, which does nothing when the key is gone; its error is not looked at.
Renew(r) ==
  /\ pc[r] \in {"expire", "expireOver"}
  /\ \/ /\ ttl' = [ttl EXCEPT ![Current(r)] = count[Current(r)] # Absent]
        /\ UNCHANGED faults
     \/ MayFail("redis") /\ UNCHANGED ttl
  /\ Goto(r, IF pc[r] = "expire" THEN "lookup" ELSE "undo")
  /\ UNCHANGED <<dbVars, count, leaked, spare, mapVars, at, cand, stale, report>>

\* The rollback of an INCR that went over the limit: DECR, with no floor.
Undo(r) ==
  /\ pc[r] = "undo"
  /\ Add(Current(r), -1)
  /\ NextCandidate(r)
  /\ UNCHANGED <<dbVars, leaked, spare, mapVars, at, stale, report, faults>>

\* The same DECR failed; its error is not looked at.
UndoFails(r) ==
  /\ pc[r] = "undo"
  /\ MayFail("redis")
  /\ Leak(Current(r), 1)
  /\ NextCandidate(r)
  /\ UNCHANGED <<dbVars, count, ttl, mapVars, at, stale, report>>

\* A DECR, of the rollback or of ReleaseChannel, took effect, but its reply was
\* lost: the client is about to send it again.
DecrAgain(r) ==
  /\ pc[r] \in {"undo", "release"}
  /\ MayFail("repeat")
  /\ Add(Current(r), -1) /\ Spare(Current(r), 1)
  /\ UNCHANGED <<dbVars, mapVars, reqVars>>

\* ch := cp.byID[snap.ID], read without the lock.  While LoadFromDB fills the
\* map any row may or may not be there yet.
Lookup(r) ==
  /\ pc[r] = "lookup"
  /\ Current(r) \in (IF load[at[r]] = "filling" THEN rows[at[r]] ELSE byID[at[r]])
  /\ Goto(r, "held")
  /\ UNCHANGED <<dbVars, redisVars, mapVars, at, cand, stale, report, faults>>

\* The channel is not in the map: the handler gets a nil channel and no error,
\* dereferences it and panics; the slot it has taken is never given back.
LookupNil(r) ==
  /\ pc[r] = "lookup"
  /\ load[at[r]] = "filling" \/ Current(r) \notin byID[at[r]]
  /\ Leak(Current(r), 1)
  /\ Done(r)
  /\ UNCHANGED <<dbVars, count, ttl, mapVars, faults>>

-----------------------------------------------------------------------------
(* The upstream answers *)

\* What reaches the breaker: a connection error and 502..504 count like a 500.
Code(out) == CASE out = "limited" -> RateLimited
               [] out = "denied"  -> 401
               [] OTHER           -> 500

SetBreaker(p, c, b) == breaker' = [breaker EXCEPT ![p][c] = b]

\* An answer below 500 that is no 429, 401 or 403: RecordSuccess.  A streamed
\* answer ("silent") records nothing.
Answered(r) ==
  LET p == at[r]
      c == Current(r)
  IN
  /\ pc[r] = "held"
  /\ \E out \in Outcomes \intersect {"ok", "silent"} :
       IF out = "silent" \/ stale[r]
       THEN UNCHANGED breaker
       ELSE SetBreaker(p, c, AfterSuccess(breaker[p][c]))
  /\ Goto(r, "release")
  /\ UNCHANGED <<dbVars, redisVars, byID, load, rows, at, cand, stale, report, faults>>

\* The status RecordError will write: that of the breaker it has just told.  An
\* object that left the maps has a breaker of its own, of which only this is
\* known: a 401, 403 or 429 opens it.
StatusToWrite(r, out) ==
  IF stale[r]
  THEN IF out \in {"limited", "denied"} THEN {"error"} ELSE {"active", "error"}
  ELSE {IF AfterFailure(breaker[at[r]][Current(r)], Code(out)).state = "open"
        THEN "error" ELSE "active"}

\* RecordError up to the database write.  After a 500 ("internal") the answer is
\* passed on like a good one, so RecordSuccess follows.
Failed(r) ==
  LET p == at[r]
      c == Current(r)
  IN
  /\ pc[r] = "held"
  /\ \E out \in Outcomes \ {"ok", "silent"} :
       /\ \E s \in StatusToWrite(r, out) :
            report' = [report EXCEPT ![r] = [status |-> s, clears |-> out = "internal"]]
       /\ IF stale[r]
          THEN UNCHANGED breaker
          ELSE SetBreaker(p, c, AfterFailure(breaker[p][c], Code(out)))
  /\ Goto(r, "persist")
  /\ UNCHANGED <<dbVars, redisVars, byID, load, rows, at, cand, stale, faults>>

\* RecordError's UPDATE channels SET status, which affects no row when the
\* channel was deleted.
Persist(r) ==
  /\ pc[r] = "persist"
  /\ db' = [db EXCEPT ![Current(r)] = IF @ = "gone" THEN @ ELSE report[r].status]
  /\ Goto(r, IF report[r].clears THEN "clear" ELSE "release")
  /\ report' = [report EXCEPT ![r] = NoReport]
  /\ UNCHANGED <<admin, redisVars, mapVars, at, cand, stale, faults>>

\* The RecordSuccess that follows a 500.
ClearFailures(r) ==
  LET p == at[r]
      c == Current(r)
  IN
  /\ pc[r] = "clear"
  /\ IF stale[r] THEN UNCHANGED breaker
                 ELSE SetBreaker(p, c, AfterSuccess(breaker[p][c]))
  /\ Goto(r, "release")
  /\ UNCHANGED <<dbVars, redisVars, byID, load, rows, at, cand, stale, report, faults>>

-----------------------------------------------------------------------------
(* ReleaseChannel: DECR, GET, SET 0 if it was negative *)

\* Mutant: a Channel object that is no longer in the maps is not released.
ReleaseOnlyFresh(r) ==
  /\ pc[r] = "release"
  /\ IF stale[r] THEN UNCHANGED <<count, ttl>> ELSE Add(Current(r), -1)
  /\ Goto(r, "floor")
  /\ UNCHANGED <<dbVars, leaked, spare, mapVars, at, cand, stale, report, faults>>

Release(r) ==
  /\ pc[r] = "release"
  /\ Add(Current(r), -1)
  /\ Goto(r, "floor")
  /\ UNCHANGED <<dbVars, leaked, spare, mapVars, at, cand, stale, report, faults>>

\* DECR failed; its error is not looked at either.
ReleaseFails(r) ==
  /\ pc[r] = "release"
  /\ MayFail("redis")
  /\ Leak(Current(r), 1)
  /\ Goto(r, "floor")
  /\ UNCHANGED <<dbVars, count, ttl, mapVars, at, cand, stale, report>>

\* GET; an error ends ReleaseChannel.
Floor(r) ==
  /\ pc[r] = "floor"
  /\ \/ /\ Value(Current(r)) < 0 /\ Goto(r, "zero")
        /\ UNCHANGED <<at, cand, stale, report, faults>>
     \/ Value(Current(r)) >= 0 /\ Done(r) /\ UNCHANGED faults
     \/ MayFail("redis") /\ Done(r)
  /\ UNCHANGED <<dbVars, redisVars, mapVars>>

\* SET 0, with a TTL, forgets whatever the counter stood for.
SetZero(c) ==
  /\ count' = [count EXCEPT ![c] = 0]
  /\ ttl' = [ttl EXCEPT ![c] = TRUE]
  /\ Forget({c})

Zero(r) ==
  /\ pc[r] = "zero"
  /\ \/ SetZero(Current(r)) /\ UNCHANGED faults
     \/ UNCHANGED redisVars /\ MayFail("redis")
  /\ Done(r)
  /\ UNCHANGED <<dbVars, mapVars>>

\* Its reply was lost: the client is about to send it again.
ZeroAgain(r) ==
  /\ pc[r] = "zero"
  /\ MayFail("repeat")
  /\ SetZero(Current(r))
  /\ UNCHANGED <<dbVars, mapVars, reqVars>>

-----------------------------------------------------------------------------
(* Administrators, the TTL, and faults *)

\* An administrator disables or deletes a channel, or enables it again (for
\* LoadFromDB, the same as creating one).
Administer(c) ==
  /\ admin < MaxAdmin
  /\ admin' = admin + 1
  /\ \/ db[c] \in {"active", "error"} /\ db' = [db EXCEPT ![c] = "disabled"]
     \/ db[c] = "disabled" /\ db' = [db EXCEPT ![c] = "active"]
     \/ db[c] # "gone" /\ db' = [db EXCEPT ![c] = "gone"]
  /\ UNCHANGED <<redisVars, mapVars, reqVars, faults>>

\* The TTL of a counter passes: two minutes without an INCR.  No handler has its
\* slot in the window ...
ExpireIdle(c) ==
  /\ ttl[c]
  /\ Window(c) = {}
  /\ Drop({c})
  /\ UNCHANGED <<dbVars, mapVars, reqVars, faults>>

\* ... unless it is slower than that: the client of a channel waits five minutes.
ExpireLate(c) ==
  /\ ttl[c]
  /\ Window(c) # {}
  /\ MayFail("lateExpiry")
  /\ Drop({c})
  /\ UNCHANGED <<dbVars, mapVars, reqVars>>

\* Replica p dies and is started again.  Its handlers give nothing back.
Restart(p) ==
  /\ byID' = [byID EXCEPT ![p] = {}]
  /\ load' = [load EXCEPT ![p] = "idle"]
  /\ rows' = [rows EXCEPT ![p] = {}]
  /\ breaker' = [breaker EXCEPT ![p] = [c \in Channels |-> NewBreaker]]
  /\ leaked' = [c \in Channels |->
                  leaked[c] + Cardinality({r \in Window(c) : at[r] = p})]
  /\ pc' = [r \in Requests |-> IF at[r] = p THEN "idle" ELSE pc[r]]
  /\ cand' = [r \in Requests |-> IF at[r] = p THEN <<>> ELSE cand[r]]
  /\ stale' = [r \in Requests |-> stale[r] /\ at[r] # p]
  /\ report' = [r \in Requests |-> IF at[r] = p THEN NoReport ELSE report[r]]
  /\ UNCHANGED <<dbVars, count, ttl, spare, at>>

Crash(p) == MayFail("crash") /\ Restart(p)

\* An unlocked read of a map that LoadFromDB is filling: the Go runtime stops the
\* process when it notices.
LookupRace(p) ==
  /\ load[p] = "filling"
  /\ \E r \in Requests : at[r] = p /\ pc[r] = "lookup"
  /\ Restart(p)
  /\ UNCHANGED faults

\* Shutdown deletes the counters of every channel p has loaded; p's handlers,
\* and those of the other replicas, are still running.
Shutdown(p) ==
  /\ MayFail("shutdown")
  /\ byID[p] # {}
  /\ Drop(byID[p])
  /\ UNCHANGED <<dbVars, mapVars, reqVars>>

-----------------------------------------------------------------------------
(* The specification *)

Handle(r) ==
  \/ Try(r) \/ TryFails(r) \/ TryAgain(r) \/ Renew(r)
  \/ Undo(r) \/ UndoFails(r) \/ DecrAgain(r) \/ Lookup(r) \/ LookupNil(r)
  \/ Answered(r) \/ Failed(r) \/ Persist(r) \/ ClearFailures(r)
  \/ Release(r) \/ ReleaseFails(r) \/ Floor(r) \/ Zero(r) \/ ZeroAgain(r)

Reload(p) == Query(p) \/ Clear(p) \/ Fill(p)

Next ==
  \/ \E r \in Requests : Handle(r)
  \/ \E r \in Requests, p \in Replicas : Arrive(r, p) \/ ArriveBlind(r, p)
  \/ \E p \in Replicas : Reload(p) \/ Crash(p) \/ LookupRace(p) \/ Shutdown(p)
  \/ \E c \in Channels : Administer(c) \/ ExpireIdle(c) \/ ExpireLate(c)

Spec == Init /\ [][Next]_vars

\* Handlers run to their end (every call they make has a timeout), the health
\* check loop ticks every 30 seconds, and time passes for idle counters.
Fairness ==
  /\ \A r \in Requests : WF_vars(Handle(r))
  /\ \A p \in Replicas : WF_vars(Reload(p))
  /\ \A c \in Channels : WF_vars(ExpireIdle(c))

FairSpec == Spec /\ Fairness

-----------------------------------------------------------------------------
(* Properties *)

\* No channel is used by more handlers at a time than its max_concurrency
\* allows, counting all replicas, and the units that its counter has lost
\* (AcquireChannel, ReleaseChannel).
SlotsBounded ==
  \A c \in Channels : Cardinality(Holders(c)) <= MaxConcurrency[c] + spare[c]

\* The channel a handler has a slot of.
Slot == [r \in Requests |-> IF pc[r] \in Busy THEN {Current(r)} ELSE {}]
Limit == INSTANCE Semaphore WITH Users <- Requests, Places <- Channels,
                                 Capacity <- MaxConcurrency, inside <- Slot, spare <- spare

\* The pool is a semaphore for each channel, whose count is in Redis: a handler gets a slot only
\* when one is free, of one channel at a time, and never swaps it for another's, although what
\* AcquireChannel looked at is old when it counts itself in.  What the counter has lost (a DECR
\* that took effect twice, a counter that went or was set to 0 under its handlers) counts as
\* free (AcquireChannel, ReleaseChannel).
SlotsLimited == Limit!Spec

\* The shared counter of a channel is exactly the number of handlers between
\* their INCR and their DECR, plus what INCRs have added that no DECR will take
\* off (a crash, a panic, a lost reply), less what was taken off it without them
\* (a DECR sent twice, an expiry, a shutdown, SET 0 over handlers that were
\* counted).  So nothing else makes it drift, and a missing key stands for 0
\* (AcquireChannel, ReleaseChannel, LoadFromDB).
SlotsAccounted ==
  \A c \in Channels : Value(c) = Cardinality(Window(c)) + leaked[c] - spare[c]

\* A channel at capacity is not lost, even when every one of its slots was taken
\* by a handler that panicked, died with its replica or missed the reply of its
\* INCR or DECR: while it looks full nobody tries it, so its counter expires -
\* unless its key has no TTL, as after an INCR that no EXPIRE followed (the
\* filter of AcquireChannel, ReleaseChannel, the TTL).
FullChannelFrees ==
  \A c \in Channels : Value(c) >= MaxConcurrency[c] /\ ttl[c] ~> Value(c) < MaxConcurrency[c]

\* A channel taken out of selection comes back: its breaker, which nothing ever
\* asks for Allow, is replaced by the next reload (HealthCheckLoop, LoadFromDB).
OpenChannelReturns ==
  \A p \in Replicas, c \in Channels :
    breaker[p][c].state = "open" ~> breaker[p][c].state # "open"
=============================================================================
