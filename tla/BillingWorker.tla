---------------------------- MODULE BillingWorker ---------------------------
(***************************************************************************)
(* internal/billing/worker.go and record.go: the billing of finished       *)
(* requests.  Handlers enqueue one task per request into a bounded Go      *)
(* channel; worker goroutines move tasks into a shared buffer; the         *)
(* periodic flusher, and each worker when it stops, swaps the buffer for   *)
(* an empty one and writes the batch.  A batch whose transaction fails is  *)
(* written task by task, and a task that finds the channel full is written *)
(* at once by a goroutine of its own.                                      *)
(*                                                                         *)
(* Nothing depends on the order of tasks in the channel or in a batch, so  *)
(* a task has a stage and an owner (the goroutine that carries it) and the *)
(* channel, the buffer and the batches are the sets of tasks at a stage.   *)
(***************************************************************************)
EXTENDS Naturals, FiniteSets

CONSTANTS
  Tasks,      \* requests to bill
  Mixes,      \* what the requests may have used, a subset of [Tasks -> Kinds]
  Workers,    \* worker goroutines
  Flusher,    \* the goroutine of periodicFlush
  Nobody,     \* owner of a task no goroutine of the pool carries
  QueueSize,  \* capacity of the channel (10000)
  FlushSize,  \* buffer length that asks for a flush (200)
  Faults,     \* which faults may happen, a subset of AllFaults
  MaxFaults   \* bound: number of faults

\* normal: some tokens.  zero: no tokens.  big: tokens worth more than 2^31 - 1
\* units of 10^-8 yuan, about 21.47 yuan.
Kinds == {"normal", "zero", "big"}

\* refused: a statement fails without effect.  lostReply: it takes effect and
\* reports an error.  crash: the process dies.
AllFaults == {"refused", "lostReply", "crash"}

Procs == Workers \union {Flusher}

ASSUME BillingAssumption ==
  /\ Mixes \subseteq [Tasks -> Kinds]
  /\ Workers # {}
  /\ Flusher \notin Workers /\ Nobody \notin Procs
  /\ QueueSize \in Nat \ {0} /\ FlushSize \in Nat \ {0}
  /\ Faults \subseteq AllFaults
  /\ MaxFaults \in Nat

VARIABLES
  kind,      \* kind[t]: what the request used
  stage,     \* stage[t]: where task t is
  owner,     \* owner[t]: the goroutine that carries it
  price,     \* price[t]: what the price lookup of writeDirect found
  pc,        \* pc[p]: "run", "draining" (workers only) or "stopped"
  flushCh,   \* flush signals pending in a channel of capacity 1
  shut,      \* how far Shutdown is; "exited" when the process is gone
  charges,   \* charges[t]: times the user's balance was charged for t
  rows,      \* rows[t]: rows of billing_records for t
  counted,   \* counted[t]: times Redis added t's tokens to the day's
  faults     \* counter for the bound

ledger == <<charges, rows, counted>>
poolVars == <<pc, flushCh, shut>>
vars == <<kind, stage, owner, price, poolVars, ledger, faults>>

Writing == {"direct", "priced", "charged", "recorded"}
Pipeline == {"queued", "held", "buffered", "batched"} \union Writing
Stages == {"new", "finished", "panicked"} \union Pipeline

TypeOK ==
  /\ kind \in [Tasks -> Kinds]
  /\ stage \in [Tasks -> Stages]
  /\ owner \in [Tasks -> Procs \union {Nobody}]
  /\ price \in [Tasks -> {"full", "free"}]
  /\ pc \in [Procs -> {"run", "draining", "stopped"}]
  /\ flushCh \in 0..1
  /\ shut \in {"no", "cancelled", "closed", "graceful", "timeout", "exited"}
  /\ charges \in [Tasks -> Nat]
  /\ rows \in [Tasks -> Nat]
  /\ counted \in [Tasks -> Nat]
  /\ faults \in 0..MaxFaults
  /\ \A t \in Tasks : stage[t] = "held" => owner[t] \in Workers
  /\ \A t \in Tasks : stage[t] = "batched" => owner[t] \in Procs

Init ==
  /\ kind \in Mixes
  /\ stage = [t \in Tasks |-> "new"]
  /\ owner = [t \in Tasks |-> Nobody]
  /\ price = [t \in Tasks |-> "full"]
  /\ pc = [p \in Procs |-> "run"]
  /\ flushCh = 0
  /\ shut = "no"
  /\ charges = [t \in Tasks |-> 0]
  /\ rows = [t \in Tasks |-> 0]
  /\ counted = [t \in Tasks |-> 0]
  /\ faults = 0

-----------------------------------------------------------------------------
(* Helpers *)

alive == shut # "exited"

At(s) == {t \in Tasks : stage[t] = s}
Batch(p) == {t \in At("batched") : owner[t] = p}
Carried(p) == {t \in Tasks : owner[t] = p /\ stage[t] \in {"held", "batched"} \union Writing}

\* The goroutine is in its select statement.
Selecting(p) == alive /\ pc[p] = "run" /\ Carried(p) = {}

MoveTo(T, s) == stage' = [t \in Tasks |-> IF t \in T THEN s ELSE stage[t]]
Own(T, p) == owner' = [t \in Tasks |-> IF t \in T THEN p ELSE owner[t]]
Plus(f, T) == [t \in Tasks |-> IF t \in T THEN f[t] + 1 ELSE f[t]]

MayFail(fault) == fault \in Faults /\ faults < MaxFaults /\ faults' = faults + 1

-----------------------------------------------------------------------------
(* Enqueue, called by the request handlers *)

Enqueue(t) ==
  /\ alive /\ stage[t] = "new"
  /\ shut \in {"no", "cancelled"}
  /\ Cardinality(At("queued")) < QueueSize
  /\ MoveTo({t}, "queued")
  /\ UNCHANGED <<kind, owner, price, poolVars, ledger, faults>>

\* The channel is full: go writeDirect.
Overflow(t) ==
  /\ alive /\ stage[t] = "new"
  /\ shut \in {"no", "cancelled"}
  /\ Cardinality(At("queued")) >= QueueSize
  /\ MoveTo({t}, "direct")
  /\ UNCHANGED <<kind, owner, price, poolVars, ledger, faults>>

\* A send on a closed channel panics, and the task is gone.
EnqueueClosed(t) ==
  /\ alive /\ stage[t] = "new"
  /\ shut \notin {"no", "cancelled"}
  /\ MoveTo({t}, "panicked")
  /\ UNCHANGED <<kind, owner, price, poolVars, ledger, faults>>

-----------------------------------------------------------------------------
(* The workers *)

\* The select of a worker takes a task.  When the pool is cancelled it may still
\* do so: Go picks any case that is ready.
Take(w, t) ==
  /\ Selecting(w)
  /\ stage[t] = "queued"
  /\ MoveTo({t}, "held")
  /\ Own({t}, w)
  /\ UNCHANGED <<kind, price, poolVars, ledger, faults>>

\* addToBuffer.
AddToBuffer(w, t) ==
  /\ alive /\ t \in Carried(w) /\ stage[t] = "held"
  /\ MoveTo({t}, "buffered")
  /\ Own({t}, Nobody)
  /\ flushCh' = IF Cardinality(At("buffered")) + 1 >= FlushSize THEN 1 ELSE flushCh
  /\ UNCHANGED <<kind, price, pc, shut, ledger, faults>>

\* drainBuffer: the buffer becomes the batch of p.
DrainBuffer(p) == MoveTo(At("buffered"), "batched") /\ Own(At("buffered"), p)

\* Mutant: a worker stops without a last drainBuffer.
StopsUndrained(w) ==
  /\ Selecting(w)
  /\ shut # "no"
  /\ pc' = [pc EXCEPT ![w] = "draining"]
  /\ UNCHANGED <<kind, stage, owner, price, flushCh, shut, ledger, faults>>

\* The select of a worker sees the cancellation or the closed channel.
WorkerStops(w) ==
  /\ Selecting(w)
  /\ shut # "no"
  /\ DrainBuffer(w)
  /\ pc' = [pc EXCEPT ![w] = "draining"]
  /\ UNCHANGED <<kind, price, flushCh, shut, ledger, faults>>

WorkerDone(w) ==
  /\ alive /\ pc[w] = "draining" /\ Carried(w) = {}
  /\ pc' = [pc EXCEPT ![w] = "stopped"]
  /\ UNCHANGED <<kind, stage, owner, price, flushCh, shut, ledger, faults>>

-----------------------------------------------------------------------------
(* periodicFlush *)

Tick ==
  /\ Selecting(Flusher)
  /\ flushCh = 0
  /\ flushCh' = 1
  /\ UNCHANGED <<kind, stage, owner, price, pc, shut, ledger, faults>>

\* Mutant: the flusher hands the batch to nobody.
FlushForgets ==
  /\ Selecting(Flusher)
  /\ flushCh = 1
  /\ flushCh' = 0
  /\ MoveTo(At("buffered"), "batched")
  /\ UNCHANGED <<kind, owner, price, pc, shut, ledger, faults>>

Flush ==
  /\ Selecting(Flusher)
  /\ flushCh = 1
  /\ flushCh' = 0
  /\ DrainBuffer(Flusher)
  /\ UNCHANGED <<kind, price, pc, shut, ledger, faults>>

FlusherStops ==
  /\ Selecting(Flusher)
  /\ shut # "no"
  /\ pc' = [pc EXCEPT ![Flusher] = "stopped"]
  /\ UNCHANGED <<kind, stage, owner, price, flushCh, shut, ledger, faults>>

-----------------------------------------------------------------------------
(* flushBatch: one transaction *)

\* Mutant: the column is nullable.
InsertAccepted == FALSE

\* The INSERT of a batch names no balance_after, a column that is NOT NULL and
\* has no default: PostgreSQL rejects it and aborts the transaction, and the
\* COMMIT that follows reports an error.
InsertRejected == TRUE

\* The UPDATE divides its parameter by an integer literal, so the parameter is
\* an int4.  The client cannot encode a bigger cost: it sends nothing for this
\* task and goes on with the next one.
Unsent(t) == kind[t] = "big"
Sent(T) == {t \in T : ~Unsent(t)}

Aborts(T) == InsertRejected /\ Sent(T) # {}

\* Begin, a statement or the commit fails: writeDirectBatch.
BatchFails(p) ==
  /\ alive /\ Batch(p) # {}
  /\ \/ Aborts(Batch(p)) /\ UNCHANGED faults
     \/ MayFail("refused")
  /\ MoveTo(Batch(p), "direct")
  /\ UNCHANGED <<kind, owner, price, poolVars, ledger>>

\* The commit succeeds, and Redis counts the tokens of every task.
BatchCommits(p) ==
  /\ alive /\ Batch(p) # {}
  /\ ~Aborts(Batch(p))
  /\ MoveTo(Batch(p), "finished")
  /\ charges' = Plus(charges, Sent(Batch(p)))
  /\ rows' = Plus(rows, Sent(Batch(p)))
  /\ counted' = Plus(counted, Batch(p))
  /\ UNCHANGED <<kind, owner, price, poolVars, faults>>

\* The commit succeeds and its reply is lost: writeDirectBatch again.
CommitReplyLost(p) ==
  /\ alive /\ Batch(p) # {}
  /\ ~Aborts(Batch(p))
  /\ MayFail("lostReply")
  /\ MoveTo(Batch(p), "direct")
  /\ charges' = Plus(charges, Sent(Batch(p)))
  /\ rows' = Plus(rows, Sent(Batch(p)))
  /\ UNCHANGED <<kind, owner, price, poolVars, counted>>

-----------------------------------------------------------------------------
(* RecordUsageWithShadow, task by task *)

\* A goroutine writes its tasks one after the other; those of Nobody have a
\* goroutine each.
Turn(t) ==
  /\ alive /\ stage[t] = "direct"
  /\ \A u \in Tasks : owner[u] = owner[t] /\ stage[u] \in {"priced", "charged", "recorded"}
                        => owner[t] = Nobody

\* Nothing is recorded of a request without tokens.
NoTokens(t) ==
  /\ Turn(t)
  /\ kind[t] = "zero"
  /\ MoveTo({t}, "finished")
  /\ UNCHANGED <<kind, owner, price, poolVars, ledger, faults>>

\* The price lookup; when its queries fail the cost is 0.
LookupPrice(t) ==
  /\ Turn(t)
  /\ kind[t] # "zero"
  /\ MoveTo({t}, "priced")
  /\ \/ UNCHANGED <<price, faults>>
     \/ MayFail("refused") /\ price' = [price EXCEPT ![t] = "free"]
  /\ UNCHANGED <<kind, owner, poolVars, ledger>>

Charge(t) ==
  /\ alive /\ stage[t] = "priced"
  /\ MoveTo({t}, "charged")
  /\ charges' = Plus(charges, {t})
  /\ UNCHANGED <<kind, owner, price, poolVars, rows, counted, faults>>

\* Mutant: the write is tried again after an error.
ChargeRetried(t) ==
  /\ alive /\ stage[t] = "priced"
  /\ MoveTo({t}, "direct")
  /\ \/ MayFail("refused") /\ UNCHANGED charges
     \/ MayFail("lostReply") /\ charges' = Plus(charges, {t})
  /\ UNCHANGED <<kind, owner, price, poolVars, rows, counted>>

\* The UPDATE reports an error, whether or not it took effect: that is all.
ChargeFails(t) ==
  /\ alive /\ stage[t] = "priced"
  /\ MoveTo({t}, "finished")
  /\ \/ MayFail("refused") /\ UNCHANGED charges
     \/ MayFail("lostReply") /\ charges' = Plus(charges, {t})
  /\ UNCHANGED <<kind, owner, price, poolVars, rows, counted>>

\* Mutant: a failed insert keeps the tokens out of the daily count.
RecordStops(t) ==
  /\ alive /\ stage[t] = "charged"
  /\ MoveTo({t}, "finished")
  /\ rows' = Plus(rows, {t})
  /\ UNCHANGED <<kind, owner, price, poolVars, charges, counted, faults>>

\* The INSERT, in a transaction of its own; an error is only logged.
Record(t) ==
  /\ alive /\ stage[t] = "charged"
  /\ MoveTo({t}, "recorded")
  /\ \/ rows' = Plus(rows, {t}) /\ UNCHANGED faults
     \/ MayFail("refused") /\ UNCHANGED rows
  /\ UNCHANGED <<kind, owner, price, poolVars, charges, counted>>

\* The Redis pipeline, whose error is not looked at.
Count(t) ==
  /\ alive /\ stage[t] = "recorded"
  /\ MoveTo({t}, "finished")
  /\ \/ counted' = Plus(counted, {t}) /\ UNCHANGED faults
     \/ MayFail("refused") /\ counted' \in {counted, Plus(Plus(counted, {t}), {t})}
  /\ UNCHANGED <<kind, owner, price, poolVars, charges, rows>>

-----------------------------------------------------------------------------
(* Shutdown and the end of the process *)

Cancel ==
  /\ shut = "no"
  /\ shut' = "cancelled"
  /\ UNCHANGED <<kind, stage, owner, price, pc, flushCh, ledger, faults>>

Close ==
  /\ shut = "cancelled"
  /\ shut' = "closed"
  /\ UNCHANGED <<kind, stage, owner, price, pc, flushCh, ledger, faults>>

\* wg.Wait returns: every goroutine of the pool has, those of Overflow aside.
Graceful ==
  /\ shut = "closed"
  /\ \A p \in Procs : pc[p] = "stopped"
  /\ shut' = "graceful"
  /\ UNCHANGED <<kind, stage, owner, price, pc, flushCh, ledger, faults>>

TimedOut ==
  /\ shut = "closed"
  /\ shut' = "timeout"
  /\ UNCHANGED <<kind, stage, owner, price, pc, flushCh, ledger, faults>>

\* main returns some time after Shutdown has, and takes every goroutine along.
Exit ==
  /\ shut \in {"graceful", "timeout"}
  /\ shut' = "exited"
  /\ UNCHANGED <<kind, stage, owner, price, pc, flushCh, ledger, faults>>

Crash ==
  /\ alive /\ MayFail("crash")
  /\ shut' = "exited"
  /\ UNCHANGED <<kind, stage, owner, price, pc, flushCh, ledger>>

-----------------------------------------------------------------------------
(* The specification *)

Handler(t) == Enqueue(t) \/ Overflow(t) \/ EnqueueClosed(t)

Worker(w) == (\E t \in Tasks : Take(w, t) \/ AddToBuffer(w, t)) \/ WorkerStops(w) \/ WorkerDone(w)

PeriodicFlush == Tick \/ Flush \/ FlusherStops

FlushBatch(p) == BatchFails(p) \/ BatchCommits(p) \/ CommitReplyLost(p)

WriteDirect(t) ==
  NoTokens(t) \/ LookupPrice(t) \/ Charge(t) \/ ChargeFails(t) \/ Record(t) \/ Count(t)

Shutdown == Cancel \/ Close \/ Graceful \/ TimedOut \/ Exit

Next ==
  \/ \E t \in Tasks : Handler(t) \/ WriteDirect(t)
  \/ \E w \in Workers : Worker(w)
  \/ \E p \in Procs : FlushBatch(p)
  \/ PeriodicFlush \/ Shutdown \/ Crash

Spec == Init /\ [][Next]_vars

\* Every goroutine runs on, and every statement ends, if only with an error
\* when its connection breaks (writeDirect sets no timeout).  Nothing says that
\* handlers enqueue or that the process is ever shut down.
Fairness ==
  /\ \A w \in Workers : WF_vars(Worker(w))
  /\ WF_vars(PeriodicFlush)
  /\ \A p \in Procs : WF_vars(FlushBatch(p))
  /\ \A t \in Tasks : WF_vars(WriteDirect(t))

FairSpec == Spec /\ Fairness

-----------------------------------------------------------------------------
(* Properties *)

\* Whatever fails, whatever is retried and whenever the process dies, a request
\* is charged at most once, recorded at most once, and recorded only when it was
\* charged (flushBatch, writeDirectBatch, RecordUsageWithShadow).
NoDoubleCharge == \A t \in Tasks : rows[t] <= charges[t] /\ charges[t] <= 1

\* As long as no statement has failed, a task that has left the pipeline was
\* charged, recorded and counted exactly once and at its price; one without
\* tokens not at all.  Tasks too big for a batch aside: a batch
\* of nothing else commits without them.
FinishedIsBilled ==
  faults = 0 =>
    \A t \in Tasks \ {u \in Tasks : kind[u] = "big"} : stage[t] = "finished" =>
      LET n == IF kind[t] = "zero" THEN 0 ELSE 1 IN
      charges[t] = n /\ rows[t] = n /\ counted[t] = n /\ price[t] = "full"

\* When Shutdown reports a graceful end, whatever any goroutine of the pool had
\* taken out of the channel has been written: nothing is left in the shared
\* buffer, in a worker's hand or in a batch, in whatever order the workers and
\* the flusher stopped (WorkerStops, drainBuffer).
GracefulLeavesNoBuffer ==
  shut = "graceful" =>
    \A t \in Tasks : stage[t] \in Pipeline =>
      stage[t] = "queued" \/ (stage[t] \in Writing /\ owner[t] = Nobody)

\* A task that was enqueued gets through -- written or given up after an error --
\* as long as the process is not shut down and does not die (worker,
\* periodicFlush, flushBatch).
EnqueuedGetsThrough ==
  \A t \in Tasks :
    stage[t] \in Pipeline ~> stage[t] \notin Pipeline \/ shut # "no"

\* What the comments say and the code does not do.

\* "Shutdown gracefully stops the worker pool, flushing remaining tasks."
GracefulFlushesAll ==
  shut = "graceful" => \A t \in Tasks : stage[t] \notin Pipeline
=============================================================================
