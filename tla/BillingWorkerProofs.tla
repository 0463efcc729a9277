------------------------ MODULE BillingWorkerProofs -------------------------
(***************************************************************************)
(* No request is charged twice, and a graceful shutdown leaves nothing in  *)
(* the shared buffer, for any number of tasks and workers, any mix of      *)
(* kinds and any number of faults.                                         *)
(***************************************************************************)
EXTENDS BillingWorker, TLAPS

Unwritten == {"new", "queued", "held", "buffered", "batched", "direct", "priced", "panicked"}

(***************************************************************************)
(* The ledger follows the stage.  That a task is still uncharged when its  *)
(* batch falls back to writeDirect is what forbids a second charge: it     *)
(* rests on no transaction with a charge in it ever committing.            *)
(***************************************************************************)
LedgerInv ==
  \A t \in Tasks :
    /\ stage[t] \in Unwritten => charges[t] = 0 /\ rows[t] = 0
    /\ stage[t] = "charged" => charges[t] = 1 /\ rows[t] = 0
    /\ stage[t] \in {"recorded", "finished"} => charges[t] <= 1 /\ rows[t] <= charges[t]

(***************************************************************************)
(* A goroutine that carries tasks has not stopped, one that still has a    *)
(* task in its hand has not begun to, and while the buffer holds something *)
(* some worker has its last drainBuffer before it.                         *)
(***************************************************************************)
DrainInv ==
  /\ \A t \in Tasks : stage[t] = "new" => owner[t] = Nobody
  /\ \A t \in Tasks : stage[t] = "held" => pc[owner[t]] = "run"
  /\ \A t \in Tasks : stage[t] \in {"batched"} \union Writing /\ owner[t] # Nobody
                        => pc[owner[t]] # "stopped"
  /\ \A t \in Tasks : stage[t] = "buffered" => \E w \in Workers : pc[w] = "run"
  /\ shut = "graceful" => \A p \in Procs : pc[p] = "stopped"

(***************************************************************************)
(* Before the first fault, the ledger of a task that fits a batch follows  *)
(* its stage exactly, at the full price.  No batch with such a task in it  *)
(* commits, so only writeDirect finishes it.                               *)
(***************************************************************************)
CleanInv ==
  faults = 0 =>
    \A t \in Tasks : kind[t] # "big" =>
      /\ price[t] = "full"
      /\ stage[t] \in {"priced", "charged", "recorded"} => kind[t] # "zero"
      /\ stage[t] \in Unwritten => charges[t] = 0 /\ rows[t] = 0
      /\ stage[t] = "charged" => charges[t] = 1 /\ rows[t] = 0
      /\ stage[t] = "recorded" => charges[t] = 1 /\ rows[t] = 1
      /\ stage[t] = "finished" =>
           LET n == IF kind[t] = "zero" THEN 0 ELSE 1 IN
           charges[t] = n /\ rows[t] = n /\ counted[t] = n
      /\ stage[t] # "finished" => counted[t] = 0

IInv == TypeOK /\ LedgerInv /\ DrainInv /\ CleanInv

-----------------------------------------------------------------------------
\* Every step keeps the types.
LEMMA TypeStep ==
  ASSUME IInv, Next
  PROVE  TypeOK'
<1> USE BillingAssumption DEF IInv, TypeOK, vars, poolVars, ledger, Procs, Stages,
     Pipeline, Writing
<1>1. ASSUME NEW t \in Tasks, Enqueue(t) PROVE TypeOK'
  BY <1>1 DEF Enqueue, MoveTo
<1>2. ASSUME NEW t \in Tasks, Overflow(t) PROVE TypeOK'
  BY <1>2 DEF Overflow, MoveTo
<1>3. ASSUME NEW t \in Tasks, EnqueueClosed(t) PROVE TypeOK'
  BY <1>3 DEF EnqueueClosed, MoveTo
<1>4. ASSUME NEW t \in Tasks, NoTokens(t) PROVE TypeOK'
  BY <1>4 DEF NoTokens, MoveTo, Turn
<1>5. ASSUME NEW t \in Tasks, LookupPrice(t) PROVE TypeOK'
  BY <1>5 DEF LookupPrice, MoveTo, Turn, MayFail
<1>6. ASSUME NEW t \in Tasks, Charge(t) PROVE TypeOK'
  BY <1>6 DEF Charge, MoveTo, Plus
<1>7. ASSUME NEW t \in Tasks, ChargeFails(t) PROVE TypeOK'
  BY <1>7 DEF ChargeFails, MoveTo, Plus, MayFail
<1>8. ASSUME NEW t \in Tasks, Record(t) PROVE TypeOK'
  BY <1>8 DEF Record, MoveTo, Plus, MayFail
<1>9. ASSUME NEW t \in Tasks, Count(t) PROVE TypeOK'
  BY <1>9 DEF Count, MoveTo, Plus, MayFail
<1>10. ASSUME NEW t \in Tasks, NEW w \in Workers, Take(w, t) PROVE TypeOK'
  BY <1>10 DEF Take, MoveTo, Own, Selecting, Carried
<1>11. ASSUME NEW t \in Tasks, NEW w \in Workers, AddToBuffer(w, t) PROVE TypeOK'
  BY <1>11 DEF AddToBuffer, MoveTo, Own, At, Carried
<1>12. ASSUME NEW w \in Workers, WorkerStops(w) PROVE TypeOK'
  BY <1>12 DEF WorkerStops, DrainBuffer, MoveTo, Own, At, Selecting, Carried
<1>13. ASSUME NEW w \in Workers, WorkerDone(w) PROVE TypeOK'
  BY <1>13 DEF WorkerDone, Carried
<1>14. ASSUME NEW p \in Procs, BatchFails(p) PROVE TypeOK'
  BY <1>14 DEF BatchFails, Batch, MoveTo, At, MayFail
<1>15. ASSUME NEW p \in Procs, BatchCommits(p) PROVE TypeOK'
  BY <1>15 DEF BatchCommits, Aborts, InsertRejected, Batch, MoveTo, At, Plus, Sent, Unsent
<1>16. ASSUME NEW p \in Procs, CommitReplyLost(p) PROVE TypeOK'
  BY <1>16 DEF CommitReplyLost, Aborts, InsertRejected, Batch, MoveTo, At, Plus, Sent,
       Unsent, MayFail
<1>17. CASE Tick
  BY <1>17 DEF Tick, Selecting
<1>18. CASE Flush
  BY <1>18 DEF Flush, DrainBuffer, MoveTo, Own, At, Selecting, Carried
<1>19. CASE FlusherStops
  BY <1>19 DEF FlusherStops, Selecting, Carried
<1>20. CASE Cancel
  BY <1>20 DEF Cancel
<1>21. CASE Close
  BY <1>21 DEF Close
<1>22. CASE Graceful
  BY <1>22 DEF Graceful
<1>23. CASE TimedOut
  BY <1>23 DEF TimedOut
<1>24. CASE Exit
  BY <1>24 DEF Exit
<1>25. CASE Crash
  BY <1>25 DEF Crash, MayFail
<1> QED
  BY <1>1, <1>2, <1>3, <1>4, <1>5, <1>6, <1>7, <1>8, <1>9, <1>10, <1>11, <1>12, <1>13,
       <1>14, <1>15, <1>16, <1>17, <1>18, <1>19, <1>20, <1>21, <1>22, <1>23, <1>24,
            <1>25 DEF Next, Handler, Worker, PeriodicFlush, FlushBatch, WriteDirect, Shutdown

\* Every step keeps the ledger in line with the stages.
LEMMA LedgerStep ==
  ASSUME IInv, Next
  PROVE  LedgerInv'
<1> USE BillingAssumption DEF IInv, TypeOK, vars, poolVars, ledger, Procs, Stages,
     Pipeline, Writing, LedgerInv, Unwritten
<1>1. ASSUME NEW t \in Tasks, Enqueue(t) PROVE LedgerInv'
  BY <1>1 DEF Enqueue, MoveTo
<1>2. ASSUME NEW t \in Tasks, Overflow(t) PROVE LedgerInv'
  BY <1>2 DEF Overflow, MoveTo
<1>3. ASSUME NEW t \in Tasks, EnqueueClosed(t) PROVE LedgerInv'
  BY <1>3 DEF EnqueueClosed, MoveTo
<1>4. ASSUME NEW t \in Tasks, NoTokens(t) PROVE LedgerInv'
  BY <1>4 DEF NoTokens, MoveTo, Turn
<1>5. ASSUME NEW t \in Tasks, LookupPrice(t) PROVE LedgerInv'
  BY <1>5 DEF LookupPrice, MoveTo, Turn, MayFail
<1>6. ASSUME NEW t \in Tasks, Charge(t) PROVE LedgerInv'
  BY <1>6 DEF Charge, MoveTo, Plus
<1>7. ASSUME NEW t \in Tasks, ChargeFails(t) PROVE LedgerInv'
  BY <1>7 DEF ChargeFails, MoveTo, Plus, MayFail
<1>8. ASSUME NEW t \in Tasks, Record(t) PROVE LedgerInv'
  BY <1>8 DEF Record, MoveTo, Plus, MayFail
<1>9. ASSUME NEW t \in Tasks, Count(t) PROVE LedgerInv'
  BY <1>9 DEF Count, MoveTo, Plus, MayFail
<1>10. ASSUME NEW t \in Tasks, NEW w \in Workers, Take(w, t) PROVE LedgerInv'
  BY <1>10 DEF Take, MoveTo, Own, Selecting, Carried
<1>11. ASSUME NEW t \in Tasks, NEW w \in Workers, AddToBuffer(w, t) PROVE LedgerInv'
  BY <1>11 DEF AddToBuffer, MoveTo, Own, At, Carried
<1>12. ASSUME NEW w \in Workers, WorkerStops(w) PROVE LedgerInv'
  BY <1>12 DEF WorkerStops, DrainBuffer, MoveTo, Own, At, Selecting, Carried
<1>13. ASSUME NEW w \in Workers, WorkerDone(w) PROVE LedgerInv'
  BY <1>13 DEF WorkerDone, Carried
<1>14. ASSUME NEW p \in Procs, BatchFails(p) PROVE LedgerInv'
  BY <1>14 DEF BatchFails, Batch, MoveTo, At, MayFail
<1>15. ASSUME NEW p \in Procs, BatchCommits(p) PROVE LedgerInv'
  BY <1>15 DEF BatchCommits, Aborts, InsertRejected, Batch, MoveTo, At, Plus, Sent, Unsent
<1>16. ASSUME NEW p \in Procs, CommitReplyLost(p) PROVE LedgerInv'
  BY <1>16 DEF CommitReplyLost, Aborts, InsertRejected, Batch, MoveTo, At, Plus, Sent,
       Unsent, MayFail
<1>17. CASE Tick
  BY <1>17 DEF Tick, Selecting
<1>18. CASE Flush
  BY <1>18 DEF Flush, DrainBuffer, MoveTo, Own, At, Selecting, Carried
<1>19. CASE FlusherStops
  BY <1>19 DEF FlusherStops, Selecting, Carried
<1>20. CASE Cancel
  BY <1>20 DEF Cancel
<1>21. CASE Close
  BY <1>21 DEF Close
<1>22. CASE Graceful
  BY <1>22 DEF Graceful
<1>23. CASE TimedOut
  BY <1>23 DEF TimedOut
<1>24. CASE Exit
  BY <1>24 DEF Exit
<1>25. CASE Crash
  BY <1>25 DEF Crash, MayFail
<1> QED
  BY <1>1, <1>2, <1>3, <1>4, <1>5, <1>6, <1>7, <1>8, <1>9, <1>10, <1>11, <1>12, <1>13,
       <1>14, <1>15, <1>16, <1>17, <1>18, <1>19, <1>20, <1>21, <1>22, <1>23, <1>24,
            <1>25 DEF Next, Handler, Worker, PeriodicFlush, FlushBatch, WriteDirect, Shutdown

\* Every step leaves somebody in charge of what is in the buffer.
LEMMA DrainStep ==
  ASSUME IInv, Next
  PROVE  DrainInv'
<1> USE BillingAssumption DEF IInv, TypeOK, vars, poolVars, ledger, Procs, Stages,
     Pipeline, Writing, DrainInv
<1>1. ASSUME NEW t \in Tasks, Enqueue(t) PROVE DrainInv'
  BY <1>1 DEF Enqueue, MoveTo
<1>2. ASSUME NEW t \in Tasks, Overflow(t) PROVE DrainInv'
  BY <1>2 DEF Overflow, MoveTo
<1>3. ASSUME NEW t \in Tasks, EnqueueClosed(t) PROVE DrainInv'
  BY <1>3 DEF EnqueueClosed, MoveTo
<1>4. ASSUME NEW t \in Tasks, NoTokens(t) PROVE DrainInv'
  BY <1>4 DEF NoTokens, MoveTo, Turn
<1>5. ASSUME NEW t \in Tasks, LookupPrice(t) PROVE DrainInv'
  BY <1>5 DEF LookupPrice, MoveTo, Turn, MayFail
<1>6. ASSUME NEW t \in Tasks, Charge(t) PROVE DrainInv'
  BY <1>6 DEF Charge, MoveTo, Plus
<1>7. ASSUME NEW t \in Tasks, ChargeFails(t) PROVE DrainInv'
  BY <1>7 DEF ChargeFails, MoveTo, Plus, MayFail
<1>8. ASSUME NEW t \in Tasks, Record(t) PROVE DrainInv'
  BY <1>8 DEF Record, MoveTo, Plus, MayFail
<1>9. ASSUME NEW t \in Tasks, Count(t) PROVE DrainInv'
  BY <1>9 DEF Count, MoveTo, Plus, MayFail
<1>10. ASSUME NEW t \in Tasks, NEW w \in Workers, Take(w, t) PROVE DrainInv'
  BY <1>10 DEF Take, MoveTo, Own, Selecting, Carried
<1>11. ASSUME NEW t \in Tasks, NEW w \in Workers, AddToBuffer(w, t) PROVE DrainInv'
  BY <1>11 DEF AddToBuffer, MoveTo, Own, At, Carried
<1>12. ASSUME NEW w \in Workers, WorkerStops(w) PROVE DrainInv'
  BY <1>12 DEF WorkerStops, DrainBuffer, MoveTo, Own, At, Selecting, Carried
<1>13. ASSUME NEW w \in Workers, WorkerDone(w) PROVE DrainInv'
  BY <1>13 DEF WorkerDone, Carried
<1>14. ASSUME NEW p \in Procs, BatchFails(p) PROVE DrainInv'
  BY <1>14 DEF BatchFails, Batch, MoveTo, At, MayFail
<1>15. ASSUME NEW p \in Procs, BatchCommits(p) PROVE DrainInv'
  BY <1>15 DEF BatchCommits, Aborts, InsertRejected, Batch, MoveTo, At, Plus, Sent, Unsent
<1>16. ASSUME NEW p \in Procs, CommitReplyLost(p) PROVE DrainInv'
  BY <1>16 DEF CommitReplyLost, Aborts, InsertRejected, Batch, MoveTo, At, Plus, Sent,
       Unsent, MayFail
<1>17. CASE Tick
  BY <1>17 DEF Tick, Selecting
<1>18. CASE Flush
  BY <1>18 DEF Flush, DrainBuffer, MoveTo, Own, At, Selecting, Carried
<1>19. CASE FlusherStops
  BY <1>19 DEF FlusherStops, Selecting, Carried
<1>20. CASE Cancel
  BY <1>20 DEF Cancel
<1>21. CASE Close
  BY <1>21 DEF Close
<1>22. CASE Graceful
  BY <1>22 DEF Graceful
<1>23. CASE TimedOut
  BY <1>23 DEF TimedOut
<1>24. CASE Exit
  BY <1>24 DEF Exit
<1>25. CASE Crash
  BY <1>25 DEF Crash, MayFail
<1> QED
  BY <1>1, <1>2, <1>3, <1>4, <1>5, <1>6, <1>7, <1>8, <1>9, <1>10, <1>11, <1>12, <1>13,
       <1>14, <1>15, <1>16, <1>17, <1>18, <1>19, <1>20, <1>21, <1>22, <1>23, <1>24,
            <1>25 DEF Next, Handler, Worker, PeriodicFlush, FlushBatch, WriteDirect, Shutdown

\* Every step that is not a fault keeps unfailed tasks billed exactly.
LEMMA CleanStep ==
  ASSUME IInv, Next
  PROVE  CleanInv'
<1> USE BillingAssumption DEF IInv, TypeOK, vars, poolVars, ledger, Procs, Stages,
     Pipeline, Writing, CleanInv, Unwritten
<1>1. ASSUME NEW t \in Tasks, Enqueue(t) PROVE CleanInv'
  BY <1>1 DEF Enqueue, MoveTo
<1>2. ASSUME NEW t \in Tasks, Overflow(t) PROVE CleanInv'
  BY <1>2 DEF Overflow, MoveTo
<1>3. ASSUME NEW t \in Tasks, EnqueueClosed(t) PROVE CleanInv'
  BY <1>3 DEF EnqueueClosed, MoveTo
<1>4. ASSUME NEW t \in Tasks, NoTokens(t) PROVE CleanInv'
  BY <1>4 DEF NoTokens, MoveTo, Turn
<1>5. ASSUME NEW t \in Tasks, LookupPrice(t) PROVE CleanInv'
  BY <1>5 DEF LookupPrice, MoveTo, Turn, MayFail
<1>6. ASSUME NEW t \in Tasks, Charge(t) PROVE CleanInv'
  BY <1>6 DEF Charge, MoveTo, Plus
<1>7. ASSUME NEW t \in Tasks, ChargeFails(t) PROVE CleanInv'
  BY <1>7 DEF ChargeFails, MoveTo, Plus, MayFail
<1>8. ASSUME NEW t \in Tasks, Record(t) PROVE CleanInv'
  BY <1>8 DEF Record, MoveTo, Plus, MayFail
<1>9. ASSUME NEW t \in Tasks, Count(t) PROVE CleanInv'
  BY <1>9 DEF Count, MoveTo, Plus, MayFail
<1>10. ASSUME NEW t \in Tasks, NEW w \in Workers, Take(w, t) PROVE CleanInv'
  BY <1>10 DEF Take, MoveTo, Own, Selecting, Carried
<1>11. ASSUME NEW t \in Tasks, NEW w \in Workers, AddToBuffer(w, t) PROVE CleanInv'
  BY <1>11 DEF AddToBuffer, MoveTo, Own, At, Carried
<1>12. ASSUME NEW w \in Workers, WorkerStops(w) PROVE CleanInv'
  BY <1>12 DEF WorkerStops, DrainBuffer, MoveTo, Own, At, Selecting, Carried
<1>13. ASSUME NEW w \in Workers, WorkerDone(w) PROVE CleanInv'
  BY <1>13 DEF WorkerDone, Carried
<1>14. ASSUME NEW p \in Procs, BatchFails(p) PROVE CleanInv'
  BY <1>14 DEF BatchFails, Batch, MoveTo, At, MayFail
<1>15. ASSUME NEW p \in Procs, BatchCommits(p) PROVE CleanInv'
  BY <1>15 DEF BatchCommits, Aborts, InsertRejected, Batch, MoveTo, At, Plus, Sent, Unsent
<1>16. ASSUME NEW p \in Procs, CommitReplyLost(p) PROVE CleanInv'
  BY <1>16 DEF CommitReplyLost, Aborts, InsertRejected, Batch, MoveTo, At, Plus, Sent,
       Unsent, MayFail
<1>17. CASE Tick
  BY <1>17 DEF Tick, Selecting
<1>18. CASE Flush
  BY <1>18 DEF Flush, DrainBuffer, MoveTo, Own, At, Selecting, Carried
<1>19. CASE FlusherStops
  BY <1>19 DEF FlusherStops, Selecting, Carried
<1>20. CASE Cancel
  BY <1>20 DEF Cancel
<1>21. CASE Close
  BY <1>21 DEF Close
<1>22. CASE Graceful
  BY <1>22 DEF Graceful
<1>23. CASE TimedOut
  BY <1>23 DEF TimedOut
<1>24. CASE Exit
  BY <1>24 DEF Exit
<1>25. CASE Crash
  BY <1>25 DEF Crash, MayFail
<1> QED
  BY <1>1, <1>2, <1>3, <1>4, <1>5, <1>6, <1>7, <1>8, <1>9, <1>10, <1>11, <1>12, <1>13,
       <1>14, <1>15, <1>16, <1>17, <1>18, <1>19, <1>20, <1>21, <1>22, <1>23, <1>24,
            <1>25 DEF Next, Handler, Worker, PeriodicFlush, FlushBatch, WriteDirect, Shutdown

-----------------------------------------------------------------------------
(* The theorems.                                                           *)

LEMMA InitInv == Init => IInv
  BY BillingAssumption DEF Init, IInv, TypeOK, LedgerInv, DrainInv, CleanInv, Unwritten, Stages,
     Pipeline, Writing, Procs

LEMMA NextInv == IInv /\ [Next]_vars => IInv'
<1>1. ASSUME IInv, Next PROVE IInv'
  BY <1>1, TypeStep, LedgerStep, DrainStep, CleanStep DEF IInv
<1>2. ASSUME IInv, UNCHANGED vars PROVE IInv'
  BY <1>2 DEF IInv, TypeOK, LedgerInv, DrainInv, CleanInv, vars, poolVars, ledger
<1> QED
  BY <1>1, <1>2

LEMMA Invariance == Spec => []IInv
  BY InitInv, NextInv, PTL DEF Spec

\* Tasks, goroutines and the ledger keep to their types, and whoever carries a
\* task may carry it (worker.go).
THEOREM TypeCorrect == Spec => []TypeOK
<1>1. IInv => TypeOK
  BY DEF IInv
<1> QED
  BY <1>1, Invariance, PTL

\* A request is charged at most once and recorded only when charged, whatever
\* statements fail, replies get lost and crashes happen (flushBatch,
\* RecordUsageWithShadow).
THEOREM ChargedAtMostOnce == Spec => []NoDoubleCharge
<1>1. IInv => NoDoubleCharge
  BY DEF IInv, TypeOK, LedgerInv, NoDoubleCharge, Unwritten, Stages, Pipeline, Writing
<1> QED
  BY <1>1, Invariance, PTL

\* When Shutdown has waited for every goroutine of the pool, the buffer and all
\* batches are written, in whatever order the goroutines stopped (drainBuffer,
\* Shutdown).
THEOREM GracefulDrain == Spec => []GracefulLeavesNoBuffer
<1>1. IInv => GracefulLeavesNoBuffer
  BY BillingAssumption DEF IInv, TypeOK, DrainInv, GracefulLeavesNoBuffer, Stages, Pipeline,
     Writing, Procs
<1> QED
  BY <1>1, Invariance, PTL

\* As long as no statement has failed, a task that is finished was charged,
\* recorded and counted exactly once, one without tokens not at all; tasks too
\* big for a batch aside (flushBatch, RecordUsageWithShadow).
THEOREM BilledExactly == Spec => []FinishedIsBilled
<1>1. IInv => FinishedIsBilled
  BY DEF IInv, CleanInv, FinishedIsBilled
<1> QED
  BY <1>1, Invariance, PTL
=============================================================================
