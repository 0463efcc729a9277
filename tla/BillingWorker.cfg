\* Two tasks of any kind, two workers, a channel of one; one fault of any sort,
\* a shutdown at any time.
CONSTANTS
  t1 = t1
  t2 = t2
  Tasks <- TwoTasks
  Mixes <- TwoKinds
  Workers = {w1, w2}
  Flusher = Flusher
  Nobody = Nobody
  QueueSize = 1
  FlushSize = 2
  Faults = {"refused", "lostReply", "crash"}
  MaxFaults = 1
SPECIFICATION FairSpec
INVARIANTS NoDoubleCharge FinishedIsBilled GracefulLeavesNoBuffer
PROPERTY EnqueuedGetsThrough
\* the process ends
CHECK_DEADLOCK FALSE
