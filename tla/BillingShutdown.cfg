\* A task is still in the channel when Shutdown reports a graceful end.
CONSTANTS
  t1 = t1
  t2 = t2
  Tasks <- TwoTasks
  Mixes <- TwoKinds
  Workers = {w1, w2}
  Flusher = Flusher
  Nobody = Nobody
  QueueSize = 1
  FlushSize = 2
  Faults = {}
  MaxFaults = 0
SPECIFICATION Spec
INVARIANT GracefulFlushesAll
\* the process ends
CHECK_DEADLOCK FALSE
