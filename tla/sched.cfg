CONSTANTS
  t1 = t1
  t2 = t2
  w1 = w1
  w2 = w2
  r1 = r1
  c1 = c1
  NoTask = NoTask
  Tasks <- TwoTasks
  Workers <- TwoWorkers
  Runners <- OneRunner
  Closers <- OneCloser
  MaxPending = 1
  Mode = "FIFO"
  HasTimeout = TRUE
SPECIFICATION FairSpec
INVARIANTS PendingExact QueueBound CloseWaits
PROPERTIES Contract CloseReturns WorkersLeave
CHECK_DEADLOCK FALSE
