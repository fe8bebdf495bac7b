CONSTANTS
  t1 = t1
  t2 = t2
  w1 = w1
  r1 = r1
  c1 = c1
  x1 = x1
  x2 = x2
  NoTask = NoTask
  Dismisser = Dismisser
  Tasks <- TwoTasks
  Workers <- OneWorker
  Runners <- OneRunner
  Closers <- OneCloser
  Waiters <- TwoWaiters
  MaxPending = 1
  Mode = "LIFO"
  HasTimeout = TRUE
SPECIFICATION FairSpec
INVARIANTS PendingExact
PROPERTIES Contract OutIsFinal NobodyHangs
CHECK_DEADLOCK FALSE
