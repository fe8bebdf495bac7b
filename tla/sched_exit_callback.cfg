CONSTANTS
  t1 = t1
  t2 = t2
  w1 = w1
  w2 = w2
  r1 = r1
  c1 = c1
  NoTask = NoTask
  Tasks <- TwoTasks
  Workers <- OneWorker
  Runners <- OneRunner
  Closers <- OneCloser
  MaxPending = 1
  Mode = "FIFO"
  HasTimeout = FALSE
SPECIFICATION Spec
INVARIANTS EveryPushSettled
CHECK_DEADLOCK FALSE
