CONSTANTS
  t1 = t1
  t2 = t2
  w1 = w1
  w2 = w2
  r1 = r1
  c1 = c1
  NoTask = NoTask
  Tasks <- OneTask
  Workers <- OneWorker
  Runners <- OneRunner
  Closers <- NoCloser
  MaxPending = 1
  Mode = "FIFO"
  HasTimeout = FALSE
SPECIFICATION FairSpec
PROPERTIES EveryPushRuns
CHECK_DEADLOCK FALSE
