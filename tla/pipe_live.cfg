CONSTANTS
  i1 = i1
  i2 = i2
  w1 = w1
  w2 = w2
  c1 = c1
  NoItem = NoItem
  Items <- MCOneItem
  N = 1
  Workers <- MCOneWorker
  MaxPending = 1
  Closers <- MCOneCloser
  HasTimeout = TRUE
SPECIFICATION FairSpec
PROPERTIES CloseSettles CloseReturns
CHECK_DEADLOCK FALSE
