CONSTANTS
  i1 = i1
  i2 = i2
  w1 = w1
  w2 = w2
  c1 = c1
  NoItem = NoItem
  Items <- MCOneItem
  N = 2
  Workers <- MCOneWorker
  MaxPending = 1
  Closers <- MCOneCloser
  HasTimeout = FALSE
SPECIFICATION Spec
INVARIANT RunAsserts
CHECK_DEADLOCK FALSE
