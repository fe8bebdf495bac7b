CONSTANTS
  i1 = i1
  i2 = i2
  w1 = w1
  w2 = w2
  c1 = c1
  NoItem = NoItem
  Items <- MCTwoItems
  N = 2
  Workers <- MCTwoWorkers
  MaxPending = 1
  Closers <- MCOneCloser
  HasTimeout = FALSE
SPECIFICATION Spec
SYMMETRY Symmetry
INVARIANTS Once CloseWaits NeverStuck
CHECK_DEADLOCK FALSE
