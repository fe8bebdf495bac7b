CONSTANTS
  a = a
  b = b
  w1 = w1
  w2 = w2
  Watcher = Watcher
  NoProc = NoProc
  Callers <- MCCallers
  Workers <- MCWorkers
  NilCausers <- MCNilCausers
  Reentrant <- MCReentrant
  HasTimeout = TRUE
SPECIFICATION FairSpec
INVARIANTS GracefulDrain ErrTellsWhy
PROPERTIES ErrIsFinal Contract Terminates CancelReturns NothingLeaks
CHECK_DEADLOCK FALSE
