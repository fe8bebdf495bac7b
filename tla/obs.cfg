CONSTANTS
  v1 = v1
  v2 = v2
  v3 = v3
  w1 = w1
  w2 = w2
  boom = boom
  NilReason = NilReason
  Completed = Completed
  Pump = Pump
  NoErr = NoErr
  NoValue = NoValue
  NoChan = NoChan
  ClosedCh = ClosedCh
  Values <- MCValues
  Watchers <- MCOneWatcher
  Reasons <- MCReasons
SPECIFICATION FairSpec
INVARIANT OneSignal
PROPERTIES NothingVanishes CancelFrees Contract Arrives
CHECK_DEADLOCK FALSE
