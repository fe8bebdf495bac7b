CONSTANTS
  u1 = u1
  Watcher = Watcher
  N = 3
  Parallel = 2
  MaxPending = 1
  Overlap = "skip"
  HasTimeout = TRUE
  Users <- MCUsers
  Suicidal <- MCSuicidal
SPECIFICATION FairSpec
INVARIANTS DoneMeansQuiet
PROPERTIES SkipIsJustified DoneCloses
CHECK_DEADLOCK FALSE
