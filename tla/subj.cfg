CONSTANTS
  o1 = o1
  o2 = o2
  s1 = s1
  s2 = s2
  completed = completed
  boom = boom
  NoErr = NoErr
  NoValue = NoValue
  NoObserver = NoObserver
  Observers <- MCObservers
  Senders <- MCSenders
  SubjectCauses <- MCSubjectCauses
  OwnerCauses <- MCOwnerCauses
  Rounds = 2
SPECIFICATION FairSpec
INVARIANTS CancelReaches NoGap
PROPERTIES ContractsKept CancelFreesSenders CanceledForgotten Delivers
CHECK_DEADLOCK FALSE
