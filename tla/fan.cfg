CONSTANTS
  j1 = j1
  j2 = j2
  j3 = j3
  Jobs <- ThreeJobs
SPECIFICATION FairSpec
INVARIANTS SummaryComplete BlameIsOriginal
PROPERTIES FailsFast Answers
CHECK_DEADLOCK FALSE
