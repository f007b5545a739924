SPECIFICATION FairSpec
CONSTANTS
  N = 2
  MaxInt = 4
  Jobs <- MCJobs
  Views <- MCViews
  Careless <- MCNone
  Faulty <- MCNone
INVARIANT CorrectForEveryType
CHECK_DEADLOCK FALSE
