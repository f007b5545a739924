SPECIFICATION FairSpec
CONSTANTS
  N = 3
  MaxInt = 4
  Jobs <- MCJobs
  Views <- MCViews
  Careless <- MCNone
  Faulty <- MCNone
INVARIANT OnlyRootAllocates
CHECK_DEADLOCK FALSE
