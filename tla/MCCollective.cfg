SPECIFICATION FairSpec
CONSTANTS
  N = 3
  MaxInt = 2
  Jobs <- MCJobs
  Views <- MCViews
  Careless <- MCCareless
  Faulty <- MCFaulty
INVARIANTS TypeOK RightResult BuffersReleased HostFits NoneLeftWaiting
PROPERTY StuckOnlyByFailure
CHECK_DEADLOCK FALSE
