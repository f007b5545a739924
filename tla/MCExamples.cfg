CONSTANTS
  Builds <- MCBuilds
  Programs <- AllPrograms
  Sizes = {1, 2, 3}
  Warmup = 2
  Profile = 1
SPECIFICATION FairSpec
INVARIANTS
  TypeOK
  RightAnswer
  WorkHasItsBuffers
  SucceedsInItsBuild
  OneOwner
PROPERTIES
  AllEnd
CHECK_DEADLOCK FALSE
