SPECIFICATION FairSpec
CONSTANTS
  N = 3
  Sizes <- MCSizes
  MaxInt = 2
  MaxSize = 7
  Eager = 1
  Programs <- MCPrograms
  Unsafe <- MCUnsafe
  Careless <- MCCareless
  Faulty <- MCFaulty
INVARIANTS TypeOK BuffersReleased ChunksMatch SomeRankGoesOn
PROPERTIES DeliversInOrder AllFinish
CHECK_DEADLOCK FALSE
