\* Well formed calls of two processes: every call returns with success.
SPECIFICATION FairSpec
CONSTANTS
  p1 = p1
  p2 = p2
  k1 = k1
  k2 = k2
  Null = Null
  Processes = {p1, p2}
  Threads <- MCThreads
  Home <- MCHome
  Comms <- MCComms
  CommHome <- MCCommHome
  Cliques = {k1, k2}
  Programs <- MCPrograms
  InitialComm <- MCInitialComm
  Faulty = {}
  MaxSpurious = 1
INVARIANTS
  SomeCallGoesOn
PROPERTIES
  AllCallsReturn
\* The threads stop when they have made their calls.
CHECK_DEADLOCK FALSE
