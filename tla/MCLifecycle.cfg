\* Any calls of two processes, some of which fail.
SPECIFICATION Spec
CONSTANTS
  a1 = a1
  a2 = a2
  b1 = b1
  both = both
  solo = solo
  Null = Null
  N = 2
  Builds <- MCBuilds
  Comms <- MCComms
  CommHome <- MCCommHome
  Cliques = {both, solo}
  CliqueSize <- MCCliqueSize
  CliqueRank <- MCCliqueRank
  LocalRank <- MCLocalRank
  LocalDevices = 2
  MaxCalls = 5
  Calls <- MCCalls
  Careless = {0}
  Faulty = {0, 1}
INVARIANTS
  TypeOK
  HandlesOwned
  WorldOfSlot
PROPERTIES
  SlotsKept
\* A process waits for good in a collective call the other never makes.
CHECK_DEADLOCK FALSE
