\* The calls of the hybrid examples, on three processes of two nodes.
SPECIFICATION FairSpec
CONSTANTS
  world = world
  node = node
  Null = Null
  N = 3
  Builds = {{"ompi", "ccl"}}
  Comms <- MCComms
  CommHome <- MCCommHome
  Cliques = {world, node}
  CliqueSize <- MCCliqueSize
  CliqueRank <- MCCliqueRank
  LocalRank <- MCLocalRank
  LocalDevices = 2
  MaxCalls = 9
  Calls <- MCCalls
  Careless = {}
  Faulty = {}
PROPERTIES
  EndsClean
\* The processes stop when they have made their calls.
CHECK_DEADLOCK FALSE
