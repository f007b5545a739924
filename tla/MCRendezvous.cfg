\* Four threads of one process, contending and misusing calls.
SPECIFICATION Spec
CONSTANTS
  p1 = p1
  t1 = t1
  t2 = t2
  t3 = t3
  t4 = t4
  c1 = c1
  c2 = c2
  c3 = c3
  c4 = c4
  k1 = k1
  k2 = k2
  Null = Null
  Processes = {p1}
  Threads <- MCThreads
  Home <- MCHome
  Comms <- MCComms
  CommHome <- MCCommHome
  Cliques = {k1, k2}
  Programs <- MCPrograms
  InitialComm <- MCInitialComm
  Faulty = {p1}
  MaxSpurious = 1
INVARIANTS
  TypeOK
  QueuesRight
  NoLostWakeup
  CliqueRanksDistinct
PROPERTIES
  HandleWrittenOnce
  SuccessMeansMember
  SettlesGroupsWhole
\* A thread waits for good when its group never gets all its members.
CHECK_DEADLOCK FALSE
