SPECIFICATION Spec
CONSTANTS
  t1 = t1
  s1 = s1
  s2 = s2
  b1 = b1
  b2 = b2
  Null = Null
  Threads = {t1}
  Devices = {0, 1}
  Streams = {s1, s2}
  Buffers = {b1, b2}
  BufferOf <- MCBufferOf
  CallSet <- MCCalls
  Warm = 2
  MaxCalls <- MCMaxCalls
INVARIANTS TypeOK InFlightKept RightAverage NullIsSynchronous StreamsInUse
PROPERTY GrowsOnlyInFlight
CHECK_DEADLOCK FALSE
