CONSTANTS
  FloatExponent = 4
  FloatMantissa = 4
  DoubleMantissa = 6
  HalfExponent = 3
  HalfMantissa = 2
  BFloatMantissa = 1
  IntWidth = 9
  MaxRanks = 24
SPECIFICATION Spec
INVARIANTS
  MeanOfIntegers
  HalvesRound
CHECK_DEADLOCK FALSE
