SPECIFICATION Spec
CONSTANTS
  Bits = 2
  Words = 4
  ImmWords = 4
  SxWords = 2
  NarrowWords = 2
  REGR_COUNT = 2
  Mc = 1
  QS = 1
  CallRoom = 1
  RasLen = 1
  RasLimit = 1
  RasGrow = 1
  InstLen = 3
  Instructions <- Computing
INVARIANTS
  ComparisonStands
PROPERTIES
  FailuresHarmless
CHECK_DEADLOCK FALSE
