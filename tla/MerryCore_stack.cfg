SPECIFICATION Spec
CONSTANTS
  Bits = 2
  Words = 4
  ImmWords = 2
  SxWords = 2
  NarrowWords = 2
  REGR_COUNT = 2
  Mc = 1
  QS = 3
  CallRoom = 1
  RasLen = 1
  RasLimit = 2
  RasGrow = 1
  InstLen = 3
  Instructions <- Calling
INVARIANTS
  TypeOK
PROPERTIES
  StraysAtEdges
  ReturnsMatchCalls
  FailuresHarmless
CHECK_DEADLOCK FALSE
