SPECIFICATION Spec
CONSTANTS
  MaxCores = 3
  BootCores = 1
  QueueLen = 1
  Instructions <- BriefProgram
  Faults = {"BOOT", "SERVICE"}
  WakeBound = 0
  NULL = NULL
INVARIANTS
  TypeOK
  PanicIsNext
  DoneStopsAll
  WokenAnswered
  HandlesWritten
  OverflowIsNext
  WaitersAreQueued
PROPERTIES
  ServiceSpec
  ResultDecidedOnce
CHECK_DEADLOCK FALSE
