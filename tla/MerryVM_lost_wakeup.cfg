SPECIFICATION FairSpec
CONSTANTS
  MaxCores = 1
  BootCores = 1
  QueueLen = 2
  Instructions = {"WORK", "SERVICE"}
  Faults = {}
  WakeBound = 0
  NULL = NULL
PROPERTIES
  EveryRequestAnswered
CHECK_DEADLOCK FALSE
