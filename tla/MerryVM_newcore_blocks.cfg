SPECIFICATION Spec
CONSTANTS
  MaxCores = 3
  BootCores = 2
  QueueLen = 2
  Instructions = {"SERVICE", "NEWCORE"}
  Faults = {}
  WakeBound = 0
  NULL = NULL
INVARIANTS
  OSNeverBlocks
CHECK_DEADLOCK FALSE
