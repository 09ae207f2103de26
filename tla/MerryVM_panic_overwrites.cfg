SPECIFICATION Spec
CONSTANTS
  MaxCores = 2
  BootCores = 2
  QueueLen = 2
  Instructions = {"SERVICE", "FAULT"}
  Faults = {}
  WakeBound = 0
  NULL = NULL
PROPERTIES
  PanicKeepsRequests
CHECK_DEADLOCK FALSE
