SPECIFICATION Spec
CONSTANTS
  MaxCores = 3
  BootCores = 3
  QueueLen = 3
  Instructions = {"SERVICE", "EXIT"}
  Faults = {}
  WakeBound = 0
  NULL = NULL
PROPERTIES
  KillWakesAll
CHECK_DEADLOCK FALSE
