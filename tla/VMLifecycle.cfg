SPECIFICATION ProcFairSpec
CONSTANTS
  MaxCores = 2
  BootCores = 1
  QueueLen = 1
  Instructions <- AnyProgram
  Faults = {"BOOT", "SPURIOUS"}
  WakeBound = 0
  FileTables = {"sections"}
  NULL = NULL
INVARIANTS
  ProcTypeOK
  FreesWhatIsThere
  
PROPERTIES
  LateCoresStop
  TakenIsAnswered
  ToldCoresEnd
  ProcessEnds
CHECK_DEADLOCK FALSE
