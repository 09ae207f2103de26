SPECIFICATION Spec
CONSTANTS
  Files <- AnyFile
  Words = 256
  PageLen = 16
  MaxAlloc = 128
  StackLen = 16
  Faults = {"OPEN", "MALLOC", "MAP"}
INVARIANTS
  ReaderTypeOK
  AcceptedIsWhole
  SymbolsAreTheFiles
  FreesAreTheirs
  ReadsInBounds
CHECK_DEADLOCK FALSE
