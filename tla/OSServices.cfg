SPECIFICATION MCSpec
CONSTANTS
  Cores = {c1, c2}
  Programs <- LibrariesOrFiles
  Libs = {math, graphics, audio}
  InitEntries = 2
  MaxEntries = 3
  Fds = {1, 3, 4, 5}
  VMFds = {1, 3}
  Modes = {1, 3}
  FileLen = 1
  Faults = {"OPEN", "REALLOC"}
  None = None
INVARIANTS
  ServicesTypeOK
  TableAgreesWithHost
  GivenHandlesReachFiles
PROPERTIES
  LibrarySpec
CHECK_DEADLOCK FALSE
