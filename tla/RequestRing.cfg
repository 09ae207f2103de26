SPECIFICATION Spec
CONSTANTS
  Values = {r1, r2, r3}
  QueueLen = 3
  RingLengths <- EnoughNodes
  Uninit = uninit
INVARIANTS
  TypeOK
  TailClosesData
  DataInitialised
PROPERTIES
  FifoSpec
