SPECIFICATION FairSpec
CONSTANTS
  None = None
  Frames <- Chunks
  ChanDepth = 2
  MaxBuffer = 3
INVARIANTS
  TypeOK
  Contiguous
  Bounded
  NothingReadyWaits
PROPERTY
  ImplementsFair
CHECK_DEADLOCK FALSE
