SPECIFICATION Spec
CONSTANTS
  None = None
  Bearers = {b1, b2}
  Ids = {1, 2}
  Frames <- TwoStreams
  BadTargets <- NoTargets
  FrameDepth = 1
  OutDepth = 1
  MaxBuffer = 1
  MaxStreams = 1
  MaxAttempts = 2
  Responses = 1
  Failures = 1
  Cancels = 0
CHECK_DEADLOCK FALSE
INVARIANTS
  TypeOK
  CountExact
  OpenIsRegistered
  WithinLimit
  ChunksOnce
PROPERTY
  RepliesSticky
SYMMETRY AnyBearer
