SPECIFICATION FairSpec
CONSTANTS
  None = None
  Bearers = {b1, b2}
  Ids = {1}
  Frames <- OneStream
  BadTargets <- NoTargets
  FrameDepth = 1
  OutDepth = 3
  MaxBuffer = 1
  MaxStreams = 0
  MaxAttempts = 1
  Responses = 1
  Failures = 0
  Cancels = 1
CHECK_DEADLOCK FALSE
INVARIANTS
  UpstreamInOrder
  StoppedClean
PROPERTY
  Settles
