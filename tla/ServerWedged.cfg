SPECIFICATION FairSpec
CONSTANTS
  None = None
  Bearers = {b1}
  Ids = {1}
  Frames <- TwoChunks
  BadTargets <- NoTargets
  FrameDepth = 1
  OutDepth = 1
  MaxBuffer = 0
  MaxStreams = 0
  MaxAttempts = 2
  Responses = 0
  Failures = 0
  Cancels = 0
CHECK_DEADLOCK FALSE
PROPERTY
  RouteLoopReturns
