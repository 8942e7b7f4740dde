SPECIFICATION Spec
CONSTANTS
  None = None
  Bearers = {b1}
  Ids = {1}
  Frames <- Restarted
  BadTargets <- NoTargets
  FrameDepth = 2
  OutDepth = 2
  MaxBuffer = 0
  MaxStreams = 0
  MaxAttempts = 2
  Responses = 0
  Failures = 0
  Cancels = 0
CHECK_DEADLOCK FALSE
INVARIANT
  ActiveCountExact
