SPECIFICATION Spec
CONSTANTS
  None = None
  Ids = {s1}
  Chunks = 1
  Responses = 1
  Units = 1
  QueueDepth = 1
  InboundDepth = 1
  Bearers = {b1, b2}
  FrameDepth = 3
  OutDepth = 1
  MaxBuffer = 0
CHECK_DEADLOCK FALSE
PROPERTY
  CleanTransfer
