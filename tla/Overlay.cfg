SPECIFICATION Spec
CONSTANTS
  None = None
  Ids = {s1}
  Chunks = 2
  Responses = 2
  Units = 2
  QueueDepth = 2
  InboundDepth = 1
  Bearers = {b1, b2}
  FrameDepth = 4
  OutDepth = 1
  MaxBuffer = 0
SYMMETRY BearerSymmetry
CHECK_DEADLOCK FALSE
INVARIANTS
  AnswersInOrder
  Settled
PROPERTY
  RequestPipe
