SPECIFICATION FairSpec
CONSTANTS
  Streams = {s1}
  Chunks = 2
  Responses = 3
  QueueDepth = 2
  InboundDepth = 2
CHECK_DEADLOCK FALSE
INVARIANTS
  TypeOK
  FinTellsAll
  LiveIsRegistered
PROPERTIES
  StreamEnds
  EndReaches
  StopReturns
