SPECIFICATION FairSpec
CONSTANTS
  None = None
  Senders = {p1, p2}
  MaxConns = 3
  MaxSends = 3
CHECK_DEADLOCK FALSE
INVARIANTS
  TypeOK
  FramesWhole
  NoneLeaks
PROPERTIES
  Reconnects
  SendersReturn
  StopSettles
