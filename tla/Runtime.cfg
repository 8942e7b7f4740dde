SPECIFICATION FairSpec
CONSTANTS
  None = None
  Garbage = Garbage
  Configs <- SomeConfigs
  Default <- Long
  Handlers = {h1, h2}
  MaxStarts = 2
  MaxCalls = 3
CHECK_DEADLOCK FALSE
INVARIANTS
  TypeOK
  DeadIsReported
  SavesKept
PROPERTY
  StoppedEnds
