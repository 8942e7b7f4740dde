SPECIFICATION FairSpec
CONSTANTS
  None = None
  Byte = 16
  Word = 16
  Xored <- XorOfBits
  IPv4Len = 1
  IPv6Len = 2
  ChunkSize = 2
  Magic = 13
  Colon = 14
  Bracket = 15
  Scripts <- SomeScripts
  Answers <- SomeAnswers
CHECK_DEADLOCK FALSE
INVARIANTS
  TypeOK
  Transparent
  RightAnswer
PROPERTY
  DialEnds
