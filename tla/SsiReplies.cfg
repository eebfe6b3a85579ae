SPECIFICATION FairSpec
CONSTANTS
  Pages <- FourPages
  HdrLens <- Headers
  InsertLen <- Inserts
  EchoLen = 2
  MaxTagName = 2
  SndBuf = 5
  Mss = 2
  MaxVersions = 2
  MaxShort = 2
INVARIANTS
  TypeOK
  SentIsReply
PROPERTY ReplyEnds
CHECK_DEADLOCK FALSE
