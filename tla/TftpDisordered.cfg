SPECIFICATION FairSpec
CONSTANTS
  Size <- Shrinking
  LastLen = "short"
  ZeroBlocks = {}
  Hosts = {"server"}
  MaxPages = 2
  MaxTries = 2
  MaxFlight = 2
  Writes = {"all"}
  Reordering = TRUE
  Lingering = TRUE
INVARIANTS
  FlashIsOneFile
  RequestNamesFile
  NoLostStart
  ExaminesReceived
PROPERTIES
  UpdateEnds
CHECK_DEADLOCK FALSE
