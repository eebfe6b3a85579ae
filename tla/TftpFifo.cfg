SPECIFICATION Spec
CONSTANTS
  Size <- TooLargeThenFits
  LastLen = "short"
  ZeroBlocks = {2}
  Hosts = {"server", "other"}
  MaxPages = 3
  MaxTries = 2
  MaxFlight = 2
  Writes = {"all", "part", "nothing"}
  Reordering = FALSE
  Lingering = FALSE
INVARIANTS
  FlashFitsItsArea
  FlashIsRequestedFile
  AckedBlocksAreInFlash
PROPERTIES
  ServiceSpec
CHECK_DEADLOCK FALSE
