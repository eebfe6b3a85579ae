SPECIFICATION Spec
CONSTANTS
  Size <- TwoFiles
  LastLen <- TwoLengths
  Ports = {1, 2}
  MaxPcbs = 3
  MaxTries = 2
  MaxFlight = 2
INVARIANTS
  TypeOK
  NewestInOrder
  BelievedIsInFlash
  UndisturbedIsInFlash
  ResourcesAccounted
CHECK_DEADLOCK FALSE
