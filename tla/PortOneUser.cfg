\* One careful user.
SPECIFICATION Spec
CONSTANTS
  Browsers = {"pc"}
  Pages = {"opt", "e1"}
  Boards = {0, 1}
  Ports = {0, 1}
  Settings = {0, 1, 2}
  Type <- Chassis
  Factory <- Shipped
  Careful = TRUE
  MaxWrites = 2
INVARIANTS
  TypeOK
PROPERTIES
  WriteKeepsNeighbours
  WriteReachesChosenDevice
