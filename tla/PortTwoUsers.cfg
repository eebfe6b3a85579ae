\* Two users who do not wait for anything.
SPECIFICATION Spec
CONSTANTS
  Browsers = {pc, laptop}
  Pages = {"opt", "e1"}
  Boards = {0, 1}
  Ports = {0, 1}
  Settings = {0, 1}
  Type <- Chassis
  Factory <- Shipped01
  Careful = FALSE
  MaxWrites = 2
INVARIANTS
  CacheIsDevice
PROPERTIES
  ShownWriteKeepsNeighbours
SYMMETRY Alike
