\* Two connections with four requests: boards pages and what comes between,
\* a switch of the device, forms and a restart.
SPECIFICATION Spec
CONSTANTS
  c1 = c1
  c2 = c2
  a1 = a1
  a2 = a2
  n1 = n1
  n2 = n2
  bad = bad
  Conns <- TwoConns
  Boards = {0, 1, 2}
  Type <- Chassis
  Accounts <- TwoAccounts
  Nets <- AllNets
  ValidNets <- TwoNets
  MaxRequests = 4
SYMMETRY Alike
INVARIANTS
  TypeOK
  RowsAreOneReading
  StatusTellsEffect
\* the number of requests is bounded
CHECK_DEADLOCK FALSE
