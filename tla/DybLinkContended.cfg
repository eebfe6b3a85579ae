\* Two calling tasks and three requests: contention for ll_access_mtx, a late
\* answer and a request that follows it.
SPECIFICATION Spec
CONSTANTS
  tcpip = tcpip
  other = other
  Callers <- TwoCallers
  MaxReq = 3
INVARIANTS
  TypeOK
  OneExchange
  CleanReadOwnsAnswer
PROPERTIES
  ServiceSpec
CHECK_DEADLOCK FALSE
