\* One caller (lwIP's thread); four requests, so that late answers of two
\* timed-out requests can meet two more.
SPECIFICATION FairSpec
CONSTANTS
  tcpip = tcpip
  other = other
  Callers <- OneCaller
  MaxReq = 4
INVARIANTS
  CleanWriteOwnsStatus
  StaleBounded
PROPERTIES
  LockReleased
\* the number of requests is bounded
CHECK_DEADLOCK FALSE
