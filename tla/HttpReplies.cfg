\* Two connections, one POST, requests in several segments, replies in several
\* portions, and the polls of the deployed server.
SPECIFICATION FairSpec
CONSTANTS
  c1 = c1
  c2 = c2
  Conns <- TwoConns
  Sizes <- ShortAndLong
  Capacity = 2
  MaxOpen = 1
  MaxRetries = 4
  Pool = 2
  MaxChunks = 2
  MaxPosts = 1
INVARIANTS
  FilesAccounted
  PbufsReturned
PROPERTIES
  ConnectionsEnd
