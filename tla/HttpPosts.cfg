\* Two connections and three POSTs, replies sent at once or not at all.
SPECIFICATION Spec
CONSTANTS
  c1 = c1
  c2 = c2
  Conns <- TwoConns
  Sizes <- ShortAndLong
  Capacity = 2
  MaxOpen = 1
  MaxRetries = 2
  Pool = 1
  MaxChunks = 1
  MaxPosts = 3
SYMMETRY ConnSymmetry
INVARIANTS
  TypeOK
  DamageAccounted
  ParametersGivenOnce
