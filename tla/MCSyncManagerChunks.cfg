CONSTANTS
  a = a
  d = d
  f = f
  c1 = c1
  c2 = c2
  Name = {a, d, f}
  Path <- MCPath
  Chunk = {c1, c2}
  Trees <- MCTrees
  Stores = {{}, {c1}}
  Later <- MCLater
  BatchSize = 2
  MaxUpdates = 1
  MaxSyncs = 2
SPECIFICATION Spec
INVARIANT ModifiedListsFetched
CHECK_DEADLOCK FALSE
