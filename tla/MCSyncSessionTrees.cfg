CONSTANTS
  c1 = c1
  c2 = c2
  Name = {"a", "d", "f"}
  Path <- MCPath
  Chunk = {c1, c2}
  Order <- MCOrder
  FileNodes <- MCFiles
  InitTrees <- AllTrees
  LocalHidden = FALSE
  RemoteHidden = FALSE
  BatchSize = 1
  MaxEdits = 0
  MaxFaults = 0
  NoPath = NoPath
SPECIFICATION Spec
INVARIANTS SyncMirrors
