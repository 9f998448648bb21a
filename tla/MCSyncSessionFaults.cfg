CONSTANTS
  c1 = c1
  c2 = c2
  Name = {"a", "d", "f"}
  Path <- MCPath
  Chunk = {c1, c2}
  Order <- MCOrder
  FileNodes <- MCFiles
  InitTrees <- FewTrees
  LocalHidden = FALSE
  RemoteHidden = FALSE
  BatchSize = 1
  MaxEdits = 1
  MaxFaults = 1
  NoPath = NoPath
SPECIFICATION RetrySpec
INVARIANTS LocalBacked ManifestServed SyncMirrors 
PROPERTIES NewFilesSurvive  
