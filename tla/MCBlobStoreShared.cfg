\* Two goroutines of one process, with deletions, write errors and crashes.
CONSTANTS
  p1 = p1
  p2 = p2
  t1 = t1
  t2 = t2
  t3 = t3
  Process = {p1}
  Thread = {t1, t2}
  ProcessOf <- OneProcess
  Hash = {h1, h2}
  Blocks = 2
  Client = {t1, t2}
  Deleter = {t1}
  Walker = {}
  MaxRot = 0
  NoFile = NoFile
  NoThread = NoThread
SPECIFICATION FairSpec
INVARIANTS StoredWhole
PROPERTIES PutReturns ImplementsChunkSet
