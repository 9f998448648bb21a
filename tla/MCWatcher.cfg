CONSTANTS
  f = f
  g = g
  root = root
  sub = sub
  File = {f, g}
  Dir = {root, sub}
  Root = root
  DirOf <- MCDirOf
  Writes <- MCWrites
  ChunkSize = 2
  NoFile = NoFile
  NoRow = NoRow
  NoTx = NoTx
  MaxTime = 2
  MaxSteps = 4
SPECIFICATION Spec
INVARIANTS TablesFitTogether InStepAtRest
PROPERTIES ComesToRest
CHECK_DEADLOCK FALSE
