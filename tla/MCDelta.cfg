CONSTANTS
  MaxBlockSize = 2
  RollingHashMod = 2
  BlockSize = 2
  MaxLen = 5
  File <- MCFile
SPECIFICATION Spec
INVARIANTS AppliedIsNew  UnchangedIsCopied
CHECK_DEADLOCK FALSE
