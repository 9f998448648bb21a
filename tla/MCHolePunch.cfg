CONSTANTS
  a = a
  b = b
  Peer = {a, b}
  Other <- MCOther
  SID = {s1, s2}
  NoSID = NoSID
  MaxPunchAttempts = 2
  MaxRetries = 1
SPECIFICATION FairSpec
INVARIANTS PunchedBothWays
PROPERTIES  CallsEnd
CHECK_DEADLOCK FALSE
