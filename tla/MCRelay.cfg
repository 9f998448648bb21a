CONSTANTS
  s = s
  Conn = {c1, c2, c3}
  SessionID = {s}
  IdOf <- MCIdOf
  NoConn = NoConn
  MaxData = 1
SPECIFICATION FairSpec
INVARIANTS PairsAreExclusive  CutOffByTimer
PROPERTIES SessionsAreFreed DataIsRelayed
CHECK_DEADLOCK FALSE
