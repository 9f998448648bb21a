CONSTANTS
  Servers = 2
  Layouts <- MCLayouts
  Cookie = 5
  XorPort <- MCXorPort
  MaxSockets = 2
  Period = 2
  Looker = {l}
  NoEntry = NoEntry
  MaxTime = 9
SPECIFICATION Spec
INVARIANTS VerdictIsRight FoundIsRecent FoundIsGenuine
CHECK_DEADLOCK FALSE
