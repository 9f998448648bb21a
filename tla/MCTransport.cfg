CONSTANTS
  a = a
  b = b
  ab = ab
  ba = ba
  Node = {a, b}
  Conn = {ab, ba}
  Dialer <- MCDialer
  Acceptor <- MCAcceptor
  Asking = {b}
  Closing = {a}
  NoConn = NoConn
  MaxRequests = 1
  MaxFaults = 1
SPECIFICATION FairTransportSpec
INVARIANTS EntriesHaveReaders DialerIsKnown
PROPERTIES PeersStayListed CloseEnds LossIsReported 
CHECK_DEADLOCK FALSE
