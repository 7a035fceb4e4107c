SPECIFICATION TCPSpec
CONSTANTS
  Conns = {c1, c2}
  Requests = {}
  Imeis = {i1}
  NoConn = NoConn
  NoReq = NoReq
  NoImei = NoImei
INVARIANTS
  ServedTrackerIsListed
CHECK_DEADLOCK FALSE
