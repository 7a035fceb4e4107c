SPECIFICATION Spec
CONSTANTS
  Conns = {c1}
  Requests = {r1}
  Imeis = {i1}
  NoConn = NoConn
  NoReq = NoReq
  NoImei = NoImei
INVARIANTS
  ServerStaysUp
CHECK_DEADLOCK FALSE
