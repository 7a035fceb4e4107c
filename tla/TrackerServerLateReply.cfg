SPECIFICATION Spec
CONSTANTS
  Conns = {c1}
  Requests = {r1, r2}
  Imeis = {i1}
  NoConn = NoConn
  NoReq = NoReq
  NoImei = NoImei
INVARIANTS
  ReplyAnswersTheCommand
CHECK_DEADLOCK FALSE
