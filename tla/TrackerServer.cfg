SPECIFICATION Spec
CONSTANTS
  Conns = {c1, c2}
  Requests = {r1}
  Imeis = {i1, i2}
  NoConn = NoConn
  NoReq = NoReq
  NoImei = NoImei
INVARIANTS
  TCPTypeOK
  NoStaleRegistration
  SoleConnectionIsListed
  TwoRivalsNeverBothServed
  CommandReachesItsTracker
  ReplyComesFromItsTracker
  HeldUpByItsOwnCommand
PROPERTIES
  OnlyRivalsEvict
  LeavingGoroutineEnds
  CommandIsAnswered
CHECK_DEADLOCK FALSE
