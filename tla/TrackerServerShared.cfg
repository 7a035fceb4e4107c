SPECIFICATION Spec
CONSTANTS
  Conns = {c1, c2}
  Requests = {r1, r2}
  Imeis = {i1}
  NoConn = NoConn
  NoReq = NoReq
  NoImei = NoImei
SYMMETRY Symmetry
INVARIANTS
  HTTPTypeOK
  SlotIsItsHolders
  ListedChannelIsOpen
  NoWaitingReplyIsStolen
PROPERTIES
  SlotSpec
CHECK_DEADLOCK FALSE
