SPECIFICATION UDPSpec
CONSTANTS
  data = data
  empty = empty
  command = command
  malformed = malformed
  short = short
  Frames = {data, empty, command, malformed, short}
  KindOf <- OneOfEach
  Workers = {w1, w2}
  HookIsSet = TRUE
  MaxReceptions <- SomeTwice
  NoFrame = NoFrame
INVARIANTS
  UDPTypeOK
  ReceptionsAreConserved
PROPERTIES
  DeliverySpec
  
CHECK_DEADLOCK FALSE
