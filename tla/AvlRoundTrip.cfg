SPECIFICATION RoundTripSpec
CONSTANTS
  Transports = {"tcp", "udp"}
  Lengths = {2, 3, 20, 48, 90, 1281}
  Counts = {0, 1, 2}
  Sizes = {0, 1, 2, 4, 8, 13}
  Ids = {1}
  Imeis <- SomeImeis
  Word = 65536
  Packets <- SomePackets
  ImeiLength = 15
INVARIANTS
  ElementsFit
  AcceptedIsWhole
  MessageSizesAddUp
  FieldsLineUp
  SizeIsWhatIsWritten
  RoundTrip
CHECK_DEADLOCK FALSE
