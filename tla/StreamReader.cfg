SPECIFICATION StreamSpec
CONSTANTS
  Greetings = {"imei", "blank", "oversized"}
  Conversations <- ShortConversations
  ImeiSize = 2
  HeaderSize = 2
  RestSize = 3
INVARIANTS
  StreamTypeOK
  ReaderIsAligned
  FramesAreTheStreams
  OnlyBadFramesAreRefused
  
PROPERTIES
  StreamDeliverySpec
  WhatArrivedIsRead
CHECK_DEADLOCK FALSE
