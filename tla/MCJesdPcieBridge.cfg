SPECIFICATION FairSpec
CONSTANTS
  CountSize = 16
  RxDepth = 6
  StrayLast = FALSE
  TxDepth = 4
  NumWords = {2, 4, 6, 8}
  Packets = {1, 2, 4}
  Patient = TRUE
INVARIANTS
  TypeOK
  PacketIsExact
  CaptureIsWhole
  PlaybackIsWhole
PROPERTIES
  RunReturns
