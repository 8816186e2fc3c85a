SPECIFICATION WriterFairSpec
CONSTANTS
  MaxBufferSize = 2
  RateBound = 1
  ClockMayStepBack = FALSE
  MaxPackets = 5
  MaxTime = 5
INVARIANTS
  WriterTypeOK
  EachPacketOnce
  ReadOrder
  WholeChunks
  TruncationNeedsBurst
  DeathHasCause
PROPERTIES
  OpenFailureIsFatal
  ImplementsPacketStore
