SPECIFICATION WriterSpec
CONSTANTS
  MaxBufferSize = 2
  RateBound = 4
  ClockMayStepBack = TRUE
  MaxPackets = 5
  MaxTime = 2
PROPERTIES
  ImplementsPacketStore
  FinishedFilesStay
