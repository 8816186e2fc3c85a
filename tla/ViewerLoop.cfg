SPECIFICATION ViewerFairSpec
CONSTANTS
  MaxBufferSize = 1
  RateBound = 2
  ClockMayStepBack = FALSE
  MaxPackets = 3
  MaxTime = 1
  MaxTries = 2
  Layouts <- MCCamera
INVARIANTS
  ViewerTypeOK
  PictureIsNewest
  StagesInOrder
  ShownPictureStays
  FailedWriterRecordsNothing
  CloseKeepsRecording
PROPERTIES
  CloseEnds
  DrivesWriter
