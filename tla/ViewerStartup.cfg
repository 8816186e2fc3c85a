SPECIFICATION ViewerSpec
CONSTANTS
  MaxBufferSize = 1
  RateBound = 1
  ClockMayStepBack = FALSE
  MaxPackets = 1
  MaxTime = 0
  MaxTries = 3
  Layouts <- MCCameras
INVARIANTS
  SelectionIsFirst
  DecodeErrorMeansMissing
  NeedsBothDecoders
