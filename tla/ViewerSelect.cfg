SPECIFICATION ViewerSpec
CONSTANTS
  MaxBufferSize = 1
  RateBound = 1
  ClockMayStepBack = FALSE
  MaxPackets = 1
  MaxTime = 0
  MaxTries = 1
  Layouts <- MCCameras
INVARIANTS
  FindsFirstVideoAndAudio
