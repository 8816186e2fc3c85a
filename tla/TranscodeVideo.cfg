SPECIFICATION TranscodeFairSpec
CONSTANTS
  MaxPackets = 5
  Delay = 2
  Subframes = 1
  Frame = {1, 2, 3, 4, 5}
  KeptBack = 1
  FixedSize = FALSE
INVARIANTS
  TranscodeTypeOK
  VideoNeverStalls
  EncoderAlwaysTakes
  RemuxStopsAtFirstFrame
PROPERTIES
  CallsReturn
