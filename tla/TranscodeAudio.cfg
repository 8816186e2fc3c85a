SPECIFICATION TranscodeSpec
CONSTANTS
  MaxPackets = 4
  Delay = 0
  Subframes = 2
  Frame = {1, 2, 3, 4}
  KeptBack = 1
  FixedSize = TRUE
INVARIANTS
  StallNeedsTwoFailures
PROPERTIES
  StallIsForever
