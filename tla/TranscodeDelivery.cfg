SPECIFICATION TranscodeSpec
CONSTANTS
  MaxPackets = 4
  Delay = 1
  Subframes = 1
  Frame = {1, 2, 3, 4}
  KeptBack = 1
  FixedSize = FALSE
INVARIANTS
  EncodedIsDelivered
