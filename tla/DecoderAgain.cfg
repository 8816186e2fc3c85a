SPECIFICATION ClientSpec
CONSTANTS
  MaxPackets = 4
  Delay = 1
  Subframes = 1
INVARIANTS
  SendAgainMeansReceive
