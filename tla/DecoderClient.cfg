SPECIFICATION ClientSpec
CONSTANTS
  MaxPackets = 4
  Delay = 1
  Subframes = 2
INVARIANTS
  ReceiveAgainMeansSend
  PacketsWaitInTurn
  EachFrameOnce
