SPECIFICATION StreamsSpec
CONSTANTS
  Cap = 2
  MaxMsgs <- Msgs
  Buf = 2
  Gap = 1
  MaxSend <- Sends
  MaxUnits = 2
  PipeRoom = 1
  SendRoom = 1
INVARIANTS Authentic InOrder BridgeFaithful UnetOrderly
PROPERTIES SessionsFinish BridgeDrains UnetEnds
CHECK_DEADLOCK FALSE
