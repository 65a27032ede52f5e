\* Receiving again: the packet announced is one whose checksum is wrong.
SPECIFICATION Spec
CONSTANTS
  uplink = uplink
  testByte = testByte
  downlink = downlink
  garbled = garbled
  none = none
  TxFrames <- MCTxFrames
  RxFrames <- MCRxFrames
  Garbled <- garbled
  NoFrame <- none
  TestFrame <- testByte
  FrameLen <- MCFrameLen
  BufferLens = {2}
  PromptClient = TRUE
  MaxRxEvents = 1
  Ops = {"rx"}
  MaxPending = 1
INVARIANTS
  PacketWasReceived
