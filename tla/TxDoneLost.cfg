\* Receiving before sending: the client waits for a TxDone that never comes.
SPECIFICATION Spec
CONSTANTS
  uplink = uplink
  testByte = testByte
  downlink = downlink
  garbled = garbled
  none = none
  TxFrames <- MCTxFrames
  RxFrames <- MCRxFrames
  Garbled <- garbled
  NoFrame <- none
  TestFrame <- testByte
  FrameLen <- MCFrameLen
  BufferLens = {1}
  PromptClient = TRUE
  MaxRxEvents = 1
  Ops = {"send", "rx"}
  MaxPending = 2
INVARIANTS
  TxDoneNotLost
