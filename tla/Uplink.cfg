\* An uplink-only device: it sends, runs the RF test and initialises again.
SPECIFICATION LiveSpec
CONSTANTS
  uplink = uplink
  testByte = testByte
  downlink = downlink
  garbled = garbled
  none = none
  TxFrames <- MCTxFrames
  RxFrames <- MCRxFrames
  Garbled <- garbled
  NoFrame <- none
  TestFrame <- testByte
  FrameLen <- MCFrameLen
  BufferLens = {1}
  PromptClient = TRUE
  MaxRxEvents = 1
  Ops = {"send", "rf_test", "Reinit"}
  MaxPending = 2
INVARIANTS
  DozesUntilCalled
  TxDoneNotLost
PROPERTIES
  PacketProgresses
  ServiceLive
