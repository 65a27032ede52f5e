\* An SX1276 client that sends before it dispatches what it received.
SPECIFICATION Spec
CONSTANTS
  uplink = uplink
  testByte = testByte
  downlink = downlink
  garbled = garbled
  none = none
  TxFrames <- MCTxFrames
  RxFrames <- MCRxFrames
  Garbled <- garbled
  NoFrame <- none
  TestFrame <- testByte
  FrameLen <- MCFrameLen
  BufferLens = {1}
  PromptClient = TRUE
  MaxRxEvents = 1
  Wired = {"DIO0"}
  Chips = {"SX1276"}
  Ops = {"send", "rx"}
  MaxPending = 1
  Polite = FALSE
INVARIANTS
  TxDoneEarned
