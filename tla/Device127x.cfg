\* A polite client of the SX1276 that sends, receives and restarts.
SPECIFICATION LiveSpec
CONSTANTS
  uplink = uplink
  testByte = testByte
  downlink = downlink
  garbled = garbled
  none = none
  TxFrames <- MCTxFrames
  RxFrames <- MCRxFrames
  Garbled <- garbled
  NoFrame <- none
  TestFrame <- testByte
  FrameLen <- MCFrameLen
  BufferLens = {1, 2}
  PromptClient = TRUE
  MaxRxEvents = 1
  Wired = {"DIO0"}
  Chips = {"SX1276"}
  Ops = {"send", "rf_test", "rx", "random", "SetRxConfig", "Reinit", "Restart"}
  MaxPending = 1
  Polite = TRUE
INVARIANTS
  TypeOK
  TxDoneNotLost
  TransmitsThePacket
  TxDoneEarned
  PacketWasReceived
  PacketFits
PROPERTIES
  PacketProgresses
  ServiceLive
