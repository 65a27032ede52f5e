\* A device that sends, receives and restarts at any moment.
SPECIFICATION Spec
CONSTANTS
  uplink = uplink
  testByte = testByte
  downlink = downlink
  garbled = garbled
  none = none
  TxFrames <- MCTxFrames
  RxFrames <- MCRxFrames
  Garbled <- garbled
  NoFrame <- none
  TestFrame <- testByte
  FrameLen <- MCFrameLen
  BufferLens = {1}
  PromptClient = TRUE
  MaxRxEvents = 1
  Ops = {"send", "rx", "random", "SetRxConfig", "Reinit", "Restart"}
  MaxPending = 2
INVARIANTS
  TypeOK
  EdgeNotLost
  TransmitsThePacket
  AntennaFollowsSleep
  TxDoneUnmasked
  PacketFits
PROPERTIES
  ServiceSafe
