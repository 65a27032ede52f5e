\* Every call of the SX127x drivers in any order.
SPECIFICATION DriverSpec
CONSTANTS
  payload = payload
  frame = frame
  Garbled = Garbled
  NoFrame = NoFrame
  TxFrames <- MCTxFrames
  RxFrames <- MCRxFrames
  Wired = {"DIO0", "DIO1", "DIO3"}
  Chips = {"SX1276", "SX1272"}
  Ops = {"Sleep", "Standby", "Rx", "StartCad", "SetTxContinuousWave", "Random", "SetPublicNetwork", "SetModem", "SetMaxPayloadLength", "SetTxConfig", "SetRxConfig", "IsChannelFree", "Send", "Restart", "Reinit"}
  MaxPending = 1
INVARIANTS
  DriverTypeOK
  ModemTracksChip
  SignalsItsEnd
  FifoWrittenAwake
