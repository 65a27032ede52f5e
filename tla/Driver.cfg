\* Every call of Radio_t in any order.
SPECIFICATION DriverSpec
CONSTANTS
  payload = payload
  frame = frame
  Garbled = Garbled
  NoFrame = NoFrame
  TxFrames <- MCTxFrames
  RxFrames <- MCRxFrames
  Ops = {"SetChannel", "Sleep", "Standby", "Rx", "SetRxDutyCycle", "StartCad", "SetTxContinuousWave", "Random", "SetMaxPayloadLength", "SetTxConfig", "SetRxConfig", "IsChannelFree", "Send", "SetPublicNetwork", "SetModem", "Restart"}
  MaxPending = 1
INVARIANTS
  DriverTypeOK
  NeverStuck
  EdgeNotLost
  PacketTypeTracksChip
