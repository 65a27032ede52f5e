\* A public network and both modems.
SPECIFICATION DriverSpec
CONSTANTS
  payload = payload
  frame = frame
  Garbled = Garbled
  NoFrame = NoFrame
  TxFrames <- MCTxFrames
  RxFrames <- MCRxFrames
  Ops = {"SetPublicNetwork", "SetTxConfig", "Send"}
  MaxPending = 1
INVARIANTS
  SyncWordTracksNetwork
