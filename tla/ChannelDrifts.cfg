\* Listening before the first configuration, as longfi_init and longfi_rx do.
SPECIFICATION Spec
CONSTANTS
  Chips = {"SX1276", "SX1272"}
  Channels = {433000000, 868000000}
  Configs <- MCConfigs
  PktLens = {12, 64, 255}
  MaxChannel = 868010000
  RxAnyTime = TRUE
  Absurd = Absurd
INVARIANTS
  ChannelKept
