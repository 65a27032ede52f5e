\* Every order of configurations, tunings, receptions and restarts.
SPECIFICATION Spec
CONSTANTS
  Chips = {"SX1276", "SX1272"}
  Channels = {433000000, 868000000}
  Configs <- MCConfigs
  PktLens = {5, 64, 255}
  MaxChannel = 868010000
  RxAnyTime = FALSE
  Absurd = Absurd
INVARIANTS
  ConfigTypeOK
  SignalConsistent
  SpursAvoided
  ChannelKept
  AirTimeExact
