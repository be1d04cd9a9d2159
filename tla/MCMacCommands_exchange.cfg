SPECIFICATION FairSpec
CONSTANTS
  BlockSize = 4
  HistorySize = 2
  InstallationMargin = 20
  Scenarios <- MCScenarios
  RegionMaxTx = 2
  MaxErrors = 1
  MaxChannels = 3
  RelayMax = 3
INVARIANTS MasksAreKnown NeverAsksRefused ReceiveParamsAgree RelayKnows
PROPERTIES Settles
