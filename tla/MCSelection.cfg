SPECIFICATION Spec
CONSTANTS
  NumServices = 1
  NumTargets = 4
  Scope <- MCScope
  Host <- MCHost
  DeviceRank <- MCDeviceRank
  Stateful = {}
  NeedsTransfer = {}
  NeedsOperator = {}
INVARIANTS
  WinnerIsFirstScanned
PROPERTIES
  WideningKeepsWinner
CHECK_DEADLOCK FALSE
