SPECIFICATION Spec
CONSTANTS
  NumServices = 1
  NumTargets = 4
  Scope <- MCScope
  Host <- MCHost
  DeviceRank <- MCDeviceRank
  Stateful = {}
  NeedsTransfer = {}
  NeedsOperator = {}
INVARIANTS
  TruncationNeutral
CHECK_DEADLOCK FALSE
