SPECIFICATION Spec
CONSTANTS
  NumServices = 1
  NumTargets = 2
  Scope <- MCScope
  Host <- MCHost
  DeviceRank <- MCDeviceRank
  Stateful = {}
  NeedsTransfer = {}
  NeedsOperator = {}
  Policies <- MCPolicies
  InitialPolicy <- MCInitialPolicy
  RotationDue = {FALSE}
  Ambiguities = {TRUE}
  Incarnations <- MCOneIncarnation
  Retirable = {}
  Coverages <- MCCoverages
  EffectKinds = {}
  MaxHistory = 2
  MaxCandidates = 4
  MaxRetained = 4
  CallerIds = {}
  MaxTopology = 0
  MaxCapability = 1
  MaxEvidence = 1
  MaxFence = 3
  MaxEpoch = 2
PROPERTIES
  AmbiguitySurvivesRestart
CHECK_DEADLOCK FALSE
