SPECIFICATION Spec
CONSTANTS
  NumServices = 2
  NumTargets = 1
  Scope <- MCScope
  Host <- MCHost
  DeviceRank <- MCDeviceRank
  Stateful = {}
  NeedsTransfer = {}
  NeedsOperator = {}
  Policies <- MCPolicies
  InitialPolicy <- MCInitialPolicy
  RotationDue = {FALSE}
  Ambiguities = {TRUE}
  Incarnations <- MCOneIncarnation
  Retirable = {}
  Coverages <- MCCoverages
  EffectKinds = {}
  MaxHistory = 2
  MaxCandidates = 4
  MaxRetained = 4
  CallerIds = {}
  MaxTopology = 0
  MaxCapability = 1
  MaxEvidence = 1
  MaxFence = 1
  MaxEpoch = 2
INVARIANTS
  AmbiguityAlwaysResolvable
CHECK_DEADLOCK FALSE
