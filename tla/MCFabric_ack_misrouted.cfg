SPECIFICATION Spec
CONSTANTS
  NumServices = 2
  NumTargets = 1
  Scope <- MCScope
  Host <- MCHost
  DeviceRank <- MCDeviceRank
  Stateful = {}
  NeedsTransfer = {}
  NeedsOperator = {}
  Policies <- MCPolicies
  InitialPolicy <- MCInitialPolicy
  RotationDue = {FALSE}
  Ambiguities = {FALSE}
  Incarnations <- MCOneIncarnation
  Retirable = {}
  Coverages <- MCCoverages
  EffectKinds = {}
  MaxHistory = 2
  MaxCandidates = 4
  MaxRetained = 4
  CallerIds = {}
  MaxTopology = 0
  MaxCapability = 2
  MaxEvidence = 0
  MaxFence = 1
  MaxEpoch = 2
INVARIANTS
  AcksReachTheirService
CHECK_DEADLOCK FALSE
