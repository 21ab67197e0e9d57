SPECIFICATION Spec
CONSTANTS
  NumServices = 1
  NumTargets = 2
  Scope <- MCScope
  Host <- MCHost
  DeviceRank <- MCDeviceRank
  Stateful = {}
  NeedsTransfer = {}
  NeedsOperator = {}
  Policies <- MCPolicies
  InitialPolicy <- MCInitialPolicy
  RotationDue = {TRUE, FALSE}
  Ambiguities = {FALSE}
  Incarnations <- MCOneIncarnation
  Retirable = {}
  Coverages <- MCCoverages
  EffectKinds = {}
  MaxHistory = 2
  MaxCandidates = 4
  MaxRetained = 1
  CallerIds = {}
  MaxTopology = 0
  MaxCapability = 1
  MaxEvidence = 2
  MaxFence = 3
  MaxEpoch = 2
INVARIANTS
  Reopenable
CHECK_DEADLOCK FALSE
