SPECIFICATION Spec
CONSTANTS
  NumServices = 1
  NumTargets = 2
  Scope <- MCScope
  Host <- MCHost
  DeviceRank <- MCDeviceRank
  Stateful = {}
  NeedsTransfer = {}
  NeedsOperator = {}
  Policies <- MCFailbackPolicies
  InitialPolicy <- MCFailbackPolicy
  RotationDue = {FALSE}
  Ambiguities = {FALSE}
  Incarnations <- MCTwoIncarnations
  Retirable = {}
  Coverages <- MCCoverages
  EffectKinds = {}
  MaxHistory = 2
  MaxCandidates = 4
  MaxRetained = 4
  CallerIds = {}
  MaxTopology = 0
  MaxCapability = 2
  MaxEvidence = 0
  MaxFence = 4
  MaxEpoch = 1
INVARIANTS
  HolderAuthorized
CHECK_DEADLOCK FALSE
