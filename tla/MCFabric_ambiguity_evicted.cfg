SPECIFICATION Spec
CONSTANTS
  NumServices = 1
  NumTargets = 2
  Scope <- MCScope
  Host <- MCHost
  DeviceRank <- MCDeviceRank
  Stateful = {1}
  NeedsTransfer = {1}
  NeedsOperator = {}
  Policies <- MCPolicies
  InitialPolicy <- MCInitialPolicy
  RotationDue = {FALSE}
  Ambiguities = {TRUE, FALSE}
  Incarnations <- MCOneIncarnation
  Retirable = {}
  Coverages <- MCCoverages
  EffectKinds = {"Negative", "ActivationAccepted", "DeactivationAcknowledged", "StateTransferComplete", "ServiceHealthy"}
  MaxHistory = 2
  MaxCandidates = 4
  MaxRetained = 1
  CallerIds = {}
  MaxTopology = 0
  MaxCapability = 1
  MaxEvidence = 2
  MaxFence = 2
  MaxEpoch = 1
INVARIANTS
  AmbiguityAlwaysResolvable
CHECK_DEADLOCK FALSE
