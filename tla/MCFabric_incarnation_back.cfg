SPECIFICATION Spec
CONSTANTS
  NumServices = 1
  NumTargets = 2
  Scope <- MCScope
  Host <- MCHost
  DeviceRank <- MCDeviceRank
  Stateful = {}
  NeedsTransfer = {}
  NeedsOperator = {}
  Policies <- MCLongPolicies
  InitialPolicy <- MCLongPolicy
  RotationDue = {FALSE}
  Ambiguities = {FALSE}
  Incarnations <- MCThreeIncarnations
  Retirable = {1}
  Coverages <- MCCoverages
  EffectKinds = {}
  MaxHistory = 1
  MaxCandidates = 4
  MaxRetained = 4
  CallerIds = {}
  MaxTopology = 0
  MaxCapability = 2
  MaxEvidence = 0
  MaxFence = 5
  MaxEpoch = 1
CHECK_DEADLOCK FALSE
INVARIANTS
  SupersededHoldersExcluded
