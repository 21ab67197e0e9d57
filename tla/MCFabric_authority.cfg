SPECIFICATION Spec
CONSTANTS
  NumServices = 1
  NumTargets = 2
  Scope <- MCScope
  Host <- MCHost
  DeviceRank <- MCDeviceRank
  Stateful = {}
  NeedsTransfer = {}
  NeedsOperator = {}
  Policies <- MCSuccessivePolicies
  InitialPolicy <- MCTightPolicy
  RotationDue = {TRUE, FALSE}
  Ambiguities = {FALSE}
  Incarnations <- MCTwoIncarnations
  Retirable = {2}
  Coverages <- MCCoverages
  EffectKinds = {}
  MaxHistory = 1
  MaxCandidates = 4
  MaxRetained = 4
  CallerIds = {}
  MaxTopology = 1
  MaxCapability = 2
  MaxEvidence = 0
  MaxFence = 3
  MaxEpoch = 2
INVARIANTS
  TypeOK
  Lockstep
  AuthorityDurable
  IntentsFenced
  SupersededIntentsRejected
  SupersededHoldersExcluded
  HolderAuthorizedWithoutFailback
PROPERTIES
  IntentsFreshOrReissued
  ImplementsAuthority
CHECK_DEADLOCK FALSE
