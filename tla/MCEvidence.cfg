SPECIFICATION Spec
CONSTANTS
  NumServices = 3
  Specs <- MCChain
  Source = {q1, q2}
  Observed <- MCChainObserved
  Healths = {"Healthy", "Degraded"}
  FailureReports = {TRUE}
  RotationDue = {TRUE, FALSE}
  MaxDepth = 2
  MaxPerService = 2
  MaxSequence = 2
  MaxTopology = 1
  MaxEpoch = 2
SYMMETRY MCSymmetry
INVARIANTS
  AppliedOnce
  NewestObservationKept
  QualificationSound
CHECK_DEADLOCK FALSE
