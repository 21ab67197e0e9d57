SPECIFICATION Spec
CONSTANTS
  NumServices = 3
  Specs <- MCUndeclared
  Source = {"q1"}
  Observed <- MCUndeclaredObserved
  Healths = {"Healthy"}
  FailureReports = {}
  RotationDue = {TRUE, FALSE}
  MaxDepth = 1
  MaxPerService = 1
  MaxSequence = 2
  MaxTopology = 0
  MaxEpoch = 1
INVARIANTS
  SnapshotsDecodable
CHECK_DEADLOCK FALSE
