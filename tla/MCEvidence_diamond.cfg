SPECIFICATION Spec
CONSTANTS
  NumServices = 4
  Specs <- MCDiamond
  Source = {"q1"}
  Observed <- MCDiamondObserved
  Healths = {"Healthy"}
  FailureReports = {}
  RotationDue = {TRUE}
  MaxDepth = 4
  MaxPerService = 4
  MaxSequence = 3
  MaxTopology = 0
  MaxEpoch = 1
INVARIANTS
  CyclesAreReal
CHECK_DEADLOCK FALSE
