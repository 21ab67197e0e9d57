SPECIFICATION Spec
CONSTANTS
  Waiter = {w1, w2}
  Capacity = 2
  MaxIntents = 4
  MaxOpens = 2
PROPERTY CloseReleasesWaiters
CHECK_DEADLOCK FALSE
