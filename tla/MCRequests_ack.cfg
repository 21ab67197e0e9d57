SPECIFICATION Spec
CONSTANTS
  NumKeys = 2
  MaxRequestCache = 2
  AckKeys = {1}
  Restarts = {}
  MaxDecisions = 3
  MaxRestarts = 0
INVARIANT AcknowledgementsKeepDecisions
CHECK_DEADLOCK FALSE
