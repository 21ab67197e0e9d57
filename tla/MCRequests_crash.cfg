SPECIFICATION Spec
CONSTANTS
  NumKeys = 2
  MaxRequestCache = 2
  AckKeys = {}
  Restarts = {"Crash"}
  MaxDecisions = 3
  MaxRestarts = 1
INVARIANT KeyCommitsOnce
CHECK_DEADLOCK FALSE
