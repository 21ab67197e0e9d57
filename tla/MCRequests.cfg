SPECIFICATION Spec
CONSTANTS
  NumKeys = 3
  MaxRequestCache = 2
  AckKeys = {3}
  Restarts = {"Reopen", "Crash"}
  MaxDecisions = 5
  MaxRestarts = 2
INVARIANTS
  RequestsTypeOK
  RegistrySettled
  RecommitNeedsEviction
  DecisionsRepeat
CHECK_DEADLOCK FALSE
