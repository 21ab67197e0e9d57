SPECIFICATION Spec
CONSTANTS
  NumClients = 1
  Header = 1
  max_frame <- MCMaxFrame
  MaxRequestCache = 1
  Script <- StuckScript
  ResponseSizes <- MCResponseSizes
  SocketBuffer = 1
  MaxFaults = 0
INVARIANT NeverStuckAfterFailure
CHECK_DEADLOCK FALSE
