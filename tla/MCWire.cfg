SPECIFICATION Spec
CONSTANTS
  NumClients = 2
  Header = 1
  max_frame <- MCMaxFrame
  MaxRequestCache = 2
  Script <- MCScript
  ResponseSizes <- MCResponseSizes
  SocketBuffer = 2
  MaxFaults = 1
INVARIANTS
  AnswersAnswer
  RetriesAgree
  IntentsAccountedFor
  NeverStuck
PROPERTIES
  ImplementsFifo
CHECK_DEADLOCK FALSE
