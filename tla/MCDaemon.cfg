SPECIFICATION SpecClientsLeave
CONSTANTS
  Worker = {w1, w2}
  NumConns = 3
  NumDescriptors = 3
  max_connections = 1
  CloseWakes = TRUE
  Frames = {"Hello", "Cancel", "Request", "Shutdown", "Malformed"}
  MaxFrames = 3
INVARIANTS
  QueuedHaveTakers
  RegistryNeverDangles
  OwnDescriptorsOnly
  CleanExit
CHECK_DEADLOCK FALSE
PROPERTIES
  ShutdownCompletes
