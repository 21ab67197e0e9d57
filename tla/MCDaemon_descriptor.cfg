SPECIFICATION SpecClientsLeave
CONSTANTS
  Worker = {w1, w2}
  NumConns = 3
  NumDescriptors = 3
  max_connections = 1
  CloseWakes = FALSE
  Frames = {"Hello", "Shutdown"}
  MaxFrames = 3
INVARIANT OwnDescriptorsOnly
CHECK_DEADLOCK FALSE
