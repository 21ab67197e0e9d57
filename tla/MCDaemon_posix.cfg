SPECIFICATION SpecClientsLeave
CONSTANTS
  Worker = {w1, w2}
  NumConns = 2
  NumDescriptors = 3
  max_connections = 1
  CloseWakes = FALSE
  Frames = {"Hello", "Shutdown"}
  MaxFrames = 2
PROPERTY ShutdownCompletes
CHECK_DEADLOCK FALSE
