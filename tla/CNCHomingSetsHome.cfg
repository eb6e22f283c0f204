SPECIFICATION Spec
CONSTANTS
  NoClient = NoClient
  Clients = {c1}
  Points = {0, 1}
  InRange = {0, 1}
  Paths <- LongPaths
  QueueSize = 2
  MaxTries = 2
  MaxCommands = 3
  MaxControls = 0
  SerialFails = FALSE
CHECK_DEADLOCK FALSE
INVARIANT HomingSetsHome
