SPECIFICATION FairSpec
CONSTANTS
  NoClient = NoClient
  Clients = {c1, c2}
  Points = {0, 1}
  InRange = {0}
  Paths = {}
  QueueSize = 1
  MaxTries = 2
  MaxCommands = 2
  MaxControls = 2
  SerialFails = TRUE
CHECK_DEADLOCK FALSE
PROPERTY CallsReturn
