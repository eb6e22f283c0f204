SPECIFICATION Spec
CONSTANTS
  NoClient = NoClient
  Clients = {c1, c2}
  Points = {0, 1, 2}
  InRange = {0, 1}
  Paths <- SmallPaths
  QueueSize = 1
  MaxTries = 2
  MaxCommands = 3
  MaxControls = 2
  SerialFails = TRUE
SYMMETRY Symmetry
CHECK_DEADLOCK FALSE
INVARIANTS
  TypeOK
  TrueMeansArrived
  HomeIsKnown
  MachineExclusion
  StepsAddUp
  AtMostOneLateLine
