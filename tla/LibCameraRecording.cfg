SPECIFICATION FairSpec
CONSTANTS
  c1 = c1
  c2 = c2
  f1 = f1
  f2 = f2
  Clients = {c1}
  Calls = {"power_up", "start", "stop"}
  Memory <- MCMemory
  BufferSize = 2
  MaxShots = 5
  MaxRecordings = 2
  MaxPowerUps = 1
INVARIANTS PipelineKeepsOrder FilesInOrder DestructorSaves
PROPERTY StoppedFileCloses
CHECK_DEADLOCK FALSE
