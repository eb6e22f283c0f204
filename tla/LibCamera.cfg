SPECIFICATION FairSpec
CONSTANTS
  c1 = c1
  c2 = c2
  f1 = f1
  f2 = f2
  Clients = {c1}
  Calls = {"power_up", "power_down", "grab", "start", "stop"}
  Memory <- MCMemory
  BufferSize = 1
  MaxShots = 2
  MaxRecordings = 1
  MaxPowerUps = 2
INVARIANTS MemorySafe CrashExplained
PROPERTY CallsReturn
CHECK_DEADLOCK FALSE
