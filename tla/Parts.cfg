SPECIFICATION PartsSpec
CONSTANTS
  Pids = {2, 3}
  Codes = {0}
  OthersReap = TRUE
  MaxStarts = 2
  Callers = {c1}
  Steps <- MCSteps
  MaxCommands = 2
  MaxHomings = 1
  MaxDrift = 2
  NaN = NaN
  Currents <- MCCurrents
  Voltages = {"low", "full"}
  ResetEvery = 2
  Slow = 4
  Threads = {t1, t2}
  Files = {f1}
  Extra = x
  MaxFaults = 2
  Cameras = {cam}
  Editor = ed
  Values = {0, 1}
  Default = default
  MaxEdits = 2
  Buffers = {b1, b2}
  Tries = 2
  MaxShots = 2
  MaxSeconds = 2
  Directions <- MCDirections
  Norm = 9
  Tolerance = 3
INVARIANTS
  PartsTypeOK ChildAccounted StraysExplained EndsWhereAsked DevicesSafe
  StoresKept CurvesSound
PROPERTIES
  CallsReturn ReadingsShown
CHECK_DEADLOCK FALSE
