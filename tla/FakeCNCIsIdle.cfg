SPECIFICATION Spec
CONSTANTS
  Callers = {c1}
  Steps <- MCSteps
  MaxCommands = 1
  MaxHomings = 0
  MaxDrift = 2
INVARIANT IdleMeansIdle
CHECK_DEADLOCK FALSE
