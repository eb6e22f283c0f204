SPECIFICATION Spec
CONSTANTS
  Scale = 4
  Tick = 2
  Word = 8
  Speed = 1
  Slice = 2
  MaxSlice = 8
  Skip = 1
  Positions <- MCPositions
  Durations <- MCDurations
  MaxTravels = 2
  MaxPoints = 2
  MaxSections = 3
INVARIANTS StepsAccounted ArrivesUnlessDropped PlayedInTime BlocksFit
CHECK_DEADLOCK FALSE
