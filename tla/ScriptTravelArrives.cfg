SPECIFICATION Spec
CONSTANTS
  Scale = 2
  Tick = 2
  Word = 64
  Speed = 6
  Slice = 2
  MaxSlice = 4
  Skip = 1
  Positions <- TravelPositions
  Durations <- TravelDurations
  MaxTravels = 1
  MaxPoints = 1
  MaxSections = 2
INVARIANT TravelArrives
CHECK_DEADLOCK FALSE
