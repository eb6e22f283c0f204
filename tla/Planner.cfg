SPECIFICATION FairSpec
CONSTANTS
  MaxSegments = 4
  HalfLengths <- MCHalfLengths
  Speeds <- MCSpeeds
  Accelerations <- MCAccelerations
  Sharpness <- MCSharpness
  Caps <- MCCaps
INVARIANTS PlanSucceeds Fastest IInv
PROPERTY Planned
CHECK_DEADLOCK FALSE
