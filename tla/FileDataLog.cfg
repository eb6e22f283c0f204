SPECIFICATION FairSpec
CONSTANTS
  n1 = n1
  n2 = n2
  v1 = v1
  Names <- MCNames
  Values <- MCValues
  MaxStores = 3
  MaxStarts = 2
INVARIANT IInv
PROPERTIES LogSpec EntriesAreSaved DestructorEnds
CHECK_DEADLOCK FALSE
