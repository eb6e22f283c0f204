SPECIFICATION FairSpec
CONSTANTS
  NoThread = NoThread
  Executors = {e1, e2}
  Operators = {o1, o2}
  MaxResets = 2
INVARIANTS
  IInv
  OneCancelPerReset
  NoPassWhilePaused
PROPERTIES
  AbstractSpec
  LoneSleeperLeaves
