SPECIFICATION FairSpec
CONSTANTS
  MaxBufs = 3
  Sizes = {1, 2}
  MapLens = {1, 2}
  MaxStrays = 1
  NULL = NULL
CHECK_DEADLOCK FALSE
INVARIANTS
  TypeOK
  ListsAgree
  QuietWhenStopped
  CarefulIsSafe
PROPERTIES
  WaiterServed
  KeepsContract
