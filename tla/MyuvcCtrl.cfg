SPECIFICATION CtrlSpec
CONSTANTS
  Values <- EdgeValues
  Stack = {0, 90, 255}
  Min <- WidestMin
  Max = 32767
  Step = 1
  Def = 0
INVARIANTS
  ReadsBack
  RangeIsReal
