SPECIFICATION FairSpec
CONSTANTS
  MaxBufs = 2
  Length = 2
  Frames = {0, 1}
  NUrbs = 2
  Urbs = {u1, u2}
  NULL = NULL
  PktsPerFrame = 2
  EofSent = FALSE
  MaxLoss = 1
  Faults = {"urb"}
  KeepsBuffers = TRUE
PROPERTY
  Circulates
