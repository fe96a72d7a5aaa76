SPECIFICATION Spec
CONSTANTS
  MaxBufs = 2
  Length = 3
  Frames = {0, 1}
  NUrbs = 2
  Urbs = {u1, u2, u3}
  NULL = NULL
  PktsPerFrame = 3
  EofSent = TRUE
  MaxLoss = 1
  Faults = {"urb", "streamon", "streamoff"}
  KeepsBuffers = FALSE
SYMMETRY UrbSymmetry
INVARIANTS
  NoDmaWithoutBuffers
  DmaHasMemory
  NoBufferLeaked
  WholeFrames
CHECK_DEADLOCK FALSE
