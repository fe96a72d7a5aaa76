SPECIFICATION Spec
CONSTANTS
  Cameras = {3}
  Default = 1
  PSize = 2
  MaxPackets = 3
  Faults = {}
  MaxCnt = 2
  NULL = NULL
CHECK_DEADLOCK FALSE
INVARIANT
  NeverUsesFreed
