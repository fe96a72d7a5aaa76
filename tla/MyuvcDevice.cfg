SPECIFICATION Spec
CONSTANTS
  Cameras = {3, 8}
  Default = 1
  PSize = 2
  MaxPackets = 3
  Faults = {"try", "get", "alloc", "register"}
  MaxCnt = 6
  NULL = NULL
CHECK_DEADLOCK FALSE
INVARIANTS
  TypeOK
  NodeHasDevice
  FreedOnce
  NodeUntilFirstUnplug
  StreamMatches
