SPECIFICATION Spec
CONSTANTS
  MaxBufs = 2
  Length = 2
  PayloadLens = {0, 1, 3}
  Frames = {1, 2, 3}
INVARIANTS
  TypeOK
  ListsAgree
  StateTellsPlace
  FramesNotJoined
  DoneNotEmpty
  FidTracks
PROPERTIES
  DataStable
  HeaderFirst
  ImplementsFrameQueue
CHECK_DEADLOCK FALSE
