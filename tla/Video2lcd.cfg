SPECIFICATION FairSpec
CONSTANTS
  NB_BUFFER = 2
  Grants = {0, 1, 2, 3}
  LcdWidth = 4
  LcdHeigt = 3
  VideoSizes <- MCVideoSizes
  Frames = {0, 1}
CHECK_DEADLOCK FALSE
INVARIANTS
  TypeOK
  FrameIsStill
  NoBufferLost
PROPERTY
  Refreshes
