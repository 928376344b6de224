SPECIFICATION FairSpec
CONSTANTS
  Threads = {timer}
  Frames <- FramesDef
  Limit = 3
  MaxFrames = 3
INVARIANT TypeOK
PROPERTIES ImplementsChannel NothingHangs
CHECK_DEADLOCK FALSE
