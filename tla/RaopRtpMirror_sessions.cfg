CONSTANTS
  Frames <- ThreeFrames
  HeaderLen = 2
  NULL = NULL
  Breaks = TRUE
  MaxConns = 2
  MaxStarts = 2
  MaxErrors = 1
SPECIFICATION FairSpec
INVARIANTS ListensWhileRunning FreedThreadOnlyLogs
PROPERTIES FramesInOrder IsSession StopTerminates EveryFrameHandled
CHECK_DEADLOCK FALSE
