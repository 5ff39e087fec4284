CONSTANTS
  L = 2
  M = 6
  Payload <- Stream1
  NoData = NoData
  FirstSeq = 4
  Markers = {}
  ControlRports = {0}
  MaxDelay = 3
  Lossy = FALSE
  Duplicating = FALSE
  Reordering = FALSE
  MaxCommands = 2
  MaxStarts = 2
  MaxErrors = 1
SPECIFICATION FairSpec
INVARIANTS ThreadHasSockets
PROPERTIES StopTerminates LastCommandApplied IsSession
CHECK_DEADLOCK FALSE
