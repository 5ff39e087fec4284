CONSTANTS
  L = 3
  M = 12
  Payload <- Stream6
  NoData = NoData
  FirstSeq = 10
  Markers = {2}
  ControlRports = {0, 1}
  MaxDelay = 3
  Lossy = TRUE
  Duplicating = TRUE
  Reordering = TRUE
  MaxCommands = 1
  MaxStarts = 1
  MaxErrors = 0
SPECIFICATION Spec
PROPERTIES InOrder AsksForHoles
CHECK_DEADLOCK FALSE
