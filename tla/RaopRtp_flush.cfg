CONSTANTS
  L = 2
  M = 6
  Payload <- Stream5
  NoData = NoData
  FirstSeq = 4
  Markers = {}
  ControlRports = {0}
  MaxDelay = 3
  Lossy = FALSE
  Duplicating = FALSE
  Reordering = TRUE
  MaxCommands = 1
  MaxStarts = 1
  MaxErrors = 0
SPECIFICATION Spec
PROPERTIES FlushEmptiesBuffer
CHECK_DEADLOCK FALSE
