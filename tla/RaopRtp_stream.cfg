CONSTANTS
  L = 2
  M = 6
  Payload <- Stream6
  NoData = NoData
  FirstSeq = 4
  Markers = {}
  ControlRports = {0}
  MaxDelay = 3
  Lossy = FALSE
  Duplicating = FALSE
  Reordering = FALSE
  MaxCommands = 1
  MaxStarts = 1
  MaxErrors = 0
SPECIFICATION StreamSpec
PROPERTIES EveryPacketPlayed
CHECK_DEADLOCK FALSE
