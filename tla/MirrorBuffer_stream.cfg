CONSTANTS
  Length <- UpToTwoBlocks
  ShortPayloads = FALSE
  MaxPosition = 80
  MaxStreams = 2
SPECIFICATION CipherSpec
INVARIANTS DecryptsStream
CHECK_DEADLOCK FALSE
