CONSTANTS
  c1 = c1
  c2 = c2
  c3 = c3
  Conn = {c1, c2, c3}
  Text = {"CS", "eq", "1", "2", "x"}
  Requests <- ThreeSenders
  CSeq <- CutCSeq
  MaxConnections = 2
  BufferSize = 2
  NULL = NULL
  MaxStarts = 1
  MaxErrors = 1
SPECIFICATION FairSpec
INVARIANTS TableOK NeverBlocks RequestAsSent
CHECK_DEADLOCK FALSE
PROPERTIES IsSession EveryRequestAnswered WaitingAccepted StopTerminates
