CONSTANTS
  MaxKeys = 4
  MaxSetups = 2
  StreamId = {id1, id2}
  None = None
  Garbage = Garbage
SPECIFICATION KeysSpec
INVARIANTS AnswersGenuine StreamKeysAgree
CHECK_DEADLOCK FALSE
