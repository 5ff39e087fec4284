CONSTANTS
  MaxSetups = 2
  MaxErrors = 1
SPECIFICATION FairSpec
INVARIANTS PointersLive LastSetupFreed ClockInUse
PROPERTIES EachIsSession ConnectionEnds
CHECK_DEADLOCK FALSE
