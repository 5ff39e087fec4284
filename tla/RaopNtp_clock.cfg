CONSTANTS
  N = 2
  MaxDelay = 100
  Theta <- Behind
  MaxTime = 1
  MaxRequests = 3
  MaxFlight = 2
  MaxErrors = 1
  MaxStops = 1
SPECIFICATION FairSpec
INVARIANTS BestOfLastN ClockError NoUseAfterFree
PROPERTIES StopTerminates IsSession
CHECK_DEADLOCK FALSE
