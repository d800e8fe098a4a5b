CONSTANTS
  ModelCount = 2
  KeyCount = 2
  Lanes <- MCLanes
  MaxCascade = 1
  MaxAttempts = 2
  Refresh = 1
  DeadFor = 2
  DayLength = 1
  Buffer = 1
  Delays <- MCDelays
  MaxLlmCalls = 2
  MaxCalls = 3
  MaxRequests = 3
  MaxTime = 1
  MaxKvFailures = 1
SPECIFICATION Spec
INVARIANTS ExhaustionIsComplete ParkingIsJustified NoInventedCooldown
PROPERTIES RespectsCooldown
CHECK_DEADLOCK FALSE
