CONSTANTS
  DayLen = 2
  Weekend = {1}
  HoldDays = 1
  Expiry = 1
  MaxAge = 1
  FreshAge = 0
  RowCap = 2
  StopPct = 10
  TakePct = 25
  Tolerance = 3
  RoundTrip = 2
  NearestOpen = TRUE
  Directions = {"long", "short"}
  OpenTimes <- MCOpenTimes
  DefaultKnobs <- MCDefaultKnobs
  Settings <- MCSettings
  Shapes <- MCShapes
  MaxTime = 6
  MaxBars = 3
  MaxDeaths = 1
  SideCost = 1
SPECIFICATION Spec
INVARIANTS OneWalk TradeIsBookedOnce OverdueCloses
PROPERTIES EveryBarIsJudged
CHECK_DEADLOCK FALSE
