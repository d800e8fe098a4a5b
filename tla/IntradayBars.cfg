CONSTANTS
  Watchlist <- MCWatchlist
  DayLen = 3
  BatchDays = 2
  Lookback = 1
  ReopenLookback = 2
  MinAge = 1
  StaleAfter = 1
  SeedChunk = 1
  Refused = {4}
  Retention = 5
  DeleteChunk = 1
  MaxChunks = 2
  PurgeHour = 1
  Invocations = {"w1", "w2"}
  MaxLife = 1
  StartTime = 3
  MaxTime = 11
  MaxLate = 1
  MaxFaults = 1
  FaultsUntil = 6
SPECIFICATION Spec
INVARIANT FinalIsWhole
PROPERTIES DaysAreFilled PurgeSparesRuns
CHECK_DEADLOCK FALSE
