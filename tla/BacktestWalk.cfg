CONSTANTS
  TickerCount = 2
  StartDay = 0
  EndDay = 5
  TrainDays = 1
  TestDays = 2
  GraceDays = 2
  Today = 6
  Items <- MCItems
  Late <- MCLate
  Stages = 2
  ExternalLimit = 3
  TotalLimit = 8
  ItemEstimate <- MCItemEstimate
  ExitsEstimate <- MCExitsEstimate
  ScoreEstimate <- MCScoreEstimate
  PreflightCost = 2
  ExitCosts <- MCExitCosts
  MaxParts = 5
  MaxIdleParts = 1
  MaxStalls = 1
  MaxSkipped = 1
  MaxFaults = 1
SPECIFICATION FairSpec
INVARIANTS NothingSkipped
PROPERTIES KeepsDayMajorOrder EveryStepCounts WalkEnds
CHECK_DEADLOCK FALSE
