CONSTANTS
  Tickers = {"AAPL", "MSFT"}
  Instants = {1, 2, 3}
  ThesisIds <- TwoTickers
  Theses <- MCTheses
  DirectStatuses = {"rejected"}
  GroupOf <- MCGroupOf
  GroupCap <- MCGroupCap
  MaxPortfolioRisk = 2
  MaxStopRisk = 2
  Items <- TwoTickers
  ThesisOf <- ThesisOfItem
  Consumers = {"w1", "w2"}
  MaxDeliveries = 2
  MaxFaults = 1
  HoldLimit = 1
  FillExpiry = 1
  Markets <- QuietOrTouched
  LateNews = FALSE
  StalePrices = FALSE
  Pauses = FALSE
  ReflectionFails = FALSE
SPECIFICATION EngineSpec
INVARIANTS DoneIsDone NoTouchSkipped StopsFirst NoOverlap CeilingHolds
