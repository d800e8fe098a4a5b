CONSTANTS
  Tickers = {"AAPL", "MSFT"}
  Instants = {1, 2, 3, 4}
  ThesisIds <- OneTicker
  Theses <- MCTheses
  DirectStatuses = {}
  GroupOf <- MCGroupOf
  GroupCap <- MCGroupCap
  MaxPortfolioRisk = 2
  MaxStopRisk = 2
  Items <- OneTicker
  ThesisOf <- ThesisOfItem
  Consumers = {"w1"}
  MaxDeliveries = 3
  MaxFaults = 2
  HoldLimit = 1
  FillExpiry = 0
  Markets <- Quiet
  LateNews = FALSE
  StalePrices = FALSE
  Pauses = FALSE
  ReflectionFails = FALSE
SPECIFICATION FairEngineSpec
PROPERTIES ReplacedIsSettled PositionIsClosed
