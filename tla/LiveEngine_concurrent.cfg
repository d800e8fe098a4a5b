CONSTANTS
  Tickers = {"AAPL", "MSFT"}
  Instants = {1, 2, 3}
  ThesisIds <- OneTicker
  Theses <- MCTheses
  DirectStatuses = {"pending_entry", "skipped_irrelevant"}
  GroupOf <- MCGroupOf
  GroupCap <- MCGroupCap
  MaxPortfolioRisk = 2
  MaxStopRisk = 2
  Items <- OneTicker
  ThesisOf <- ThesisOfItem
  Consumers = {"w1", "w2"}
  MaxDeliveries = 2
  MaxFaults = 0
  HoldLimit = 1
  FillExpiry = 2
  Markets <- FirstTouched
  LateNews = TRUE
  StalePrices = TRUE
  Pauses = TRUE
  ReflectionFails = TRUE
SPECIFICATION EngineSpec
INVARIANTS PositionIsDecided
PROPERTIES EngineKeepsStoreContract
