CONSTANTS
  Tickers = {"AAPL", "MSFT"}
  Instants = {1, 2, 3}
  ThesisIds <- OneTicker
  Theses <- MCTheses
  DirectStatuses = {"pending_entry"}
  GroupOf <- MCGroupOf
  GroupCap <- MCGroupCap
  MaxPortfolioRisk = 2
  MaxStopRisk = 2
  Items <- OneTicker
  ThesisOf <- ThesisOfItem
  Consumers = {"w1"}
  MaxDeliveries = 2
  MaxFaults = 1
  HoldLimit = 1
  FillExpiry = 1
  Markets <- QuietOrTouched
  LateNews = FALSE
  StalePrices = TRUE
  Pauses = FALSE
  ReflectionFails = FALSE
SPECIFICATION FairEngineSpec
PROPERTIES PendingIsResolved MessageIsDisposed
