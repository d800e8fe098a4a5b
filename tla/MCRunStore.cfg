CONSTANTS
  Tickers = {"AAPL", "MSFT"}
  Instants = {1, 2}
  ThesisIds <- MCThesisIds
  Theses <- MCTheses
  DirectStatuses = {"skipped_irrelevant", "pending_entry"}
  GroupOf <- MCGroupOf
  GroupCap <- MCGroupCap
  MaxPortfolioRisk = 3
  MaxStopRisk = 3
SPECIFICATION Spec
INVARIANTS BookIsConsistent
PROPERTIES RowsAreFinal KeepsOneThesisPerTicker
