CONSTANTS
  Tickers = {"AAPL", "MSFT"}
  Articles = {"old", "both", "names"}
  Recent = {"both", "names"}
  ReturnedBy <- MCReturnedBy
  Mentions <- MCMentions
  ChunkSize = 1
  Feeds <- MCFeeds
  Batches <- MCBatches
  Invocations = {i1, i2}
  MaxBatches = 2
  MaxFaults = 1
  DayOf <- MCDayOf
  LastDay = 5
  Selected = {"AAPL", "MSFT"}
  WindowDays = 2
  MaxInserts = 1
  MaxAsked = 5
  MaxParts = 2
  Threshold = 2
  Cap = 2
  Runners = {"b1"}
SPECIFICATION Spec
INVARIANTS AnalyzedOnce NothingStranded CompleteIsTrue
SYMMETRY MCSymmetry
CHECK_DEADLOCK FALSE
