CONSTANTS
  Length = 2
  MaxParts = 3
  MaxDeliveries = 3
  MaxFaults = 2
  Operators = {a}
  Routes = {"pause", "resume", "cancel", "cleanup", "purge"}
  Quotas = FALSE
  Failures = FALSE
  CancelMidPart = TRUE
  PurgeQueued = FALSE
SPECIFICATION FairSpec
INVARIANTS NeverForgotten
PROPERTIES CompleteIsWhole RunEnds CancelledIsCleaned
CHECK_DEADLOCK FALSE
