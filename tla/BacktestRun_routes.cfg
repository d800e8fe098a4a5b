CONSTANTS
  Length = 2
  MaxParts = 3
  MaxDeliveries = 1
  MaxFaults = 0
  Operators = {a, b}
  Routes = {"pause", "resume", "cancel", "cleanup", "purge"}
  Quotas = TRUE
  Failures = TRUE
  CancelMidPart = FALSE
  PurgeQueued = FALSE
SPECIFICATION Spec
SYMMETRY Symmetric
INVARIANTS SingleChain NoOrphanRows
PROPERTIES KeepsLifecycle OnlyEndedRunsLoseRows
CHECK_DEADLOCK FALSE
