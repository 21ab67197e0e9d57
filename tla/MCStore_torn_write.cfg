SPECIFICATION Spec
CONSTANTS
  Shapes <- MCUnevenShapes
  MaxJournalBytes = 20
  Retained = 1
  WriteErrors = TRUE
  CompactErrors = FALSE
  MaxTransactions = 3
  MaxGeneration = 3
INVARIANT OkIsDurable
CHECK_DEADLOCK FALSE
