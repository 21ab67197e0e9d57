SPECIFICATION Spec
CONSTANTS
  Shapes <- MCShapes
  MaxJournalBytes = 9
  Retained = 1
  WriteErrors = FALSE
  CompactErrors = FALSE
  MaxTransactions = 3
  MaxGeneration = 3
INVARIANT CrashNeverRefused
CHECK_DEADLOCK FALSE
