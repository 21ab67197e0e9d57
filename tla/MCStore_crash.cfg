SPECIFICATION Spec
CONSTANTS
  Shapes <- MCShapes
  MaxJournalBytes = 9
  Retained = 1
  WriteErrors = TRUE
  CompactErrors = TRUE
  MaxTransactions = 4
  MaxGeneration = 3
INVARIANTS
  StoreTypeOK
  AcknowledgedReadBack
  UnreadableOnlyIfAbandoned
  RecoveredWhole
PROPERTIES
  ImplementsLog
CHECK_DEADLOCK FALSE
