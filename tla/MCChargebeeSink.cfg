SPECIFICATION Spec
CONSTANTS
  Ids = {1, 2, 3}
  None = None
  Docs <- MCDocs
  Batches <- MCBatches
  MaxAttempts = 2
INVARIANTS OutcomesTrue EventsFaithful
PROPERTIES EndsQuietly
CHECK_DEADLOCK FALSE
