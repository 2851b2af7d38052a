SPECIFICATION Spec
CONSTANTS
  Ids = {1, 2, 3, 4}
  None = None
  Docs <- MCDocs
  Batches <- MCBatches
  ChunkSize = 3
  MaxSalvagePasses = 2
  MaxAttempts = 2
  Instances <- MCInstances
INVARIANTS PreflightExact OutcomesTrue
PROPERTIES EndsQuietly
CHECK_DEADLOCK FALSE
