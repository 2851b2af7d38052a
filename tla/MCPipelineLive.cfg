SPECIFICATION FairSpec
CONSTANTS
  Records = {r1, r2}
  Flushes = {c1}
  MaxQueueSize = 2
  BatchMaxSize = 2
  AsyncCallbacks = TRUE
  Inputs = {"valid", "invalid", "opaque", "value"}
  HasOnDelivered = FALSE
  HasOnFailure = TRUE
  OwnsSink = TRUE
PROPERTIES CallsEnd RecordsSettle
CHECK_DEADLOCK FALSE
