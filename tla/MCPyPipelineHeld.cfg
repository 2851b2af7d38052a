SPECIFICATION OrderedSpec
CONSTANTS
  Records = {1, 2}
  Flushes = {c1}
  MaxQueueSize = 2
  BatchMaxSize = 2
  OwnsSink = TRUE
  HasOnFailure = FALSE
  HasOnDelivered = FALSE
  Misanswers = FALSE
  Inputs = {"valid"}
INVARIANTS EveryRecordEnds
CHECK_DEADLOCK FALSE
