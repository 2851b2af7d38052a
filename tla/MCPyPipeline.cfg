SPECIFICATION OrderedSpec
CONSTANTS
  Records = {1, 2, 3}
  Flushes = {c1}
  MaxQueueSize = 2
  BatchMaxSize = 2
  OwnsSink = TRUE
  HasOnFailure = TRUE
  HasOnDelivered = TRUE
  Misanswers = TRUE
  Inputs = {"valid", "invalid", "unparsable"}
INVARIANTS Accounting QueueSound LossesKnown
PROPERTIES SinkContract EverythingEnds
CHECK_DEADLOCK FALSE
