SPECIFICATION Spec
CONSTANTS
  Records = {r1, r2, r3}
  Flushes = {c1, c2}
  MaxQueueSize = 2
  BatchMaxSize = 2
  AsyncCallbacks = FALSE
  Inputs = {"valid"}
  HasOnDelivered = TRUE
  HasOnFailure = TRUE
  OwnsSink = TRUE
SYMMETRY Symmetry
INVARIANTS Accounting DepthBounded Placement NeverStalled FlushTruthful DrainersExact FailuresReported ShutdownAccounts
PROPERTIES SinkContract ImplementsContract
CHECK_DEADLOCK FALSE
