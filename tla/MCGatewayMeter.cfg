SPECIFICATION Spec
CONSTANTS
  None = None
  Null = Null
  Contexts <- MCContexts
  DefaultSets <- MCDefaultSets
  Bodies <- MCBodies
  FactSets <- MCFactSets
  MaxWait = 3
  InitialDelay = 1
  MaxDelay = 2
  Late = 1
  MaxFrames = 2
  MaxDepth = 2
  Charge = 2
  Upstream = 3
  Prompt = 4
  CacheRead = 2
INVARIANTS BilledToStarter OneVerdict NoSilentLoss RecordTruthful LookupBounded
CHECK_DEADLOCK FALSE
