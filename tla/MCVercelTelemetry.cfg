SPECIFICATION Spec
CONSTANTS
  None = None
  Garbled = Garbled
  i1 = i1
  i2 = i2
  t1 = t1
  t2 = t2
  Integrations <- MCIntegrations
  Defaults <- MCDefaults
  MaxCalls = 3
  ToolCallIds <- MCToolCallIds
  Routes <- MCRoutes
  Sources <- MCSources
  Usages <- MCUsages
  Prompt = 4
  MaxEvents = 2
  MaxExecutions = 2
  MaxDepth = 3
SYMMETRY MCSymmetry
INVARIANTS NothingTwice RunCoherent ParentsResolve
CHECK_DEADLOCK FALSE
