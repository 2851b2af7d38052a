SPECIFICATION FocusedSpec
CONSTANTS
  None = None
  Unset = Unset
  Garbled = Garbled
  Defaults <- MCDefaults
  MaxScopes = 1
  Traces <- MCTraces
  Calls <- MCCalls
  Drains = {d1, d2}
  MaxPending = 2
  MaxActivations = 2
INVARIANTS HandoffsExact RecordsTrue
PROPERTIES DrainsEnd
CHECK_DEADLOCK FALSE
