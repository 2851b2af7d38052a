SPECIFICATION RecordSpec
CONSTANTS
  Absent = Absent
  Nil = Nil
  RecordInputs <- MCInputs
  Edits <- MCEdits
  Pivots <- MCPivots
  ClockParts <- MCClockParts
  Drifts = {0, 5, 6}
  MaxClock = 1
  MaxEdits = 2
  ExtensionNames = {"x_ok"}
  ExtensionKeys = {"x_ok", "x_Bad"}
  LabelFits = {"team", "longest"}
  LongNames = {"longest"}
INVARIANTS VerdictExact RoundTrip TypesHonoured
CHECK_DEADLOCK FALSE
