SPECIFICATION PartsSpec
CONSTANTS
  None = None
  Garbled = Garbled
  Forests <- MCForests
  Defaults <- MCDefaults
  Prompt = 4
  MaxShutdowns = 1
  r1 = r1
  r2 = r2
  r3 = r3
  r4 = r4
  r5 = r5
  r6 = r6
  Batches <- MCBatches
  Unencodable <- MCUnencodable
  MaxFailures = 2
INVARIANTS RecordsExact NoResidue FileTruthful
CHECK_DEADLOCK FALSE
