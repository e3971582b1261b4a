SPECIFICATION ScriptFairSpec
CONSTANTS
  Shards = 2
  Batches = 2
  MaxRuns = 2
  Interrupts = 1
INVARIANTS
  ExitZeroComplete
  NoBatchTwice
  LeftBehindByFailure
PROPERTIES
  HandlerMissesOne
  ScriptExits
