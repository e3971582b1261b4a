SPECIFICATION Spec
CONSTANTS
  Shards = 2
  CellCount = 5
  Owner <- MCOwner
  Tiles <- MCTiles
  FlushLimit = 1
  Inputs = 1
  MetadataRows = 1
  BadTiles = {}
  BadMetadata = FALSE
  Killable = {}
INVARIANTS
  ClosedInsideFlock
