SPECIFICATION FairSpec
CONSTANTS
  Shards = 3
  CellCount = 7
  Owner <- MCOwner
  Tiles <- MCTiles
  FlushLimit = 1
  Inputs = 2
  MetadataRows = 2
  BadTiles = {4}
  BadMetadata = TRUE
  Killable = {0, 2}
INVARIANTS
  OneInDatabase
  NothingLost
PROPERTIES
  BusyOnlyAtOpening
  ImplementsTable
  EveryoneEnds
  HealthyFinish
