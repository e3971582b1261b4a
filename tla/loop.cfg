SPECIFICATION FairSpec
CONSTANTS
  Inputs = 2
  Zooms = 3
  Side <- MCSide
  SizeMax = 9
  Shards = 2
  MyShard = 0
  Names <- MCNames
  Blank <- MCBlank
  Corrupt <- MCCorrupt
INVARIANTS
  SavedExact
  ThrowsForCause
PROPERTIES
  Terminates
