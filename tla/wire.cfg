SPECIFICATION Spec
CONSTANTS
  Group = 32
  MaxVarintLength = 3
  Word = 2048
  ShortWord = 128
  Fixed32 = 2
  Fixed64 = 3
  ReservedTags = {5}
  Schema <- MCSchema
  Expected <- MCExpected
  Sought <- MCSought
  Ints <- MCInts
  Contents <- MCContents
  Capacity = 7
  ReserveBytes = 2
  Foreign <- MCForeign
INVARIANTS
  ReadsWhatWasWritten
  ConsumesAField
  ThrowsForCause
  PackedSizeExact
PROPERTY
  ImplementsTree
