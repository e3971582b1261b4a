SPECIFICATION Spec
CONSTANTS
  Inputs = 3
  Metas <- MCMetas
  Names <- MCNames
  NoLayers = NoLayers
  Letters = {"a", "b"}
  Objects <- MCObjects
  Tails <- MCTails
  Tiny = 1
  Big = 1000
  Unit = 4
INVARIANTS
  TableIsMerge
  ThrowsBeforeWriting
  EntriesWhole
  ScanExact
