SPECIFICATION Spec
CONSTANTS
  HalfRange = 64
  MaxEntriesFlat = 2
  Jobs <- MCJobs
  Foreign <- MCForeign
  Longer <- MCLonger
INVARIANTS
  ReadsWhatWasBuilt
  NoDuplicateTexts
  TagsMean
  DecodesExactly
  AnnouncesWhatFits
  TablesFilledOnce
  LookupsAgree
PROPERTY
  GrowsByWholeFeatures
