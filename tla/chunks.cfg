SPECIFICATION FairSpec
CONSTANTS
  Chunks = 2
  Buffer = 2
  MaxLength = 7
INVARIANTS
  Partition
  EndsAtFirstNewline
PROPERTY
  Returns
