SPECIFICATION FairSpec
CONSTANTS
  Count = 3
  Slack = 1
  Tiles <- MCTiles
INVARIANTS
  ViewsAlive
  ConcatExact
  AllOrNothing
PROPERTY
  Terminates
