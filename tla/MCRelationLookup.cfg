SPECIFICATION FairLookup
CONSTANTS
  r1 = r1
  r2 = r2
  None = None
  Images = {r1, r2}
  NumDatasets = 2
  MaxPrepares = 3
  MaxStarts = 2
  MaxLookups = 1
INVARIANTS
  PublishedIsWhole
  EvidenceOfOneRelease
PROPERTIES
  IdentitiesOfThePath
  WholeIsReused
  ForcedPublishes
CHECK_DEADLOCK FALSE
