SPECIFICATION FairSpec
CONSTANTS
  b1 = b1
  b2 = b2
  rival = rival
  b3 = b3
  None = None
  Runs = {r1, r2, r3}
  Bindings = {b1, b2, rival, b3}
  Generation <- MCGeneration
  Pinned <- MCPinned
INVARIANTS
  UnrecordedIsKnown
  SnapshotSealed
PROPERTIES
  ChainUnbroken
  SuccessIsTrue
  RunEnds
CHECK_DEADLOCK FALSE
