SPECIFICATION Spec
CONSTANTS
  k1 = k1
  k2 = k2
  i1 = i1
  i2 = i2
  None = None
  Calls = {c1, c2, c3}
  Keys = {k1, k2}
  Inputs = {i1, i2}
  Traffic <- MCGets
  MaxInflight = 2
  PoolSize = 2
  MaxReplay = 1
INVARIANTS
  AdmissionAccounting
  CacheOnlySafe
  ServedOwnQuestion
  ReplayBound
  SharedWorkSurvivesAbort
PROPERTIES
  EvictedForCause
  ImplementsSharedExecution
SYMMETRY CallSymmetry
CHECK_DEADLOCK FALSE
