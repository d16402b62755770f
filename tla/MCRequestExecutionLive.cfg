SPECIFICATION FairSpec
CONSTANTS
  k1 = k1
  k2 = k2
  i1 = i1
  i2 = i2
  None = None
  Calls = {c1, c2}
  Keys = {k1, k2}
  Inputs = {i1, i2}
  Traffic <- MCAll
  MaxInflight = 1
  PoolSize = 1
  MaxReplay = 1
PROPERTIES
  CallAnswered
  WorkDrains
CHECK_DEADLOCK FALSE
