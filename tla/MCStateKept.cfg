SPECIFICATION Spec
CONSTANTS
  b1 = b1
  b2 = b2
  rival = rival
  b3 = b3
  None = None
  Runs = {r1}
  Bindings = {b1, b2, rival, b3}
  Generation <- MCGeneration
  Pinned <- MCPinned
PROPERTIES
  FailedWriteKeepsState
CHECK_DEADLOCK FALSE
