SPECIFICATION Spec
CONSTANTS
  a1 = a1
  a2 = a2
  Loop = Loop
  Attempts = {a1, a2}
  Gets = {a1, a2}
  MaxInflight = 2
  MaxNotes = 1
  ShadowCapacity = 1
INVARIANTS
  TypeOK
  QuietOnceWaited
PROPERTIES
  ImplementsInvocationLifecycle
SYMMETRY MCSymmetry
CHECK_DEADLOCK FALSE
