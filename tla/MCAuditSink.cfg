SPECIFICATION Spec
CONSTANTS
  i1 = i1
  t1 = t1
  t2 = t2
  c1 = c1
  c2 = c2
  p1 = p1
  p2 = p2
  Nothing = Nothing
  Threads = {t1, t2}
  Invocations = {i1}
  InvocationOf <- MCInvocationOf
  Closers = {c1, c2}
  Pollers = {p1, p2}
  Capacity = 1
  MaxEvents = 2
  MaxRuns = 2
INVARIANTS
  TrailInSequence
  NoSilentLoss
  NothingStranded
  CrashBoundary
  LatchHolds
PROPERTIES
  DrainedMeansDurable
  ImplementsAuditLog
SYMMETRY MCSymmetry
CHECK_DEADLOCK FALSE
