SPECIFICATION Spec
CONSTANTS
  approved = approved
  tampered = tampered
  Requests = {r1, r2}
  Inodes = {f1, f2}
  Contents = {approved, tampered}
  Approved = approved
  Socket = Socket
  Nobody = Nobody
  Rounds = 3
  Limit = 3
  MaxForeign = 1
  MaxChanges = 1
INVARIANTS
  AnsweredFromApproved
  PinnedOpensDoNotCollide
  NoDescriptorLeaks
SYMMETRY MCSymmetry
CHECK_DEADLOCK FALSE
