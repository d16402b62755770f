SPECIFICATION FairSpec
CONSTANTS
  a1 = a1
  a2 = a2
  Loop = Loop
  Attempts = {a1, a2}
  Gets = {a1}
  MaxInflight = 1
  MaxNotes = 0
  ShadowCapacity = 1
PROPERTIES
  TerminalNotForgotten
  ShutdownEnds
CHECK_DEADLOCK FALSE
