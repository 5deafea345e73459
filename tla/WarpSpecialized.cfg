CONSTANTS
  Producer = {p1, p2}
  Consumer = {c1, c2}
  Leader = p1
  MaxGroups = 2
  MaxRounds = 5
  Program <- MCProgram
SPECIFICATION Spec
INVARIANTS
  ReadsOwnTile
  NoOverwrite
  ParityUnambiguous
PROPERTY
  Finishes
CHECK_DEADLOCK FALSE
