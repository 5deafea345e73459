CONSTANTS
  Producer = {p1, p2}
  Consumer = {c1, c2}
  Leader = p1
  MaxGroups = 2
  MaxRounds = 3
  Program <- MCProgramAsync
SPECIFICATION Spec
INVARIANT
  NoOverwrite
CHECK_DEADLOCK FALSE
