SPECIFICATION Spec
CONSTANTS
  Loops <- MCLoops
  MaxExtent = 4
INVARIANTS ReadsSequential RunsOnce PlansValid
PROPERTY Finishes
CHECK_DEADLOCK FALSE
