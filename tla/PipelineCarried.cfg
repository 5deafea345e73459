SPECIFICATION Spec
CONSTANTS
  Loops <- CarriedLoops
  MaxExtent = 3
INVARIANT ReadsSequential
CHECK_DEADLOCK FALSE
