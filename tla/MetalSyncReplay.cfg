CONSTANTS
  Ids = {1, 2, 3}
  Domains = {"a", "b"}
  MaxArrays = 2
  MaxEvals = 2
SPECIFICATION Spec
CHECK_DEADLOCK FALSE
INVARIANT ReadsFinished
