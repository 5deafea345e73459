CONSTANTS
  Ids = {1, 2, 3}
  Domains = {"a", "b"}
  MaxArrays = 3
  MaxEvals = 1
SPECIFICATION Spec
CHECK_DEADLOCK FALSE
INVARIANT NeverHeldUp
