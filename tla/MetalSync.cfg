CONSTANTS
  Ids = {1, 2, 3}
  Domains = {"a", "b"}
  MaxArrays = 3
  MaxEvals = 1
SPECIFICATION MCSpec
CHECK_DEADLOCK FALSE
INVARIANTS ReadsFinished RegistryExact WaitsAreInputs
PROPERTIES EvaluatedRuns
