CONSTANTS
  Lanes = {l1, l2}
  Limit = 5
  Requests <- TwoSizes
  MaxCalls = 2
  MaxRetries = 0
  MaxDeaths = 1
SPECIFICATION Spec
INVARIANTS
  SpentWithinCap
