CONSTANTS
  Lanes = {l1, l2, l3}
  Limit = 5
  Requests <- TwoSizes
  MaxCalls = 1
  MaxRetries = 1
  MaxDeaths = 1
SPECIFICATION FairSpec
INVARIANTS
  TypeOK
  NeverOvercommitted
  ReservedIsHeld
  SpendIsBounded
PROPERTIES
  EveryCallIsAnswered
