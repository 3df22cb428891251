CONSTANTS
  N = 2
  Targets <- AckFirst
  Posts <- Resolve
  MaxWrites <- OneAndTwo
SPECIFICATION FairSpec
INVARIANTS
  TypeOK
  UnfencedIsCurrent
  StatusFollowsLoad
  RetryNamesFailures
PROPERTIES
  EveryBatchEnds
