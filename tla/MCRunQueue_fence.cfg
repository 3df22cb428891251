CONSTANTS
  NoWorker = NoWorker
  Workers = {w1, w2}
  NumRuns = 1
  MaxAttempts = 3
  Cap = 2
  MaxFaults = 2
  PromptLoops = FALSE
  EarlyFlush = TRUE
SPECIFICATION FairSpec
INVARIANTS
  CheckedOwnerKeepsRow
  ResultIsCurrent
  OneAttemptPerWorker
  OutputsMatchStatus
PROPERTIES
  OutcomeStays
  FailedByOwner
  EveryRunEnds
