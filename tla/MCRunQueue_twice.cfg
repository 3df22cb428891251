CONSTANTS
  NoWorker = NoWorker
  Workers = {w1, w2}
  NumRuns = 2
  MaxAttempts = 2
  Cap = 2
  MaxFaults = 0
  PromptLoops = TRUE
  EarlyFlush = TRUE
SPECIFICATION Spec
INVARIANTS
  OneAttemptAtATime
