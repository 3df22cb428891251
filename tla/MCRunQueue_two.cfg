CONSTANTS
  NoWorker = NoWorker
  Workers = {w1, w2}
  NumRuns = 2
  MaxAttempts = 2
  Cap = 1
  MaxFaults = 0
  PromptLoops = FALSE
  EarlyFlush = FALSE
SPECIFICATION Spec
SYMMETRY WorkerSymmetry
INVARIANTS
  TypeOK
  TerminalIsNotified
PROPERTIES
  PassesOnlyClaimed
  KeepsPromise
