CONSTANTS
  NoWorker = NoWorker
  Workers = {w1, w2}
  NumRuns = 1
  MaxAttempts = 2
  Cap = 1
  MaxFaults = 1
  PromptLoops = TRUE
  EarlyFlush = TRUE
SPECIFICATION Spec
PROPERTIES
  TerminalIsFinal
