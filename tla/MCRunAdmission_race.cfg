CONSTANTS
  NoKey = NoKey
  h1 = h1
  h2 = h2
  h3 = h3
  p1 = p1
  p2 = p2
  Handlers = {h1, h2, h3}
  ProcessOf <- TwoProcesses
  Requests <- Mixed
  PerAnalystLimit = 1
  QueueLimit = 1
  MaxRuns = 5
SPECIFICATION FairSpec
INVARIANTS
  TypeOK
  OneActivePerIssuer
  RepliesAreRight
  OverrunIsBounded
PROPERTIES
  KeepsPromise
  HandlersFinish
