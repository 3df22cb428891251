CONSTANTS
  NoIntent = NoIntent
  Intents = {i1}
  Dispatchers = {d1, d2, d3}
  MaxAttempts = 3
SPECIFICATION FairSpec
INVARIANTS
  TypeOK
  ClaimsDiffer
  ReportIsTrue
  GivenUpAtTheEnd
PROPERTIES
  EndedByOwner
  OutcomeIsFinal
  KeepsPromise
  EveryIntentSettles
