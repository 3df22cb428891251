CONSTANTS
  Nodes <- Cells
  Derived <- DerivedCells
  Here <- DerivedCells
  Values = {v}
  None = None
  Untouched = Untouched
  Reset = Reset
  MaxRevision = 3
SPECIFICATION Spec
INVARIANTS
  TypeOK
  RecordIsReal
  AuditAccountsForDraft
PROPERTIES
  CommitWasPreviewed
  CheckpointIsTheDraft
