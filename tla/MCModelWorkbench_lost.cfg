CONSTANTS
  Nodes <- Cells
  Derived <- DerivedCells
  Here <- Cells
  Values = {v}
  None = None
  Untouched = Untouched
  Reset = Reset
  MaxRevision = 3
SPECIFICATION Spec
PROPERTIES
  EditsLeaveKnowingly
