CONSTANTS
  N = 1
  Targets <- ReopenOrResolve
  Posts <- Acknowledge
  MaxWrites <- Three
SPECIFICATION Spec
PROPERTIES
  StateNeverRegresses
CHECK_DEADLOCK FALSE
