--------------------------- MODULE MCModelWorkbench ---------------------------
(***************************************************************************)
(* Instances of the model workbench for TLC: an input cell and a derived   *)
(* one, whose override expires.                                            *)
(***************************************************************************)
EXTENDS ModelWorkbenchProps

Cells        == {"input", "derived"}
DerivedCells == {"derived"}
=============================================================================
