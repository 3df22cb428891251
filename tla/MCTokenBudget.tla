---------------------------- MODULE MCTokenBudget ----------------------------
(***************************************************************************)
(* Instances of TokenBudgetProps for TLC.                                  *)
(***************************************************************************)
EXTENDS TokenBudgetProps

\* A small and a large call; neither divides the limits used below.
TwoSizes == {[input |-> 1, output |-> 1], [input |-> 2, output |-> 2]}
=============================================================================
