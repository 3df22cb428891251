----------------------------- MODULE MCRunQueue -----------------------------
(***************************************************************************)
(* Instances of RunQueueProps for TLC.                                     *)
(***************************************************************************)
EXTENDS RunQueueProps, TLC

\* Workers are interchangeable: no action or safety property names one.
WorkerSymmetry == Permutations(Workers)
=============================================================================
