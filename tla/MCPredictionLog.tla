---------------------------- MODULE MCPredictionLog ----------------------------
(***************************************************************************)
(* Small instances of PredictionLog for TLC.                               *)
(***************************************************************************)
EXTENDS PredictionLog, TLC

Symmetry == Permutations(Requests) \cup Permutations(Labellers)
=============================================================================
