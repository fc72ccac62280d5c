---------------------------- MODULE MCModelRegistry ----------------------------
(***************************************************************************)
(* Small instances of ModelRegistry for TLC.                               *)
(***************************************************************************)
EXTENDS ModelRegistry, TLC

\* Versions are interchangeable.
Symmetry == Permutations(Versions)
=============================================================================
