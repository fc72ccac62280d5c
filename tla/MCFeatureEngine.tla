---------------------------- MODULE MCFeatureEngine ----------------------------
(***************************************************************************)
(* Small instances of FeatureEngine for TLC.                               *)
(***************************************************************************)
EXTENDS FeatureEngine, TLC

\* Valid messages are interchangeable.
Symmetry == Permutations(Valid)
=============================================================================
