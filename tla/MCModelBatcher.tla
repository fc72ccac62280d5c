---------------------------- MODULE MCModelBatcher ----------------------------
(***************************************************************************)
(* Small instances of ModelBatcher for TLC.                                *)
(***************************************************************************)
EXTENDS ModelBatcher, TLC

\* Requests are interchangeable, and so are addresses.
Symmetry == Permutations(Requests) \cup Permutations(Addresses)
=============================================================================
