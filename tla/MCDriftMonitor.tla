----------------------------- MODULE MCDriftMonitor -----------------------------
(***************************************************************************)
(* Small instances of DriftMonitor for TLC, with the measure a check       *)
(* applies (Psi): the constants of both are numbers and are given in the   *)
(* configurations.                                                         *)
(***************************************************************************)
EXTENDS DriftMonitor, Psi

\* A check goes on to compare: it has a baseline and live rows (check_drift).
Comparing == pc = "begun" /\ Established(reading) /\ Live

\* Whatever the check compares, every live value is counted, the index is a number,
\* it is zero for the traffic of the baseline, and traffic outside its range shows in
\* it, as drift unless most of the baseline is at that end, but where the quantiles
\* are too few to tell (_quantile_edges, _bucket_probs, psi).
MeasureSound == Comparing => EveryValueCounted /\ PsiIsFinite /\ SameIsNoDrift /\ OutOfRange
=============================================================================
