---------------------------------- MODULE Psi ----------------------------------
(***************************************************************************)
(* The measure by which monitoring/drift.py tells live traffic from the    *)
(* traffic a model was trained on: the population stability index of one   *)
(* feature over buckets cut at the quantiles of the baseline.              *)
(*                                                                         *)
(* A sample is a sorted sequence of values. A quantile lies between two    *)
(* values (numpy interpolates linearly), so edges are kept multiplied by   *)
(* NumBuckets; probabilities are fractions; all arithmetic is exact. The   *)
(* index is a sum of terms (l - b) * ln(l / b), none of them negative:     *)
(* what is kept of it is whether it is zero, and whether one term alone is *)
(* certain to reach PSI_THRESHOLD, so that drift_detected is set. Its      *)
(* other values and the rounding to five digits are left out.              *)
(***************************************************************************)
EXTENDS Integers, Sequences, FiniteSetsExt, Functions

CONSTANTS NumBuckets,  \* NUM_BUCKETS
          EpsInv,      \* 1 / EPS
          MaxValue,    \* bound: the values of the feature, 0..MaxValue
          MaxRows      \* bound: rows of a sample (MIN_LIVE_ROWS and more)

ASSUME PsiAssumption ==
  /\ NumBuckets \in Nat \ {0} /\ EpsInv \in Nat \ {0, 1}
  /\ MaxValue \in Nat /\ MaxRows \in Nat \ {0}

Samples ==
  UNION {{s \in [1..n -> 0..MaxValue] : \A i \in 1..(n - 1) : s[i] <= s[i + 1]} : n \in 1..MaxRows}

\* np.quantile of s at k / NumBuckets.
Quantile(s, k) ==
  LET at == k * (Len(s) - 1)
      low == at \div NumBuckets + 1
      high == IF low < Len(s) THEN low + 1 ELSE low
  IN  NumBuckets * s[low] + (at % NumBuckets) * (s[high] - s[low])

\* np.unique of the quantiles.
Cuts(s) == {Quantile(s, k) : k \in 0..NumBuckets}

\* A constant baseline is split in two around its value.
Split(cuts) ==
  IF Cardinality(cuts) >= 2 THEN cuts
  ELSE UNION {{c - NumBuckets, c, c + NumBuckets} : c \in cuts}

\* Mutant: the outer edges are where the baseline ends.
Unpinned(s) ==
  LET cuts == Split(Cuts(s))
  IN  [inner |-> cuts \ {Min(cuts), Max(cuts)}, outer |-> {Min(cuts), Max(cuts)}]

\* _quantile_edges: the outer edges are pinned to infinity, where no value is cut off.
Edges(s) ==
  LET cuts == Split(Cuts(s))
  IN  [inner |-> cuts \ {Min(cuts), Max(cuts)}, outer |-> {}]

\* _finite: the sentinels written for the infinite edges, beyond every value. The
\* check that establishes a baseline uses its edges, every later one reads these.
Big == NumBuckets * (MaxValue + 2)
Finite(edges) == [edges EXCEPT !.outer = IF edges.outer = {} THEN {-Big, Big} ELSE edges.outer]

\* np.histogram: buckets are closed below and open above, the last one closed.
\* Bucket b lies above b of the inner edges; a value outside the outer ones is dropped.
Bucket(v, edges) == Cardinality({e \in edges.inner : e <= NumBuckets * v})
Inside(v, edges) ==
  edges.outer # {} => \E low, high \in edges.outer : low <= NumBuckets * v /\ NumBuckets * v <= high
Counts(s, edges) ==
  [b \in 0..Cardinality(edges.inner) |->
     Cardinality({i \in DOMAIN s : Bucket(s[i], edges) = b /\ Inside(s[i], edges)})]
Total(counts) == FoldFunction(+, 0, counts)

\* Mutant: the shares are not clipped.
Unclipped(count, total) ==
  IF total = 0 THEN [num |-> 1, den |-> EpsInv]
  ELSE [num |-> count * EpsInv, den |-> total * EpsInv]

\* _bucket_probs: the share of a bucket, clipped at EPS from below.
Larger(a, b) == IF a > b THEN a ELSE b
Prob(count, total) ==
  IF total = 0 THEN [num |-> 1, den |-> EpsInv]
  ELSE [num |-> Larger(count * EpsInv, total), den |-> total * EpsInv]

\* The probabilities of a bucket in the two samples, over one denominator.
Shares(b, base, live) ==
  LET cb == Counts(base, Edges(base))
      cl == Counts(live, Edges(base))
      pb == Prob(cb[b], Total(cb))
      pl == Prob(cl[b], Total(cl))
  IN  [base |-> pb.num * pl.den, live |-> pl.num * pb.den, of |-> pb.den * pl.den]
Buckets(base) == 0..Cardinality(Edges(base).inner)

\* psi: every term is zero.
PsiIsZero(base, live) ==
  \A b \in Buckets(base) : LET s == Shares(b, base, live) IN s.base = s.live

\* drift_detected, for certain: as (l - b) * ln(l / b) >= (l - b)^2 / max(l, b), one
\* term is PSI_THRESHOLD, 1/4, or more.
DriftDetected(base, live) ==
  \E b \in Buckets(base) :
    LET s == Shares(b, base, live)
    IN  4 * ((s.live - s.base) * (s.live - s.base)) >= Larger(s.live, s.base) * s.of

-----------------------------------------------------------------------------
(* What the measure does, for all samples within the bounds.               *)

\* Live values fall into a bucket, wherever they lie, and into the same one whether
\* the edges are those just computed or those read back (_quantile_edges: "so any live
\* value falls into a bucket instead of being silently dropped"; _finite).
EveryValueCounted ==
  \A base, live \in Samples :
    /\ Total(Counts(live, Edges(base))) = Len(live)
    /\ Counts(live, Finite(Edges(base))) = Counts(live, Edges(base))

\* The logarithm of a quotient of probabilities is defined, also where one of the
\* samples, or both, have an empty bucket (_bucket_probs, psi).
PsiIsFinite ==
  \A base, live \in Samples : \A b \in Buckets(base) :
    LET s == Shares(b, base, live) IN s.base > 0 /\ s.live > 0

\* Traffic with the distribution of the baseline, twice as much of it or the same,
\* has the index zero (_bucket_probs, psi).
SameIsNoDrift ==
  \A base \in Samples :
    LET twice == [i \in 1..(2 * Len(base)) |-> base[(i + 1) \div 2]]
    IN  PsiIsZero(base, base) /\ PsiIsZero(base, twice)

Above(live, base) == live[1] > base[Len(base)]
Below(live, base) == live[Len(live)] < base[1]

\* Traffic that is all in bucket b shows, and is drift when no more than half of the
\* baseline is in that bucket.
ShowsIn(b, base, live) ==
  /\ ~PsiIsZero(base, live)
  /\ 2 * Counts(base, Edges(base))[b] <= Len(base) => DriftDetected(base, live)

\* Traffic beyond the range of the baseline shows when the quantiles are three
\* different values or more, below the range also when they are all one, and has the
\* index zero otherwise (_quantile_edges: "an out-of-range value is itself a drift
\* signal"). With two there is one bucket, in which nothing is ever seen.
OutOfRange ==
  \A base, live \in Samples :
    LET n == Cardinality(Cuts(base))
        last == Cardinality(Edges(base).inner)
    IN  /\ Above(live, base) => IF n >= 3 THEN ShowsIn(last, base, live)
                                ELSE PsiIsZero(base, live)
        /\ Below(live, base) => IF n # 2 THEN ShowsIn(0, base, live)
                                ELSE PsiIsZero(base, live)
================================================================================
