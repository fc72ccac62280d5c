--------------------------- MODULE DriftMonitorProof ---------------------------
(***************************************************************************)
(* Theorems about DriftMonitor: its types, for all intervals, windows,     *)
(* limits and bounds; and about the measure it applies (Psi): that         *)
(* MeasureSound holds for samples of any length over any values, any       *)
(* number of buckets and any EPS of at most a half.                        *)
(***************************************************************************)
EXTENDS MCDriftMonitor, FiniteSetTheorems, TLAPS

\* The parts of TypeOK: the tables, the check under way, the clocks.
WorldOK == traffic \in [1..BaseWindow -> BOOLEAN] /\ labelled \in BOOLEAN /\ shifted \in BOOLEAN

TablesOK ==
  /\ models \in Seq([rows : BOOLEAN, stored : BOOLEAN]) /\ Len(models) <= MaxModels
  /\ events \subseteq 1..Len(models)

CheckOK ==
  /\ reading \in 0..Len(models)
  /\ pc \in {"asleep", "begun", "training"}
  /\ child \in {"none", "running", "done", "failed"}
  /\ child # "none" <=> pc = "training"
  /\ pc # "asleep" <=> reading # 0

ClocksOK ==
  /\ {modelAge, since, txAge, trainAge} \subseteq Ages
  /\ rest \in 0..Interval /\ faults \in 0..MaxFaults

TypeInv == WorldOK /\ TablesOK /\ CheckOK /\ ClocksOK

-----------------------------------------------------------------------------
\* Ages stay below the horizon.
LEMMA AgesGrow ==
  /\ Horizon \in Nat /\ 0 \in Ages /\ Horizon \in Ages
  /\ \A age \in Ages : Older(age) \in Ages
<1>1. \A a, b \in Nat : LongerOf(a, b) \in Nat
  BY DEF LongerOf
<1>2. Horizon \in Nat
  BY <1>1, DriftAssumption DEF Horizon
<1> QED
  BY <1>2 DEF Ages, Older

\* A fault is within its bound.
LEMMA FaultBounded == ASSUME faults \in 0..MaxFaults, Fault PROVE faults' \in 0..MaxFaults
  BY DriftAssumption DEF Fault

\* The initial state satisfies the invariant.
LEMMA InitTypeInv == Init => TypeInv
<1> SUFFICES ASSUME Init PROVE TypeInv
  OBVIOUS
<1>1. models = <<>> /\ Len(models) = 0
  BY DEF Init
<1>2. WorldOK
  BY DEF Init, WorldOK
<1>5. CheckOK
  BY <1>1 DEF Init, CheckOK
<1>3. TablesOK
  BY <1>1, DriftAssumption DEF Init, TablesOK
<1>4. ClocksOK
  BY AgesGrow, DriftAssumption DEF Init, ClocksOK
<1> QED
  BY <1>1, <1>2, <1>3, <1>4, <1>5 DEF Init, TypeInv

-----------------------------------------------------------------------------
(* What the actions are made of.                                           *)

\* A promoted model is appended to the table.
LEMMA PromotesKeeps ==
  ASSUME TypeInv, Promotes
  PROVE  /\ WorldOK' /\ TablesOK' /\ modelAge' \in Ages /\ since' = since
         /\ Len(models') = Len(models) + 1
<1> DEFINE new == [rows |-> \E i \in 1..BaseWindow : traffic[i], stored |-> FALSE]
<1>1. new \in [rows : BOOLEAN, stored : BOOLEAN]
  <2>1. (\E i \in 1..BaseWindow : traffic[i]) \in BOOLEAN
    OBVIOUS
  <2> QED
    BY <2>1
<1>2. models' = Append(models, new) /\ Len(models) < MaxModels /\ events' = events
  BY DEF Promotes
<1> HIDE DEF new
<1>3. /\ models' \in Seq([rows : BOOLEAN, stored : BOOLEAN]) /\ Len(models') = Len(models) + 1
      /\ Len(models) \in Nat
  BY <1>1, <1>2 DEF TypeInv, TablesOK
<1>4. TablesOK'
  BY <1>2, <1>3, DriftAssumption DEF TypeInv, TablesOK
<1>5. WorldOK' /\ modelAge' \in Ages /\ since' = since
  BY AgesGrow DEF Promotes, TypeInv, WorldOK
<1> QED
  BY <1>3, <1>4, <1>5

\* The baseline and the event of the model under check are stored.
LEMMA RecordKeeps ==
  ASSUME TypeInv, reading # 0, NEW drift, NEW triggered, Record(drift, triggered)
  PROVE  /\ WorldOK' /\ TablesOK' /\ CheckOK'
         /\ {modelAge', since', txAge'} \subseteq Ages /\ rest' \in 0..Interval
<1>1. reading \in 1..Len(models) /\ Len(models) \in Nat
  BY DEF TypeInv, CheckOK, TablesOK
<1>2. /\ models' = [models EXCEPT ![reading].stored = TRUE]
      /\ events' = events \cup {reading}
  BY DEF Record
<1>3. /\ models' \in Seq([rows : BOOLEAN, stored : BOOLEAN]) /\ Len(models') = Len(models)
      /\ \A m \in 1..Len(models) :
           models'[m].stored = IF m = reading THEN TRUE ELSE models[m].stored
  <2> DEFINE R == [rows : BOOLEAN, stored : BOOLEAN]
             r == [models[reading] EXCEPT !.stored = TRUE]
  <2>1. models \in Seq(R)
    BY DEF TypeInv, TablesOK
  <2>2. models \in Seq(R) /\ models[reading] \in R
    <3> HIDE DEF R
    <3> QED
      BY <1>1, <2>1
  <2>3. r \in R /\ r.stored = TRUE
    <3>1. TRUE \in BOOLEAN
      OBVIOUS
    <3>2. \A q \in R, b \in BOOLEAN : [q EXCEPT !.stored = b] \in R
                                    /\ [q EXCEPT !.stored = b].stored = b
      BY ZenonT(30)
    <3> QED
      BY <2>2, <3>1, <3>2, Zenon
  <2>4. models' = [models EXCEPT ![reading] = r]
    BY <1>2
  <2> HIDE DEF R, r
  <2>5. models' \in Seq(R) /\ Len(models') = Len(models)
    BY <1>1, <2>2, <2>3, <2>4
  <2>6. \A m \in 1..Len(models) : models'[m] = IF m = reading THEN r ELSE models[m]
    BY <1>1, <2>2, <2>4
  <2> QED
    BY <2>3, <2>5, <2>6 DEF R
<1>4. TablesOK'
  BY <1>1, <1>2, <1>3 DEF TypeInv, TablesOK
<1>5. CheckOK'
  BY <1>1, <1>3 DEF Record, Rests, CheckOK
<1>6. /\ {modelAge', since', txAge'} \subseteq Ages /\ rest' \in 0..Interval
  BY AgesGrow, DriftAssumption DEF Record, Rests, TypeInv, ClocksOK
<1>7. WorldOK'
  BY DEF Record, TypeInv, WorldOK, world
<1> QED
  BY <1>4, <1>5, <1>6, <1>7

\* A check that is rolled back leaves the tables alone.
LEMMA RaisesKeeps ==
  ASSUME TypeInv, Raises, faults' \in 0..MaxFaults
  PROVE  TypeInv'
<1>1. UNCHANGED <<traffic, labelled, shifted, models, modelAge, events, since, trainAge>>
  BY DEF Raises, world, database
<1>2. CheckOK'
  BY <1>1 DEF Raises, Rests, TypeInv, TablesOK, CheckOK
<1>3. ClocksOK'
  BY <1>1, AgesGrow, DriftAssumption DEF Raises, Rests, TypeInv, ClocksOK
<1> QED
  BY <1>1, <1>2, <1>3 DEF TypeInv, WorldOK, TablesOK

-----------------------------------------------------------------------------
(* The steps.                                                              *)

LEMMA TickKeeps == ASSUME TypeInv, Tick PROVE TypeInv'
<1>1. UNCHANGED <<models, events, pc, reading, child, faults>>
  BY DEF Tick
<1>2. WorldOK'
  <2>1. PICK busy \in BOOLEAN :
          /\ traffic' = [i \in 1..BaseWindow |-> IF i = 1 THEN busy ELSE traffic[i - 1]]
          /\ labelled' = (labelled \/ busy)
    BY DEF Tick
  <2>2. \A i \in 1..BaseWindow : i # 1 => traffic[i - 1] \in BOOLEAN
    BY DriftAssumption DEF TypeInv, WorldOK
  <2>3. traffic' \in [1..BaseWindow -> BOOLEAN]
    BY <2>1, <2>2
  <2>4. labelled' \in BOOLEAN
    BY <2>1
  <2> QED
    BY <2>3, <2>4 DEF Tick, WorldOK
<1>3. ClocksOK'
  <2>1. {modelAge, since, txAge, trainAge} \subseteq Ages /\ rest \in 0..Interval
        /\ faults \in 0..MaxFaults
    BY DEF TypeInv, ClocksOK
  <2>2. modelAge' \in Ages /\ since' \in Ages /\ trainAge' \in Ages /\ txAge' \in Ages
    BY <2>1, AgesGrow DEF Tick
  <2>3. rest' \in 0..Interval
    BY <2>1, DriftAssumption DEF Tick
  <2> QED
    BY <1>1, <2>1, <2>2, <2>3 DEF ClocksOK
<1> QED
  BY <1>1, <1>2, <1>3 DEF TypeInv, TablesOK, CheckOK

LEMMA PromotionKeeps == ASSUME TypeInv, TrainByHand \/ ChildPromotes PROVE TypeInv'
<1>1. Promotes /\ UNCHANGED <<pc, reading, txAge, rest, trainAge, faults>>
  BY DEF TrainByHand, ChildPromotes, check
<1>2. CheckOK'
  BY <1>1, PromotesKeeps DEF TrainByHand, ChildPromotes, check, TypeInv, TablesOK, CheckOK
<1>3. ClocksOK'
  BY <1>1, PromotesKeeps DEF TypeInv, ClocksOK
<1> QED
  BY <1>1, <1>2, <1>3, PromotesKeeps DEF TypeInv

LEMMA RaisingKeeps ==
  ASSUME TypeInv, NoModel \/ BaselineFails \/ LiveFails \/ TimesOut \/ RecordFails
  PROVE  TypeInv'
<1>1. Raises /\ faults' \in 0..MaxFaults
  BY FaultBounded DEF NoModel, BaselineFails, LiveFails, TimesOut, RecordFails,
     TypeInv, ClocksOK
<1> QED
  BY <1>1, RaisesKeeps

LEMMA RecordingKeeps == ASSUME TypeInv, NoRetrain \/ Returns PROVE TypeInv'
<1>1. reading # 0 /\ trainAge' = trainAge /\ faults' = faults
  BY DEF NoRetrain, Returns, TypeInv, CheckOK
<1>2. \E drift, triggered \in BOOLEAN : Record(drift, triggered)
  <2>1. CASE NoRetrain
    <3>1. Drifts \subseteq BOOLEAN
      BY DEF Drifts, TypeInv, WorldOK
    <3> QED
      BY <2>1, <3>1 DEF NoRetrain
  <2>2. CASE Returns
    <3>1. (child = "done") \in BOOLEAN
      OBVIOUS
    <3> QED
      BY <2>2, <3>1 DEF Returns
  <2> QED
    BY <2>1, <2>2
<1> QED
  BY <1>1, <1>2, RecordKeeps DEF TypeInv, ClocksOK

LEMMA CheckKeeps == ASSUME TypeInv, Begin \/ Retrain \/ ChildEnds \/ Crash PROVE TypeInv'
<1>1. UNCHANGED <<traffic, labelled, shifted, models, modelAge, events, since>>
  BY DEF Begin, Retrain, ChildEnds, Crash, world, database
<1>2. faults' \in 0..MaxFaults
  BY FaultBounded DEF Begin, Retrain, ChildEnds, Crash, TypeInv, ClocksOK
<1>3. CheckOK'
  <2>1. Len(models) \in Nat /\ (models # <<>> => Newest \in 1..Len(models))
    BY DEF TypeInv, TablesOK, Newest
  <2>2. CheckOK
    BY DEF TypeInv
  <2>3. CASE Begin
    BY <1>1, <2>1, <2>2, <2>3 DEF Begin, Due, CheckOK
  <2>4. CASE Retrain
    BY <1>1, <2>2, <2>4 DEF Retrain, CheckOK
  <2>5. CASE ChildEnds
    BY <1>1, <2>2, <2>5 DEF ChildEnds, CheckOK
  <2>6. CASE Crash
    BY <1>1, <2>1, <2>2, <2>6 DEF Crash, CheckOK
  <2> QED
    BY <2>3, <2>4, <2>5, <2>6
<1>4. ClocksOK'
  <2>1. {modelAge, since, txAge, trainAge} \subseteq Ages /\ rest \in 0..Interval
    BY DEF TypeInv, ClocksOK
  <2>2. txAge' \in {txAge, 0} /\ trainAge' \in {trainAge, 0} /\ rest' \in {rest, 0}
    BY DEF Begin, Retrain, ChildEnds, Crash
  <2> QED
    BY <1>1, <1>2, <2>1, <2>2, AgesGrow, DriftAssumption DEF ClocksOK
<1> QED
  BY <1>1, <1>3, <1>4 DEF TypeInv, WorldOK, TablesOK

\* Every step keeps the invariant.
LEMMA MonitorStep == TypeInv /\ [Next]_vars => TypeInv'
<1> SUFFICES ASSUME TypeInv, [Next]_vars PROVE TypeInv'
  OBVIOUS
<1>1. CASE UNCHANGED vars
  BY <1>1 DEF vars, world, database, check, TypeInv, WorldOK, TablesOK, CheckOK,
     ClocksOK
<1> QED
  BY <1>1, TickKeeps, PromotionKeeps, RaisingKeeps, RecordingKeeps, CheckKeeps DEF Next, Monitor

LEMMA TypeInvariance == Spec => []TypeInv
  BY InitTypeInv, MonitorStep, PTL DEF Spec

\* The types of DriftMonitor, and: a check that is not asleep reads a model, and
\* has a training process exactly while it waits for one (run_once, trigger_retrain).
THEOREM MonitorTypeCorrect == Spec => []TypeOK
<1>1. TypeInv => TypeOK
  BY DEF TypeInv, WorldOK, TablesOK, CheckOK, ClocksOK, TypeOK
<1> QED
  BY <1>1, TypeInvariance, PTL

-----------------------------------------------------------------------------
(* The measure. Numbers first: quotients, products, sorted sequences.      *)

\* A multiple of n between 0 and m * n is divided into at most m parts.
LEMMA Divided ==
  ASSUME NEW n \in Nat \ {0}, NEW m \in Nat, NEW a \in 0..(m * n)
  PROVE  a \div n \in 0..m /\ a % n \in 0..(n - 1)
<1>1. a \in Nat /\ m * n \in Nat
  OBVIOUS
<1>2. a \div n \in Nat
  BY <1>1
<1>3. a % n \in 0..(n - 1)
  BY <1>1
<1>4. a = (n * (a \div n)) + (a % n)
  BY <1>1
<1>5. ASSUME ~(a \div n <= m) PROVE FALSE
  <2>1. m + 1 <= a \div n
    BY <1>2, <1>5
  <2>2. n * (m + 1) <= n * (a \div n)
    BY <1>2, <2>1
  <2> QED
    BY <1>1, <1>3, <1>4, <2>2
<1> QED
  BY <1>2, <1>3, <1>5

\* Products of naturals grow with a factor.
LEMMA Scaled ==
  ASSUME NEW a \in Nat, NEW b \in Nat, NEW c \in Nat, a <= b
  PROVE  a * c \in Nat /\ b * c \in Nat /\ a * c <= b * c
<1>1. PICK d \in Nat : b = a + d
  <2>1. b - a \in Nat /\ b = a + (b - a)
    OBVIOUS
  <2> QED
    BY <2>1
<1>2. a * c \in Nat /\ d * c \in Nat
  OBVIOUS
<1>3. b * c = (a * c) + (d * c)
  BY <1>1
<1> QED
  BY <1>1, <1>2, <1>3

\* A point between two values is between them.
LEMMA Interpolated ==
  ASSUME NEW n \in Nat, NEW r \in 0..n, NEW x \in Nat, NEW y \in Nat, x <= y
  PROVE  n * x + r * (y - x) \in (n * x)..(n * y)
<1>1. y - x \in Nat /\ r \in Nat /\ r <= n
  OBVIOUS
<1>2. r * (y - x) \in Nat /\ r * (y - x) <= n * (y - x) /\ n * x \in Nat /\ n * y \in Nat
  BY <1>1, Scaled
<1>3. n * (y - x) = n * y - n * x
  OBVIOUS
<1> QED
  BY <1>2, <1>3

\* A set of naturals has a least one.
LEMMA LeastNatural ==
  ASSUME NEW T \in SUBSET Nat, T # {}
  PROVE  \E x \in T : \A y \in T : x <= y
<1>1. PICK x \in T : \A y \in T : ~(<<y, x>> \in OpToRel(<, Nat))
  BY NatLessThanWellFounded, WFMin
<1>2. ASSUME NEW y \in T PROVE x <= y
  <2>1. x \in Nat /\ y \in Nat
    OBVIOUS
  <2>2. ~(y < x)
    BY <1>1, <2>1 DEF OpToRel
  <2> QED
    BY <2>1, <2>2
<1> QED
  BY <1>2

\* The first value of a sample is its least, the last its greatest.
LEMMA Ascending ==
  ASSUME NEW n \in Nat \ {0}, NEW s \in [1..n -> Nat],
         \A i \in 1..(n - 1) : s[i] <= s[i + 1]
  PROVE  \A i \in 1..n : s[1] <= s[i] /\ s[i] <= s[n]
<1>1. ASSUME NEW k \in 1..n, ~(s[1] <= s[k]) PROVE FALSE
  <2> DEFINE T == {i \in 1..n : ~(s[1] <= s[i])}
  <2>1. T \in SUBSET Nat /\ T # {}
    BY <1>1
  <2>2. PICK x \in T : \A y \in T : x <= y
    <3> HIDE DEF T
    <3> QED
      BY <2>1, LeastNatural
  <2>3. x \in 1..n /\ x # 1
    <3>1. s[1] \in Nat
      OBVIOUS
    <3> QED
      BY <2>2, <3>1
  <2>4. x - 1 \in 1..(n - 1) /\ x - 1 \in 1..n /\ (x - 1) + 1 = x /\ ~(x <= x - 1)
    BY <2>3
  <2>5. s[x - 1] <= s[(x - 1) + 1]
    BY <2>4
  <2>6. s[1] <= s[x - 1]
    BY <2>2, <2>4
  <2>7. s[1] \in Nat /\ s[x - 1] \in Nat /\ s[x] \in Nat
    BY <2>3, <2>4
  <2> QED
    BY <2>2, <2>4, <2>5, <2>6, <2>7
<1>2. ASSUME NEW k \in 1..n, ~(s[k] <= s[n]) PROVE FALSE
  <2> DEFINE T == {j \in 0..(n - 1) : ~(s[n - j] <= s[n])}
  <2>1. T \in SUBSET Nat /\ T # {}
    <3>1. n - k \in 0..(n - 1) /\ n - (n - k) = k
      OBVIOUS
    <3>2. n - k \in T
      BY <1>2, <3>1
    <3>3. T \subseteq 0..(n - 1) /\ 0..(n - 1) \subseteq Nat
      OBVIOUS
    <3> HIDE DEF T
    <3> QED
      BY <3>2, <3>3
  <2>2. PICK x \in T : \A y \in T : x <= y
    <3> HIDE DEF T
    <3> QED
      BY <2>1, LeastNatural
  <2>3. x \in 0..(n - 1) /\ x # 0
    <3>1. s[n] \in Nat /\ n - 0 = n
      OBVIOUS
    <3> QED
      BY <2>2, <3>1
  <2>4. x - 1 \in 0..(n - 1) /\ n - x \in 1..(n - 1) /\ n - (x - 1) = (n - x) + 1 /\ ~(x <= x - 1)
    BY <2>3
  <2>5. s[n - x] <= s[(n - x) + 1]
    BY <2>4
  <2>6. s[(n - x) + 1] <= s[n]
    BY <2>2, <2>4
  <2>7. s[n - x] \in Nat /\ s[(n - x) + 1] \in Nat /\ s[n] \in Nat
    BY <2>4
  <2>8. ~(s[n - x] <= s[n])
    BY <2>2
  <2> HIDE DEF T
  <2> QED
    BY <2>5, <2>6, <2>7, <2>8
<1> QED
  BY <1>1, <1>2

-----------------------------------------------------------------------------
(* Sums. Total is a fold: the one function that satisfies its recursion,   *)
(* and the counts by buckets satisfy it.                                   *)

\* f sums c over the subsets of D, as the fold of Total does.
Sums(f, c, D) ==
  f = [s \in SUBSET D |->
         IF s = {} THEN 0 ELSE LET x == CHOOSE x \in s : TRUE IN c[x] + f[s \ {x}]]

\* There is one function that does, if D is finite.
LEMMA OneSum ==
  ASSUME NEW D, IsFiniteSet(D), NEW c, NEW g, Sums(g, c, D), NEW f, Sums(f, c, D)
  PROVE  f = g
<1> DEFINE T == {s \in SUBSET D : f[s] # g[s]}
<1>1. ASSUME T # {} PROVE FALSE
  <2>1. IsWellFoundedOn(StrictSubsetOrdering(D), FiniteSubsetsOf(D)) /\ T \subseteq FiniteSubsetsOf(D)
    BY FS_StrictSubsetOrderingWellFounded, FS_FiniteSubsetsOfFinite
  <2>2. PICK s \in T : \A t \in T : ~(<<t, s>> \in StrictSubsetOrdering(D))
    <3> HIDE DEF T
    <3> QED
      BY <1>1, <2>1, WFMin
  <2>3. s \in SUBSET D /\ f[s] # g[s]
    BY <2>2
  <2>4. s # {}
    <3>1. {} \in SUBSET D
      OBVIOUS
    <3>2. f[{}] = 0 /\ g[{}] = 0
      BY <3>1 DEF Sums
    <3> QED
      BY <2>3, <3>2
  <2> DEFINE x == CHOOSE x \in s : TRUE
  <2>5. x \in s
    BY <2>4
  <2>6. f[s] = c[x] + f[s \ {x}] /\ g[s] = c[x] + g[s \ {x}]
    BY <2>3, <2>4 DEF Sums
  <2> HIDE DEF x
  <2>7. s \ {x} \in SUBSET D /\ s \ {x} \subseteq s /\ s \ {x} # s
    BY <2>3, <2>5
  <2>8. <<s \ {x}, s>> \in StrictSubsetOrdering(D)
    BY <2>3, <2>7 DEF StrictSubsetOrdering
  <2>9. f[s \ {x}] = g[s \ {x}]
    BY <2>2, <2>7, <2>8
  <2> QED
    BY <2>3, <2>6, <2>9
<1>2. \A s \in SUBSET D : f[s] = g[s]
  BY <1>1
<1>3. f = [s \in SUBSET D |-> f[s]] /\ g = [s \in SUBSET D |-> g[s]]
  <2>1. ASSUME NEW h, Sums(h, c, D) PROVE h = [s \in SUBSET D |-> h[s]]
    BY <2>1 DEF Sums
  <2> QED
    BY <2>1
<1> HIDE DEF T
<1> QED
  BY <1>2, <1>3

\* How many of I fall into each bucket of D.
Tally(I, D, b) == [d \in D |-> Cardinality({i \in I : b[i] = d})]

\* The buckets' counts add up to the rows counted.
LEMMA BucketsAddUp ==
  ASSUME NEW I, IsFiniteSet(I), NEW D, IsFiniteSet(D), NEW b \in [I -> D]
  PROVE  Total(Tally(I, D, b)) = Cardinality(I)
<1> DEFINE c == Tally(I, D, b)
           In(s) == {i \in I : b[i] \in s}
           g == [s \in SUBSET D |-> Cardinality(In(s))]
<1>1. c = [d \in D |-> Cardinality({i \in I : b[i] = d})] /\ DOMAIN c = D
  BY DEF Tally
<1> HIDE DEF c
<1>2. Total(c) = (CHOOSE f : Sums(f, c, D))[D]
  BY <1>1 DEF Sums, Total, FoldFunction, FoldFunctionOnSet, MapThenFoldSet
<1>3. Sums(g, c, D)
  <2>1. ASSUME NEW s \in SUBSET D
        PROVE  g[s] = IF s = {} THEN 0
                      ELSE LET x == CHOOSE x \in s : TRUE IN c[x] + g[s \ {x}]
    <3>1. CASE s = {}
      <4>1. In(s) = {}
        BY <3>1
      <4> QED
        BY <3>1, <4>1, FS_EmptySet
    <3>2. CASE s # {}
      <4> DEFINE x == CHOOSE x \in s : TRUE
      <4>1. x \in s
        BY <3>2
      <4> HIDE DEF x
      <4> DEFINE A == {i \in I : b[i] = x}
                 B == In(s \ {x})
      <4>2. In(s) = A \cup B /\ A \cap B = {}
        BY <4>1
      <4>3. IsFiniteSet(A) /\ IsFiniteSet(B)
        BY FS_Subset
      <4>4. c[x] = Cardinality(A) /\ g[s \ {x}] = Cardinality(B) /\ g[s] = Cardinality(In(s))
        BY <1>1, <4>1
      <4>5. Cardinality(A) \in Nat /\ Cardinality(B) \in Nat
        BY <4>3, FS_CardinalityType
      <4>6. Cardinality(In(s)) = Cardinality(A) + Cardinality(B)
        <5> HIDE DEF A, B, In, g
        <5>1. Cardinality(A \cup B) = Cardinality(A) + Cardinality(B) - Cardinality(A \cap B)
          BY <4>3, FS_Union
        <5>2. Cardinality(A \cap B) = 0
          BY <4>2, FS_EmptySet
        <5> QED
          BY <4>2, <4>5, <5>1, <5>2
      <4>7. g[s] = c[x] + g[s \ {x}]
        <5> HIDE DEF A, B, In, g
        <5> QED
          BY <4>4, <4>6
      <4> HIDE DEF g
      <4> QED
        BY <3>2, <4>7 DEF x
    <3> QED
      BY <3>1, <3>2
  <2> DEFINE h == [s \in SUBSET D |->
                    IF s = {} THEN 0
                    ELSE LET x == CHOOSE x \in s : TRUE IN c[x] + g[s \ {x}]]
  <2>2. \A s \in SUBSET D : g[s] = h[s]
    <3> HIDE DEF g
    <3> QED
      BY <2>1
  <2>3. DOMAIN g = SUBSET D /\ DOMAIN h = SUBSET D /\ g = [s \in SUBSET D |-> g[s]] /\ h = [s \in SUBSET D |-> h[s]]
    OBVIOUS
  <2>4. g = h
    <3> HIDE DEF g, h
    <3> QED
      BY <2>2, <2>3
  <2> HIDE DEF g
  <2> QED
    BY <2>4 DEF Sums
<1>4. \A f : Sums(f, c, D) => f = g
  <2> TAKE f
  <2>1. ASSUME Sums(f, c, D) PROVE f = g
    <3> HIDE DEF g
    <3> QED
      BY <1>3, <2>1, OneSum
  <2> QED
    BY <2>1
<1>5. (CHOOSE f : Sums(f, c, D)) = g
  <2> HIDE DEF g
  <2> QED
    BY <1>3, <1>4
<1>6. g[D] = Cardinality(I)
  <2>1. In(D) = I
    OBVIOUS
  <2> QED
    BY <2>1
<1> QED
  <2> HIDE DEF g
  <2> QED
    BY <1>2, <1>5, <1>6 DEF c

-----------------------------------------------------------------------------
(* Quantiles, edges and buckets of a baseline.                             *)

\* A quantile is between the first value and the last one, which are quantiles too.
LEMMA QuantileBetween ==
  ASSUME NEW s \in Samples
  PROVE  /\ Len(s) \in Nat \ {0} /\ s \in [1..Len(s) -> 0..MaxValue]
         /\ \A i \in 1..Len(s) : s[1] <= s[i] /\ s[i] <= s[Len(s)]
         /\ \A k \in 0..NumBuckets :
              Quantile(s, k) \in (NumBuckets * s[1])..(NumBuckets * s[Len(s)])
         /\ Quantile(s, 0) = NumBuckets * s[1]
         /\ Quantile(s, NumBuckets) = NumBuckets * s[Len(s)]
<1> DEFINE at(k) == k * (Len(s) - 1)
           low(k) == at(k) \div NumBuckets + 1
           high(k) == IF low(k) < Len(s) THEN low(k) + 1 ELSE low(k)
<1>1. PICK n \in 1..MaxRows : s \in [1..n -> 0..MaxValue] /\ \A i \in 1..(n - 1) : s[i] <= s[i + 1]
  BY DEF Samples
<1>2. Len(s) = n /\ n \in Nat \ {0} /\ NumBuckets \in Nat \ {0} /\ MaxValue \in Nat
  BY <1>1, PsiAssumption
<1>a. \A i \in 1..n : s[i] \in Nat
  BY <1>1, <1>2
<1>b. \A i \in 1..n : s[1] <= s[i] /\ s[i] <= s[n]
  <2>1. s \in [1..n -> Nat]
    BY <1>1, <1>2
  <2> QED
    BY <1>1, <1>2, <2>1, Ascending
<1>3. ASSUME NEW k \in 0..NumBuckets
      PROVE  Quantile(s, k) \in (NumBuckets * s[1])..(NumBuckets * s[n])
  <2> DEFINE a == at(k)
             l == low(k)
             h == high(k)
  <2>1. a \in 0..((n - 1) * NumBuckets)
    <3>1. k \in Nat /\ n - 1 \in Nat /\ k <= NumBuckets
      BY <1>2
    <3>2. k * (n - 1) \in Nat /\ k * (n - 1) <= NumBuckets * (n - 1)
      BY <1>2, <3>1, Scaled
    <3>3. NumBuckets * (n - 1) = (n - 1) * NumBuckets /\ NumBuckets * (n - 1) \in Nat
      BY <1>2
    <3> QED
      BY <1>2, <3>2, <3>3
  <2>2. a \div NumBuckets \in 0..(n - 1) /\ a % NumBuckets \in 0..(NumBuckets - 1)
    <3> HIDE DEF a
    <3>1. n - 1 \in Nat
      BY <1>2
    <3> QED
      BY <1>2, <2>1, <3>1, Divided
  <2>3. l = a \div NumBuckets + 1 /\ h = IF l < n THEN l + 1 ELSE l
    BY <1>2
  <2>4. Quantile(s, k) = NumBuckets * s[l] + (a % NumBuckets) * (s[h] - s[l])
    BY DEF Quantile
  <2> HIDE DEF a, l, h
  <2>5. l \in 1..n
    BY <1>2, <2>2, <2>3
  <2>6. h \in 1..n /\ s[l] <= s[h]
    <3>1. CASE l < n
      <4>1. h = l + 1 /\ l \in 1..(n - 1) /\ l + 1 \in 1..n
        BY <1>2, <2>3, <2>5, <3>1
      <4>2. s[l] <= s[l + 1]
        BY <1>1, <4>1
      <4> QED
        BY <4>1, <4>2
    <3>2. CASE ~(l < n)
      <4>1. h = l
        BY <2>3, <3>2
      <4> QED
        BY <1>a, <2>5, <4>1
    <3> QED
      BY <3>1, <3>2
  <2>7. s[1] \in Nat /\ s[l] \in Nat /\ s[h] \in Nat /\ s[n] \in Nat
        /\ s[1] <= s[l] /\ s[h] <= s[n]
    BY <1>2, <1>a, <1>b, <2>5, <2>6
  <2>8. NumBuckets * s[l] + (a % NumBuckets) * (s[h] - s[l])
          \in (NumBuckets * s[l])..(NumBuckets * s[h])
    <3>1. a % NumBuckets \in 0..NumBuckets
      BY <1>2, <2>2
    <3> QED
      BY <1>2, <2>6, <2>7, <3>1, Interpolated
  <2>9. /\ NumBuckets * s[1] \in Nat /\ NumBuckets * s[l] \in Nat
        /\ NumBuckets * s[h] \in Nat /\ NumBuckets * s[n] \in Nat
        /\ NumBuckets * s[1] <= NumBuckets * s[l] /\ NumBuckets * s[h] <= NumBuckets * s[n]
    <3>1. ASSUME NEW x \in Nat, NEW y \in Nat, x <= y
          PROVE  /\ NumBuckets * x \in Nat /\ NumBuckets * y \in Nat
                 /\ NumBuckets * x <= NumBuckets * y
      <4>1. x * NumBuckets <= y * NumBuckets
        BY <1>2, <3>1, Scaled
      <4> QED
        BY <1>2, <4>1
    <3> QED
      BY <2>7, <3>1
  <2> QED
    BY <2>4, <2>8, <2>9
<1>4. Quantile(s, 0) = NumBuckets * s[1]
  <2>1. at(0) = 0 /\ 0 \div NumBuckets = 0 /\ 0 % NumBuckets = 0
    BY <1>2
  <2>2. low(0) = 1 /\ high(0) \in 1..n
    BY <1>2, <2>1
  <2>3. Quantile(s, 0) = NumBuckets * s[low(0)] + (at(0) % NumBuckets) * (s[high(0)] - s[low(0)])
    BY DEF Quantile
  <2> HIDE DEF at, low, high
  <2>4. s[1] \in Nat /\ s[high(0)] \in Nat
    BY <1>2, <1>a, <2>2
  <2> QED
    BY <1>2, <2>1, <2>2, <2>3, <2>4
<1>5. Quantile(s, NumBuckets) = NumBuckets * s[n]
  <2> DEFINE k == NumBuckets
  <2>1. at(k) = NumBuckets * (n - 1) /\ n - 1 \in Nat
    BY <1>2
  <2>2. at(k) \div NumBuckets = n - 1 /\ at(k) % NumBuckets \in Nat
    <3>1. NumBuckets * (n - 1) \in Int
      BY <1>2
    <3> QED
      BY <1>2, <2>1, <3>1
  <2>3. low(k) = n /\ high(k) = n
    <3>1. low(k) = (n - 1) + 1
      BY <2>2
    <3> QED
      BY <1>2, <3>1
  <2>4. Quantile(s, k) = NumBuckets * s[low(k)] + (at(k) % NumBuckets) * (s[high(k)] - s[low(k)])
    BY DEF Quantile
  <2> HIDE DEF at, low, high, k
  <2>5. s[n] \in Nat /\ s[n] - s[n] = 0
    BY <1>2, <1>a
  <2>6. (at(k) % NumBuckets) * 0 = 0
    BY <2>2
  <2>7. Quantile(s, k) = NumBuckets * s[n]
    BY <1>2, <2>3, <2>4, <2>5, <2>6
  <2> QED
    BY <2>7 DEF k
<1> HIDE DEF at, low, high
<1> QED
  BY <1>1, <1>2, <1>b, <1>3, <1>4, <1>5

\* What Min and Max return for a set of integers with a least and a greatest one.
LEMMA MinMaxAre ==
  ASSUME NEW S \in SUBSET Int, NEW l \in S, NEW h \in S, \A y \in S : l <= y /\ y <= h
  PROVE  Min(S) = l /\ Max(S) = h
<1>1. \A x \in S : (\A y \in S : x <= y) <=> x = l
  OBVIOUS
<1>2. \A x \in S : (\A y \in S : x >= y) <=> x = h
  OBVIOUS
<1>3. Min(S) = CHOOSE x \in S : x = l
  BY <1>1 DEF Min
<1>4. Max(S) = CHOOSE x \in S : x = h
  BY <1>2 DEF Max
<1> QED
  BY <1>3, <1>4

\* The cuts without the outer two.
Inner(cuts) == Split(cuts) \ {Min(Split(cuts)), Max(Split(cuts))}

\* What is left of cuts between a least and a greatest one without the two ends: nothing
\* of two, something strictly between of three or more; of one, split in two, the one.
LEMMA InnerCuts ==
  ASSUME NEW lo \in Nat, NEW hi \in Nat,
         NEW cuts \in SUBSET (lo..hi), lo \in cuts, hi \in cuts
  PROVE  /\ Cardinality(cuts) \in Nat \ {0}
         /\ IsFiniteSet(Inner(cuts)) /\ Inner(cuts) \subseteq lo..hi
         /\ Cardinality(cuts) = 1 => lo = hi /\ Inner(cuts) = {lo}
         /\ Cardinality(cuts) = 2 => Inner(cuts) = {}
         /\ Cardinality(cuts) >= 3 => Inner(cuts) # {}
         /\ Cardinality(cuts) >= 3 => \A e \in Inner(cuts) : lo < e /\ e < hi
<1> DEFINE n == Cardinality(cuts)
           inner == Inner(cuts)
<1>a. inner = Split(cuts) \ {Min(Split(cuts)), Max(Split(cuts))} /\ n = Cardinality(cuts)
  BY DEF Inner
<1> SUFFICES /\ n \in Nat \ {0} /\ IsFiniteSet(inner) /\ inner \subseteq lo..hi
             /\ n = 1 => lo = hi /\ inner = {lo}
             /\ n = 2 => inner = {}
             /\ n >= 3 => inner # {} /\ \A e \in inner : lo < e /\ e < hi
  OBVIOUS
<1> HIDE DEF n, inner
<1>1. NumBuckets \in Nat \ {0}
  BY PsiAssumption
<1>3. IsFiniteSet(cuts) /\ n \in Nat
  <2>1. IsFiniteSet(lo..hi)
    BY <1>1, FS_Interval
  <2> QED
    BY <1>a, <2>1, FS_Subset, FS_CardinalityType
<1>4. n # 0
  BY <1>3, <1>a, FS_EmptySet
<1>5. CASE n = 1
  <2>1. cuts = {lo} /\ lo = hi
    <3>1. PICK x : cuts = {x}
      BY <1>3, <1>5, <1>a, FS_Singleton
    <3> QED
      BY <3>1
  <2>2. Split(cuts) = {lo - NumBuckets, lo, lo + NumBuckets}
    BY <1>5, <1>a, <2>1 DEF Split
  <2>3. Min(Split(cuts)) = lo - NumBuckets /\ Max(Split(cuts)) = lo + NumBuckets
    <3> DEFINE l == lo - NumBuckets
               h == lo + NumBuckets
    <3>1. /\ {l, lo, h} \in SUBSET Int /\ l \in {l, lo, h} /\ h \in {l, lo, h}
          /\ \A y \in {l, lo, h} : l <= y /\ y <= h
      BY <1>1
    <3> HIDE DEF l, h
    <3>2. Min({l, lo, h}) = l /\ Max({l, lo, h}) = h
      BY <3>1, MinMaxAre
    <3> QED
      BY <2>2, <3>2 DEF l, h
  <2>4. inner = {lo - NumBuckets, lo, lo + NumBuckets} \ {lo - NumBuckets, lo + NumBuckets}
    BY <1>a, <2>2, <2>3
  <2>5. inner = {lo}
    BY <1>1, <2>4
  <2>6. IsFiniteSet({lo}) /\ {lo} \subseteq lo..hi
    BY <1>1, <2>1, FS_Singleton
  <2> QED
    BY <1>1, <1>5, <2>1, <2>5, <2>6
<1>6. CASE n >= 2
  <2>1. Split(cuts) = cuts
    BY <1>6, <1>a DEF Split
  <2>2. Min(cuts) = lo /\ Max(cuts) = hi
    <3>1. cuts \in SUBSET Int /\ \A y \in cuts : lo <= y /\ y <= hi
      BY <1>1
    <3> QED
      BY <3>1, MinMaxAre
  <2>4. inner = cuts \ {lo, hi}
    BY <1>a, <2>1, <2>2
  <2>5. lo # hi
    <3>1. ASSUME lo = hi PROVE FALSE
      <4>1. cuts = {lo}
        <5>1. \A e \in cuts : e = lo
          BY <3>1
        <5> QED
          BY <5>1
      <4>2. Cardinality(cuts) = 1
        BY <4>1, FS_Singleton
      <4> QED
        BY <1>6, <1>a, <4>2
    <3> QED
      BY <3>1
  <2>6. IsFiniteSet({lo, hi}) /\ Cardinality({lo, hi}) = 2 /\ cuts \cap {lo, hi} = {lo, hi}
    <3>1. Cardinality({lo} \cup {hi}) = Cardinality({lo}) + 1 /\ IsFiniteSet({lo} \cup {hi})
      BY <2>5, FS_Singleton, FS_AddElement
    <3>2. {lo} \cup {hi} = {lo, hi} /\ Cardinality({lo}) = 1
      BY FS_Singleton
    <3> QED
      BY <3>1, <3>2
  <2>7. IsFiniteSet(cuts \ {lo, hi}) /\ Cardinality(cuts \ {lo, hi}) = n - 2
    BY <1>3, <1>a, <2>6, FS_Difference
  <2>8. n = 2 => cuts \ {lo, hi} = {}
    BY <2>7, FS_EmptySet
  <2>9. n >= 3 => cuts \ {lo, hi} # {}
    <3>1. ASSUME n >= 3, cuts \ {lo, hi} = {} PROVE FALSE
      <4>1. n - 2 = 0
        BY <2>7, <3>1, FS_EmptySet
      <4> QED
        BY <1>3, <3>1, <4>1
    <3> QED
      BY <3>1
  <2>10. \A e \in cuts \ {lo, hi} : e \in lo..hi /\ lo < e /\ e < hi
    BY <1>1
  <2>11. n # 1
    BY <1>3, <1>6
  <2> QED
    BY <1>1, <1>3, <1>4, <2>4, <2>7, <2>8, <2>9, <2>10, <2>11
<1> QED
  BY <1>3, <1>4, <1>5, <1>6

\* The inner edges lie between the first and the last value of the baseline: strictly, and
\* there are some, with three quantiles or more; none with two; the value itself with one.
LEMMA InnerEdges ==
  ASSUME NEW base \in Samples
  PROVE  LET n == Cardinality(Cuts(base))
             lo == NumBuckets * base[1]
             hi == NumBuckets * base[Len(base)]
             inner == Edges(base).inner
         IN  /\ n \in Nat \ {0} /\ lo \in Nat /\ hi \in Nat
             /\ IsFiniteSet(inner) /\ inner \subseteq lo..hi
             /\ n = 1 => lo = hi /\ inner = {lo}
             /\ n = 2 => inner = {}
             /\ n >= 3 => inner # {} /\ \A e \in inner : lo < e /\ e < hi
<1> DEFINE cuts == Cuts(base)
           lo == NumBuckets * base[1]
           hi == NumBuckets * base[Len(base)]
<1>1. NumBuckets \in Nat \ {0} /\ lo \in Nat /\ hi \in Nat
  <2>1. base[1] \in Nat /\ base[Len(base)] \in Nat
    BY QuantileBetween
  <2> QED
    BY <2>1, PsiAssumption
<1>2. cuts \subseteq lo..hi /\ lo \in cuts /\ hi \in cuts
  <2>1. 0 \in 0..NumBuckets /\ NumBuckets \in 0..NumBuckets
    BY <1>1
  <2> QED
    BY <2>1, QuantileBetween DEF Cuts
<1>3. Edges(base).inner = Inner(cuts)
  BY DEF Edges, Inner
<1>4. cuts \in SUBSET (lo..hi)
  BY <1>2
<1> HIDE DEF cuts, lo, hi
<1> QED
  BY <1>1, <1>2, <1>3, <1>4, InnerCuts DEF cuts, lo, hi

\* Every value live traffic can have falls into a bucket and inside the outer edges,
\* the infinite ones and the ones that stand for them.
LEMMA FallsIntoABucket ==
  ASSUME NEW base \in Samples, NEW v \in 0..MaxValue
  PROVE  /\ Cardinality(Edges(base).inner) \in Nat
         /\ Bucket(v, Edges(base)) \in 0..Cardinality(Edges(base).inner)
         /\ Inside(v, Edges(base))
         /\ Inside(v, Finite(Edges(base)))
<1> DEFINE below == {e \in Edges(base).inner : e <= NumBuckets * v}
<1>1. below \subseteq Edges(base).inner /\ IsFiniteSet(Edges(base).inner)
  BY InnerEdges
<1>2. /\ Cardinality(below) \in Nat /\ Cardinality(Edges(base).inner) \in Nat
      /\ Cardinality(below) <= Cardinality(Edges(base).inner)
  BY <1>1, FS_Subset, FS_CardinalityType
<1>3. Bucket(v, Edges(base)) \in 0..Cardinality(Edges(base).inner)
  BY <1>2 DEF Bucket
<1>4. NumBuckets * v \in Nat /\ NumBuckets * v < Big /\ Big \in Nat
  <2>1. NumBuckets \in Nat \ {0} /\ MaxValue \in Nat /\ v \in Nat /\ v <= MaxValue
    BY PsiAssumption
  <2>2. v * NumBuckets <= MaxValue * NumBuckets
    BY <2>1, Scaled
  <2>3. Big = (MaxValue * NumBuckets) + (2 * NumBuckets) /\ MaxValue * NumBuckets \in Nat
    BY <2>1 DEF Big
  <2> QED
    BY <2>1, <2>2, <2>3
<1>5. Edges(base).outer = {}
  BY DEF Edges
<1>6. Finite(Edges(base)).outer = {-Big, Big}
  BY <1>5 DEF Finite, Edges
<1>7. Inside(v, Finite(Edges(base)))
  <2>1. -Big <= NumBuckets * v /\ NumBuckets * v <= Big
    BY <1>4
  <2> QED
    BY <1>6, <2>1 DEF Inside
<1> QED
  BY <1>2, <1>3, <1>5, <1>7 DEF Inside

\* How many rows of a sample fall into a bucket.
InBucket(s, n, edges, b) == Cardinality({i \in 1..n : Bucket(s[i], edges) = b})

\* So the counts of a sample are those of its rows in each bucket, whichever of the
\* edges are used, and add up to its rows.
LEMMA CountsAddUp ==
  ASSUME NEW base \in Samples, NEW n \in Nat, NEW s \in [1..n -> 0..MaxValue]
  PROVE  /\ Counts(s, Edges(base)) =
              [b \in Buckets(base) |-> InBucket(s, n, Edges(base), b)]
         /\ Counts(s, Finite(Edges(base))) = Counts(s, Edges(base))
         /\ Total(Counts(s, Edges(base))) = n
<1> DEFINE D == Buckets(base)
           b == [i \in 1..n |-> Bucket(s[i], Edges(base))]
<1>1. \A i \in 1..n : /\ Bucket(s[i], Edges(base)) \in D
                      /\ Inside(s[i], Edges(base))
                      /\ Inside(s[i], Finite(Edges(base)))
  BY FallsIntoABucket DEF Buckets
<1>2. DOMAIN s = 1..n
  OBVIOUS
<1>3. Finite(Edges(base)).inner = Edges(base).inner
  BY DEF Finite, Edges
<1>4. \A v : Bucket(v, Finite(Edges(base))) = Bucket(v, Edges(base))
  BY <1>3 DEF Bucket
<1>5. ASSUME NEW d
      PROVE  /\ {i \in DOMAIN s : Bucket(s[i], Edges(base)) = d /\ Inside(s[i], Edges(base))}
                  = {i \in 1..n : Bucket(s[i], Edges(base)) = d}
             /\ {i \in DOMAIN s : Bucket(s[i], Finite(Edges(base))) = d
                                  /\ Inside(s[i], Finite(Edges(base)))}
                  = {i \in 1..n : Bucket(s[i], Edges(base)) = d}
  BY <1>1, <1>2, <1>4
<1>6. Counts(s, Edges(base)) = [d \in D |-> InBucket(s, n, Edges(base), d)]
  BY <1>5 DEF Counts, InBucket, Buckets
<1>7. Counts(s, Finite(Edges(base))) = [d \in D |-> InBucket(s, n, Edges(base), d)]
  BY <1>3, <1>5 DEF Counts, InBucket, Buckets
<1>8. Counts(s, Edges(base)) = Tally(1..n, D, b)
  <2>1. \A d \in D : {i \in 1..n : b[i] = d} = {i \in 1..n : Bucket(s[i], Edges(base)) = d}
    OBVIOUS
  <2> QED
    BY <1>6, <2>1 DEF Tally, InBucket
<1>9. IsFiniteSet(D) /\ IsFiniteSet(1..n) /\ Cardinality(1..n) = n
  <2>1. Cardinality(Edges(base).inner) \in Nat
    BY InnerEdges, FS_CardinalityType
  <2> QED
    BY <2>1, FS_Interval DEF Buckets
<1>10. b \in [1..n -> D]
  BY <1>1
<1>11. Total(Tally(1..n, D, b)) = n
  <2> HIDE DEF b, D
  <2> QED
    BY <1>9, <1>10, BucketsAddUp
<1> QED
  BY <1>6, <1>7, <1>8, <1>11

-----------------------------------------------------------------------------
(* When the index is zero, and when one term of it reaches the threshold.  *)

\* The positions of a sample are as many as its rows.
LEMMA CountUpTo == ASSUME NEW m \in Nat PROVE IsFiniteSet(1..m) /\ Cardinality(1..m) = m
  BY FS_Interval

LEMMA InBucketType ==
  ASSUME NEW s, NEW n \in Nat, NEW edges, NEW b
  PROVE  /\ IsFiniteSet({i \in 1..n : Bucket(s[i], edges) = b})
         /\ InBucket(s, n, edges, b) \in Nat
         /\ InBucket(s, n, edges, b) \in 0..n
<1>1. IsFiniteSet(1..n) /\ Cardinality(1..n) = n
  BY CountUpTo
<1>2. {i \in 1..n : Bucket(s[i], edges) = b} \subseteq 1..n
  OBVIOUS
<1> QED
  BY <1>1, <1>2, FS_Subset, FS_CardinalityType DEF InBucket

\* A probability is a positive fraction: the share of the bucket, but EPS at least.
LEMMA ProbIs ==
  ASSUME NEW count \in Nat, NEW total \in Nat \ {0}
  PROVE  LET p == Prob(count, total)
         IN  /\ p.num \in Nat \ {0} /\ p.den \in Nat \ {0} /\ p.den = total * EpsInv
             /\ p.num = Larger(count * EpsInv, total)
<1>1. EpsInv \in Nat \ {0, 1} /\ count * EpsInv \in Nat
  BY PsiAssumption
<1>2. total * EpsInv \in Nat \ {0}
  <2>1. \A x, y \in Nat \ {0} : x * y \in Nat \ {0}
    OBVIOUS
  <2> QED
    BY <1>1, <2>1
<1>3. Larger(count * EpsInv, total) \in Nat \ {0}
  BY <1>1 DEF Larger
<1>4. Prob(count, total) = [num |-> Larger(count * EpsInv, total), den |-> total * EpsInv]
  BY DEF Prob
<1> QED
  BY <1>2, <1>3, <1>4

\* The probabilities of a bucket, from the rows in it.
LEMMA SharesAre ==
  ASSUME NEW base \in Samples, NEW n \in Nat, NEW live \in [1..n -> 0..MaxValue],
         NEW b \in Buckets(base)
  PROVE  LET pb == Prob(InBucket(base, Len(base), Edges(base), b), Len(base))
             pl == Prob(InBucket(live, n, Edges(base), b), n)
         IN  Shares(b, base, live) =
               [base |-> pb.num * pl.den, live |-> pl.num * pb.den, of |-> pb.den * pl.den]
<1>1. Len(base) \in Nat /\ base \in [1..Len(base) -> 0..MaxValue]
  BY QuantileBetween
<1>2. /\ Counts(base, Edges(base))[b] = InBucket(base, Len(base), Edges(base), b)
      /\ Total(Counts(base, Edges(base))) = Len(base)
  BY <1>1, CountsAddUp
<1>3. /\ Counts(live, Edges(base))[b] = InBucket(live, n, Edges(base), b)
      /\ Total(Counts(live, Edges(base))) = n
  BY CountsAddUp
<1> QED
  BY <1>2, <1>3 DEF Shares

\* In the one bucket where all of the live rows are, and c of m rows of the baseline, the
\* probability is 1 for the live rows and less than 1 for the baseline if c is less than
\* m; if it is at most half of m, the term of this bucket reaches the threshold.
LEMMA AllInOne ==
  ASSUME NEW n \in Nat \ {0}, NEW m \in Nat \ {0}, NEW c \in 0..m
  PROVE  LET pb == Prob(c, m)
             pl == Prob(n, n)
             x == pl.num * pb.den
             y == pb.num * pl.den
         IN  /\ x \in Nat /\ y \in Nat /\ pb.den * pl.den = x
             /\ c = m => y = x
             /\ c < m => y # x
             /\ 2 * c <= m => 4 * ((x - y) * (x - y)) >= Larger(x, y) * x
<1> DEFINE pb == Prob(c, m)
           pl == Prob(n, n)
           k == pl.num
<1>1. EpsInv \in Nat \ {0, 1}
  BY PsiAssumption
<1>2. /\ pb.num \in Nat \ {0} /\ pb.den \in Nat \ {0} /\ pb.den = m * EpsInv
      /\ pb.num = Larger(c * EpsInv, m)
  BY ProbIs
<1>3. /\ k \in Nat \ {0} /\ pl.den = k
  <2>1. /\ pl.num \in Nat \ {0} /\ pl.den = n * EpsInv
        /\ pl.num = Larger(n * EpsInv, n)
    BY ProbIs
  <2>2. n * EpsInv \in Nat /\ 1 * n <= EpsInv * n
    <3>1. 1 <= EpsInv /\ 1 \in Nat
      BY <1>1
    <3> QED
      BY <1>1, <3>1, Scaled
  <2>3. n * EpsInv >= n
    <3>1. 1 * n = n /\ EpsInv * n = n * EpsInv
      BY <1>1
    <3> QED
      BY <2>2, <3>1
  <2>4. Larger(n * EpsInv, n) = n * EpsInv
    BY <2>2, <2>3 DEF Larger
  <2> QED
    BY <2>1, <2>4
<1> DEFINE p == pb.num
           d == pb.den
<1>4. c = m => p = d
  <2> HAVE c = m
  <2>1. m * EpsInv \in Nat /\ m * EpsInv >= m
    <3>1. 1 \in Nat /\ 1 <= EpsInv
      BY <1>1
    <3>2. 1 * m <= EpsInv * m
      BY <1>1, <3>1, Scaled
    <3>3. 1 * m = m /\ EpsInv * m = m * EpsInv
      BY <1>1
    <3> QED
      BY <1>1, <3>2, <3>3
  <2>2. Larger(m * EpsInv, m) = m * EpsInv
    BY <2>1 DEF Larger
  <2> QED
    BY <1>2, <2>2
<1>5. 2 * m <= d
  <2>1. 2 \in Nat /\ 2 <= EpsInv
    BY <1>1
  <2>2. 2 * m <= EpsInv * m
    BY <1>1, <2>1, Scaled
  <2>3. EpsInv * m = m * EpsInv
    BY <1>1
  <2> QED
    BY <1>2, <2>2, <2>3
<1>6. c < m => p < d
  <2> HAVE c < m
  <2>1. (c + 1) * EpsInv <= m * EpsInv
    <3>1. c + 1 \in Nat /\ c + 1 <= m
      OBVIOUS
    <3> QED
      BY <1>1, <3>1, Scaled
  <2>2. (c + 1) * EpsInv = c * EpsInv + EpsInv /\ c * EpsInv \in Nat
    BY <1>1
  <2>3. c * EpsInv < d
    BY <1>1, <1>2, <2>1, <2>2
  <2>4. m < d
    BY <1>2, <1>5
  <2> QED
    BY <1>2, <2>3, <2>4 DEF Larger
<1>7. 2 * c <= m => 2 * p <= d
  <2> HAVE 2 * c <= m
  <2>1. (2 * c) * EpsInv <= m * EpsInv
    <3>1. 2 * c \in Nat
      OBVIOUS
    <3> QED
      BY <1>1, <3>1, Scaled
  <2>2. (2 * c) * EpsInv = 2 * (c * EpsInv) /\ c * EpsInv \in Nat
    BY <1>1
  <2> QED
    BY <1>2, <1>5, <2>1, <2>2 DEF Larger
<1> DEFINE x == k * d
           y == p * k
<1> SUFFICES /\ x \in Nat /\ y \in Nat /\ d * k = x
             /\ c = m => y = x
             /\ c < m => y # x
             /\ 2 * c <= m => 4 * ((x - y) * (x - y)) >= Larger(x, y) * x
  BY <1>3
<1>8. p \in Nat /\ d \in Nat \ {0} /\ k \in Nat \ {0}
  BY <1>2, <1>3
<1> HIDE DEF pb, pl, k, p, d
<1>9. x \in Nat /\ y \in Nat /\ d * k = x
  BY <1>8
<1>10. c = m => y = x
  BY <1>4, <1>8
<1>11. p < d => y < x
  <2> HAVE p < d
  <2>1. p + 1 \in Nat /\ p + 1 <= d
    BY <1>8
  <2>2. (p + 1) * k <= d * k
    BY <1>8, <2>1, Scaled
  <2>3. (p + 1) * k = p * k + k /\ p * k \in Nat /\ d * k = k * d /\ d * k \in Nat
    BY <1>8
  <2> QED
    BY <1>8, <2>2, <2>3
<1>12. 2 * p <= d => 2 * y <= x
  <2> HAVE 2 * p <= d
  <2>1. 2 * p \in Nat
    BY <1>8
  <2>2. (2 * p) * k <= d * k
    BY <1>8, <2>1, Scaled
  <2>3. (2 * p) * k = 2 * (p * k) /\ d * k = k * d
    BY <1>8
  <2> QED
    BY <2>2, <2>3
<1> HIDE DEF x, y
<1>13. 2 * y <= x => 4 * ((x - y) * (x - y)) >= Larger(x, y) * x
  <2> HAVE 2 * y <= x
  <2> DEFINE z == 2 * (x - y)
  <2>1. z \in Nat /\ x <= z /\ x - y \in Nat
    BY <1>9
  <2>2. Larger(x, y) = x
    BY <1>9 DEF Larger
  <2>3. 4 * ((x - y) * (x - y)) = z * z
    BY <2>1
  <2> HIDE DEF z
  <2>4. x * x <= z * x /\ x * z <= z * z /\ x * x \in Nat /\ z * z \in Nat /\ z * x \in Nat
    BY <1>9, <2>1, Scaled
  <2>5. z * x = x * z
    BY <1>9, <2>1
  <2>6. x * x <= z * z
    BY <2>4, <2>5
  <2> QED
    BY <2>2, <2>3, <2>4, <2>6
<1> QED
  BY <1>6, <1>7, <1>9, <1>10, <1>11, <1>12, <1>13

\* All of the live rows are in one bucket and a row of the baseline is in another: the
\* traffic shows.
LEMMA ElsewhereShows ==
  ASSUME NEW base \in Samples, NEW n \in Nat \ {0}, NEW live \in [1..n -> 0..MaxValue],
         NEW p \in Buckets(base), \A i \in 1..n : Bucket(live[i], Edges(base)) = p,
         NEW j \in 1..Len(base), Bucket(base[j], Edges(base)) # p
  PROVE  ShowsIn(p, base, live)
<1> DEFINE m == Len(base)
           c == InBucket(base, m, Edges(base), p)
           s == Shares(p, base, live)
           x == Prob(n, n).num * Prob(c, m).den
           y == Prob(c, m).num * Prob(n, n).den
<1>1. m \in Nat \ {0} /\ base \in [1..m -> 0..MaxValue]
  BY QuantileBetween
<1>2. InBucket(live, n, Edges(base), p) = n
  <2>1. {i \in 1..n : Bucket(live[i], Edges(base)) = p} = 1..n
    OBVIOUS
  <2> QED
    BY <2>1, CountUpTo DEF InBucket
<1>3. c \in 0..m /\ c < m
  <2> DEFINE B == {i \in 1..m : Bucket(base[i], Edges(base)) = p}
  <2>1. c \in 0..m
    BY <1>1, InBucketType
  <2>2. B \subseteq 1..m /\ B # 1..m
    OBVIOUS
  <2>3. IsFiniteSet(1..m) /\ Cardinality(1..m) = m
    BY <1>1, CountUpTo
  <2>4. c = Cardinality(B)
    BY DEF InBucket
  <2> HIDE DEF B, c, m
  <2>5. Cardinality(B) # m
    BY <2>2, <2>3, FS_Subset
  <2> QED
    BY <1>1, <2>1, <2>4, <2>5
<1>4. Counts(base, Edges(base))[p] = c
  BY <1>1, CountsAddUp
<1>5. s = [base |-> y, live |-> x, of |-> Prob(c, m).den * Prob(n, n).den]
  BY <1>2, SharesAre
<1> HIDE DEF c, m
<1>6. /\ Prob(c, m).den * Prob(n, n).den = x
      /\ y # x
      /\ 2 * c <= m => 4 * ((x - y) * (x - y)) >= Larger(x, y) * x
  BY <1>1, <1>3, AllInOne
<1>7. s.base = y /\ s.live = x /\ s.of = x
  BY <1>5, <1>6
<1> HIDE DEF s, x, y
<1>8. ~PsiIsZero(base, live)
  BY <1>6, <1>7 DEF PsiIsZero, s
<1>9. 2 * c <= m => DriftDetected(base, live)
  BY <1>6, <1>7 DEF DriftDetected, s
<1> QED
  BY <1>4, <1>8, <1>9 DEF ShowsIn, m

\* Two samples that are both in one bucket have the index zero.
LEMMA TogetherIsZero ==
  ASSUME NEW base \in Samples, NEW n \in Nat \ {0}, NEW live \in [1..n -> 0..MaxValue], NEW p,
         \A i \in 1..n : Bucket(live[i], Edges(base)) = p,
         \A i \in 1..Len(base) : Bucket(base[i], Edges(base)) = p
  PROVE  PsiIsZero(base, live)
<1> DEFINE m == Len(base)
<1>1. m \in Nat \ {0}
  BY QuantileBetween
<1>2. ASSUME NEW b \in Buckets(base)
      PROVE  LET s == Shares(b, base, live) IN s.base = s.live
  <2> DEFINE B == {i \in 1..m : Bucket(base[i], Edges(base)) = b}
             L == {i \in 1..n : Bucket(live[i], Edges(base)) = b}
             c == InBucket(base, m, Edges(base), b)
             l == InBucket(live, n, Edges(base), b)
             s == Shares(b, base, live)
  <2>1. s = [base |-> Prob(c, m).num * Prob(l, n).den, live |-> Prob(l, n).num * Prob(c, m).den,
             of |-> Prob(c, m).den * Prob(l, n).den]
    BY SharesAre
  <2>2. CASE b = p
    <3>1. B = 1..m /\ L = 1..n
      BY <2>2
    <3>2. c = m /\ l = n
      BY <1>1, <3>1, CountUpTo DEF InBucket
    <3>3. Prob(m, m).num * Prob(n, n).den = Prob(n, n).num * Prob(m, m).den
      <4>1. m \in 0..m
        BY <1>1
      <4> HIDE DEF m
      <4> QED
        BY <1>1, <4>1, AllInOne
    <3> HIDE DEF c, l, m
    <3> QED
      BY <2>1, <3>2, <3>3
  <2>3. CASE b # p
    <3>1. B = {} /\ L = {}
      BY <2>3
    <3>2. c = 0 /\ l = 0
      BY <3>1, FS_EmptySet DEF InBucket
    <3> HIDE DEF c, l, m
    <3>3. /\ Prob(0, m).num = m /\ Prob(0, m).den = m * EpsInv
          /\ Prob(0, n).num = n /\ Prob(0, n).den = n * EpsInv
      <4>1. 0 * EpsInv = 0 /\ 0 \in Nat
        BY PsiAssumption
      <4>2. Larger(0, m) = m /\ Larger(0, n) = n
        BY <1>1 DEF Larger
      <4> QED
        BY <1>1, <4>1, <4>2, ProbIs
    <3>4. m * (n * EpsInv) = n * (m * EpsInv)
      BY <1>1, PsiAssumption
    <3> QED
      BY <2>1, <3>2, <3>3, <3>4
  <2> QED
    BY <2>2, <2>3
<1> QED
  BY <1>2 DEF PsiIsZero

\* Each position of a sample has two in the sample doubled.
LEMMA Doubled ==
  ASSUME NEW n \in Nat, NEW S \in SUBSET (1..n)
  PROVE  Cardinality({i \in 1..(2 * n) : (i + 1) \div 2 \in S}) = 2 * Cardinality(S)
<1> DEFINE Odd == {i \in 1..(2 * n) : i % 2 = 1 /\ (i + 1) \div 2 \in S}
           Even == {i \in 1..(2 * n) : i % 2 = 0 /\ (i + 1) \div 2 \in S}
           odd == [j \in S |-> 2 * j - 1]
           even == [j \in S |-> 2 * j]
           Both == {i \in 1..(2 * n) : (i + 1) \div 2 \in S}
<1>1. IsFiniteSet(S) /\ Cardinality(S) \in Nat
  <2>1. IsFiniteSet(1..n)
    BY FS_Interval
  <2> QED
    BY <2>1, FS_Subset, FS_CardinalityType
<1>2. odd \in Bijection(S, Odd)
  <2>1. ASSUME NEW j \in S PROVE 2 * j - 1 \in Odd
    OBVIOUS
  <2>2. ASSUME NEW i \in Odd PROVE (i + 1) \div 2 \in S /\ 2 * ((i + 1) \div 2) - 1 = i
    OBVIOUS
  <2>3. \A j, k \in S : 2 * j - 1 = 2 * k - 1 => j = k
    OBVIOUS
  <2>4. odd \in [S -> Odd]
    BY <2>1
  <2>5. \A i \in Odd : \E j \in S : odd[j] = i
    BY <2>2
  <2>6. \A j, k \in S : odd[j] = odd[k] => j = k
    BY <2>3
  <2> HIDE DEF odd, Odd
  <2> QED
    BY <2>4, <2>5, <2>6 DEF Bijection, Injection, Surjection, IsInjective
<1>3. even \in Bijection(S, Even)
  <2>1. ASSUME NEW j \in S PROVE 2 * j \in Even
    OBVIOUS
  <2>2. ASSUME NEW i \in Even PROVE (i + 1) \div 2 \in S /\ 2 * ((i + 1) \div 2) = i
    OBVIOUS
  <2>3. \A j, k \in S : 2 * j = 2 * k => j = k
    OBVIOUS
  <2>4. even \in [S -> Even]
    BY <2>1
  <2>5. \A i \in Even : \E j \in S : even[j] = i
    BY <2>2
  <2>6. \A j, k \in S : even[j] = even[k] => j = k
    BY <2>3
  <2> HIDE DEF even, Even
  <2> QED
    BY <2>4, <2>5, <2>6 DEF Bijection, Injection, Surjection, IsInjective
<1>4. /\ Both = Odd \cup Even
      /\ Odd \cap Even = {}
  <2>1. \A i \in 1..(2 * n) : i % 2 = 0 \/ i % 2 = 1
    OBVIOUS
  <2> QED
    BY <2>1
<1> HIDE DEF Odd, Even, Both, odd, even
<1>5. IsFiniteSet(Odd) /\ Cardinality(Odd) = Cardinality(S)
  BY <1>1, <1>2, FS_Bijection DEF ExistsBijection
<1>6. IsFiniteSet(Even) /\ Cardinality(Even) = Cardinality(S)
  BY <1>1, <1>3, FS_Bijection DEF ExistsBijection
<1>7. Cardinality(Odd \cup Even) = Cardinality(Odd) + Cardinality(Even) - Cardinality(Odd \cap Even)
  BY <1>5, <1>6, FS_Union
<1>8. Cardinality(Odd \cap Even) = 0
  BY <1>4, FS_EmptySet
<1>9. Cardinality(Both) = 2 * Cardinality(S)
  BY <1>1, <1>4, <1>5, <1>6, <1>7, <1>8
<1> QED
  BY <1>9 DEF Both

\* The bucket of a value at or beyond an end of the baseline, by the number of quantiles.
LEMMA BucketAtTheEnds ==
  ASSUME NEW base \in Samples, NEW v \in 0..MaxValue
  PROVE  LET n == Cardinality(Cuts(base))
             last == Cardinality(Edges(base).inner)
             bucket == Bucket(v, Edges(base))
         IN  /\ n >= 3 => last # 0
             /\ n >= 3 /\ v <= base[1] => bucket = 0
             /\ n >= 3 /\ v >= base[Len(base)] => bucket = last
             /\ n = 2 => bucket = 0
             /\ n = 1 /\ v < base[1] => bucket = 0
             /\ n = 1 /\ v >= base[1] => bucket = 1
<1> DEFINE n == Cardinality(Cuts(base))
           lo == NumBuckets * base[1]
           hi == NumBuckets * base[Len(base)]
           inner == Edges(base).inner
           below == {e \in inner : e <= NumBuckets * v}
<1>1. Bucket(v, Edges(base)) = Cardinality(below)
  BY DEF Bucket
<1>2. /\ n \in Nat \ {0} /\ lo \in Nat /\ hi \in Nat
      /\ IsFiniteSet(inner) /\ inner \subseteq lo..hi
      /\ n = 1 => lo = hi /\ inner = {lo}
      /\ n = 2 => inner = {}
      /\ n >= 3 => inner # {} /\ \A e \in inner : lo < e /\ e < hi
  BY InnerEdges
<1>3. /\ v <= base[1] => NumBuckets * v <= lo
      /\ v < base[1] => NumBuckets * v < lo
      /\ v >= base[1] => lo <= NumBuckets * v
      /\ v >= base[Len(base)] => hi <= NumBuckets * v
      /\ NumBuckets * v \in Nat
  <2>1. base[1] \in Nat /\ base[Len(base)] \in Nat /\ v \in Nat /\ NumBuckets \in Nat \ {0}
    BY QuantileBetween, PsiAssumption
  <2>2. \A x, y \in Nat : x <= y => NumBuckets * x \in Nat /\ NumBuckets * y \in Nat
                                    /\ NumBuckets * x <= NumBuckets * y
    <3> TAKE x, y \in Nat
    <3>1. x <= y => x * NumBuckets <= y * NumBuckets
      BY <2>1, Scaled
    <3> QED
      BY <2>1, <3>1
  <2>3. v < base[1] => NumBuckets * v < lo
    <3> HAVE v < base[1]
    <3>1. NumBuckets * (v + 1) <= NumBuckets * base[1]
      BY <2>1, <2>2
    <3>2. NumBuckets * (v + 1) = NumBuckets * v + NumBuckets
      BY <2>1
    <3>3. NumBuckets * v \in Nat /\ NumBuckets * base[1] \in Nat
      BY <2>1
    <3> QED
      BY <2>1, <3>1, <3>2, <3>3
  <2>4. NumBuckets * v \in Nat
    BY <2>1
  <2> QED
    BY <2>1, <2>2, <2>3, <2>4
<1> HIDE DEF n, lo, hi, inner
<1>4. ASSUME \A e \in inner : ~(e <= NumBuckets * v) PROVE Cardinality(below) = 0
  BY <1>4, FS_EmptySet
<1>5. ASSUME n >= 3, v <= base[1] PROVE Cardinality(below) = 0
  <2>1. \A e \in inner : e \in Int /\ lo < e
    BY <1>2, <1>5
  <2> QED
    BY <1>2, <1>3, <1>4, <1>5, <2>1
<1>6. ASSUME n >= 3, v >= base[Len(base)] PROVE Cardinality(below) = Cardinality(inner)
  <2>1. \A e \in inner : e \in Int /\ e < hi
    BY <1>2, <1>6
  <2> DEFINE w == NumBuckets * v
  <2>2. below = {e \in inner : e <= w} /\ w \in Nat /\ hi <= w /\ hi \in Nat
    BY <1>2, <1>3, <1>6
  <2> HIDE DEF below, w
  <2>3. \A e \in inner : e <= w
    BY <2>1, <2>2
  <2>4. below = inner
    BY <2>2, <2>3
  <2> QED
    BY <2>4
<1>10. n >= 3 => Cardinality(inner) # 0
  BY <1>2, FS_EmptySet
<1>7. ASSUME n = 2 PROVE Cardinality(below) = 0
  BY <1>2, <1>4, <1>7
<1>8. ASSUME n = 1, v < base[1] PROVE Cardinality(below) = 0
  BY <1>2, <1>3, <1>4, <1>8
<1>9. ASSUME n = 1, v >= base[1] PROVE Cardinality(below) = 1
  <2>1. below = {lo}
    BY <1>2, <1>3, <1>9
  <2> QED
    BY <2>1, FS_Singleton
<1> QED
  BY <1>1, <1>5, <1>6, <1>7, <1>8, <1>9, <1>10 DEF n, inner

\* Every value of live traffic is counted, however far it is from all the baseline had,
\* and alike with computed and with stored edges (_quantile_edges, _finite, _bucket_probs).
THEOREM CountsEveryValue == EveryValueCounted
<1>1. ASSUME NEW base \in Samples, NEW live \in Samples
      PROVE  /\ Total(Counts(live, Edges(base))) = Len(live)
             /\ Counts(live, Finite(Edges(base))) = Counts(live, Edges(base))
  BY QuantileBetween, CountsAddUp
<1> QED
  BY <1>1 DEF EveryValueCounted

\* No probability is zero, so every term of the index is a number (_bucket_probs, psi).
THEOREM PsiAlwaysFinite == PsiIsFinite
<1>1. ASSUME NEW base \in Samples, NEW live \in Samples, NEW b \in Buckets(base)
      PROVE  LET s == Shares(b, base, live) IN s.base > 0 /\ s.live > 0
  <2> DEFINE c == InBucket(base, Len(base), Edges(base), b)
             l == InBucket(live, Len(live), Edges(base), b)
             s == Shares(b, base, live)
  <2>1. /\ Len(base) \in Nat \ {0}
        /\ Len(live) \in Nat \ {0} /\ live \in [1..Len(live) -> 0..MaxValue]
    BY QuantileBetween
  <2>2. c \in Nat /\ l \in Nat
    BY <2>1, InBucketType
  <2>3. s = [base |-> Prob(c, Len(base)).num * Prob(l, Len(live)).den,
             live |-> Prob(l, Len(live)).num * Prob(c, Len(base)).den,
             of |-> Prob(c, Len(base)).den * Prob(l, Len(live)).den]
    BY <2>1, SharesAre
  <2> HIDE DEF c, l
  <2>4. /\ Prob(c, Len(base)).num \in Nat \ {0} /\ Prob(c, Len(base)).den \in Nat \ {0}
        /\ Prob(l, Len(live)).num \in Nat \ {0} /\ Prob(l, Len(live)).den \in Nat \ {0}
    BY <2>1, <2>2, ProbIs
  <2>5. \A x, y \in Nat \ {0} : x * y > 0
    OBVIOUS
  <2> QED
    BY <2>3, <2>4, <2>5
<1> QED
  BY <1>1 DEF PsiIsFinite

\* Traffic that is the baseline, once or twice over, has the index zero (_bucket_probs, psi).
THEOREM BaselineIsNoDrift == SameIsNoDrift
<1>1. ASSUME NEW base \in Samples,
             NEW twice, twice = [i \in 1..(2 * Len(base)) |-> base[(i + 1) \div 2]]
      PROVE  PsiIsZero(base, base) /\ PsiIsZero(base, twice)
  <2> DEFINE n == Len(base)
  <2>1. n \in Nat \ {0} /\ base \in [1..n -> 0..MaxValue]
    BY QuantileBetween
  <2>2. \A b \in Buckets(base) : Shares(b, base, base).base = Shares(b, base, base).live
    BY <2>1, SharesAre
  <2>3. twice = [i \in 1..(2 * n) |-> base[(i + 1) \div 2]]
    BY <1>1
  <2> HIDE DEF n
  <2>4. \A i \in 1..(2 * n) : (i + 1) \div 2 \in 1..n
    BY <2>1
  <2>5. twice \in [1..(2 * n) -> 0..MaxValue] /\ 2 * n \in Nat \ {0}
    BY <2>1, <2>3, <2>4
  <2>6. ASSUME NEW b \in Buckets(base)
        PROVE  Shares(b, base, twice).base = Shares(b, base, twice).live
    <3> DEFINE S == {j \in 1..n : Bucket(base[j], Edges(base)) = b}
               T == {i \in 1..(2 * n) : Bucket(twice[i], Edges(base)) = b}
               c == InBucket(base, n, Edges(base), b)
    <3>1. T = {i \in 1..(2 * n) : (i + 1) \div 2 \in S}
      BY <2>3, <2>4
    <3>2. Cardinality(T) = 2 * Cardinality(S)
      <4>1. S \in SUBSET (1..n)
        OBVIOUS
      <4> HIDE DEF S, T
      <4> QED
        BY <2>1, <3>1, <4>1, Doubled
    <3>3. InBucket(twice, 2 * n, Edges(base), b) = 2 * c
      BY <3>2 DEF InBucket
    <3>4. c \in Nat
      BY <2>1, InBucketType
    <3> HIDE DEF c
    <3>5. Shares(b, base, twice) =
            [base |-> Prob(c, n).num * Prob(2 * c, 2 * n).den,
             live |-> Prob(2 * c, 2 * n).num * Prob(c, n).den,
             of |-> Prob(c, n).den * Prob(2 * c, 2 * n).den]
      BY <2>5, <3>3, SharesAre DEF n, c
    <3>6. /\ Prob(c, n).num = Larger(c * EpsInv, n) /\ Prob(c, n).den = n * EpsInv
          /\ Prob(2 * c, 2 * n).num = Larger((2 * c) * EpsInv, 2 * n)
          /\ Prob(2 * c, 2 * n).den = (2 * n) * EpsInv
      <4>1. 2 * c \in Nat
        BY <3>4
      <4> QED
        BY <2>1, <2>5, <3>4, <4>1, ProbIs
    <3>7. Larger((2 * c) * EpsInv, 2 * n) = 2 * Larger(c * EpsInv, n)
          /\ Larger(c * EpsInv, n) \in Nat
      <4>1. (2 * c) * EpsInv = 2 * (c * EpsInv) /\ c * EpsInv \in Nat
        BY <3>4, PsiAssumption
      <4> QED
        BY <2>1, <4>1 DEF Larger
    <3>8. \A x \in Nat : x * ((2 * n) * EpsInv) = (2 * x) * (n * EpsInv)
      BY <2>1, PsiAssumption
    <3> QED
      BY <3>5, <3>6, <3>7, <3>8
  <2> QED
    BY <2>2, <2>6 DEF PsiIsZero
<1> QED
  BY <1>1 DEF SameIsNoDrift

\* Traffic beyond the range of the baseline: where it shows, where it is certain to be
\* drift, and where the index is zero (_quantile_edges, psi, check_drift).
THEOREM SeesOutOfRange == OutOfRange
<1>1. ASSUME NEW base \in Samples, NEW live \in Samples
      PROVE  LET n == Cardinality(Cuts(base))
                 last == Cardinality(Edges(base).inner)
             IN  /\ Above(live, base) => IF n >= 3 THEN ShowsIn(last, base, live)
                                         ELSE PsiIsZero(base, live)
                 /\ Below(live, base) => IF n # 2 THEN ShowsIn(0, base, live)
                                         ELSE PsiIsZero(base, live)
  <2> DEFINE n == Cardinality(Cuts(base))
             last == Cardinality(Edges(base).inner)
             m == Len(base)
             k == Len(live)
             B(v) == Bucket(v, Edges(base))
  <2>1. n \in Nat \ {0} /\ last \in Nat
    BY InnerEdges, FS_CardinalityType
  <2>2. m \in Nat \ {0} /\ base \in [1..m -> 0..MaxValue]
        /\ \A i \in 1..m : base[1] <= base[i] /\ base[i] <= base[m]
    BY QuantileBetween
  <2>3. k \in Nat \ {0} /\ live \in [1..k -> 0..MaxValue]
        /\ \A i \in 1..k : live[1] <= live[i] /\ live[i] <= live[k]
    BY QuantileBetween
  <2>4. MaxValue \in Nat /\ 1 \in 1..m /\ m \in 1..m /\ 1 \in 1..k /\ k \in 1..k
    BY <2>2, <2>3, PsiAssumption
  <2>5. base[1] \in 0..MaxValue /\ base[m] \in 0..MaxValue
    BY <2>2, <2>4
  <2>6. \A v \in 0..MaxValue :
          /\ n >= 3 => last # 0
          /\ n >= 3 /\ v <= base[1] => B(v) = 0
          /\ n >= 3 /\ v >= base[m] => B(v) = last
          /\ n = 2 => B(v) = 0
          /\ n = 1 /\ v < base[1] => B(v) = 0
          /\ n = 1 /\ v >= base[1] => B(v) = 1
    BY BucketAtTheEnds
  <2>7. 0 \in Buckets(base) /\ last \in Buckets(base)
    BY <2>1 DEF Buckets
  <2>8. ASSUME NEW i \in 1..k, Above(live, base)
        PROVE  live[i] \in 0..MaxValue /\ live[i] >= base[m] /\ live[i] >= base[1]
    <3>1. live[1] \in Int /\ live[i] \in Int /\ live[1] <= live[i] /\ live[1] > base[m]
      BY <2>3, <2>4, <2>8 DEF Above
    <3> QED
      BY <2>2, <2>3, <2>4, <2>5, <3>1
  <2>9. ASSUME NEW i \in 1..k, Below(live, base)
        PROVE  live[i] \in 0..MaxValue /\ live[i] < base[1] /\ live[i] <= base[1]
    <3>1. live[k] \in Int /\ live[i] \in Int /\ live[i] <= live[k] /\ live[k] < base[1]
      BY <2>3, <2>4, <2>9 DEF Below
    <3> QED
      BY <2>3, <2>5, <3>1
  <2>10. \A i \in 1..m : base[i] \in 0..MaxValue /\ base[i] >= base[1]
    BY <2>2, <2>4
  <2> HIDE DEF n, last
  <2>11. ASSUME Above(live, base), n >= 3 PROVE ShowsIn(last, base, live)
    <3>1. \A i \in 1..k : B(live[i]) = last
      BY <2>6, <2>8, <2>11
    <3>2. B(base[1]) # last
      <4>1. base[1] <= base[1]
        BY <2>5
      <4> QED
        BY <2>5, <2>6, <2>11, <4>1
    <3> QED
      BY <2>3, <2>4, <2>7, <3>1, <3>2, ElsewhereShows
  <2>12. ASSUME Below(live, base), n # 2 PROVE ShowsIn(0, base, live)
    <3>1. \A i \in 1..k : B(live[i]) = 0
      <4>1. n = 1 \/ n >= 3
        BY <2>1, <2>12
      <4> QED
        BY <2>6, <2>9, <2>12, <4>1
    <3>2. B(base[m]) # 0
      <4>1. base[m] >= base[m] /\ base[m] >= base[1]
        BY <2>4, <2>5, <2>10
      <4>2. CASE n >= 3
        BY <2>5, <2>6, <4>1, <4>2
      <4>3. CASE n = 1
        BY <2>5, <2>6, <4>1, <4>3
      <4> QED
        BY <2>1, <2>12, <4>2, <4>3
    <3> QED
      BY <2>3, <2>4, <2>7, <3>1, <3>2, ElsewhereShows
  <2>13. ASSUME Above(live, base), ~(n >= 3) PROVE PsiIsZero(base, live)
    <3>1. CASE n = 2
      <4>1. /\ \A i \in 1..k : B(live[i]) = 0
            /\ \A i \in 1..m : B(base[i]) = 0
        BY <2>6, <2>8, <2>10, <2>13, <3>1
      <4> QED
        BY <2>3, <4>1, TogetherIsZero
    <3>2. CASE n = 1
      <4>1. /\ \A i \in 1..k : B(live[i]) = 1
            /\ \A i \in 1..m : B(base[i]) = 1
        BY <2>6, <2>8, <2>10, <2>13, <3>2
      <4> QED
        BY <2>3, <4>1, TogetherIsZero
    <3> QED
      BY <2>1, <2>13, <3>1, <3>2
  <2>14. ASSUME Below(live, base), n = 2 PROVE PsiIsZero(base, live)
    <3>1. /\ \A i \in 1..k : B(live[i]) = 0
          /\ \A i \in 1..m : B(base[i]) = 0
      BY <2>6, <2>9, <2>10, <2>14
    <3> QED
      BY <2>3, <3>1, TogetherIsZero
  <2> QED
    BY <2>11, <2>12, <2>13, <2>14 DEF n, last
<1> QED
  BY <1>1 DEF OutOfRange

\* In whatever state a check compares, the measure is sound: it counts every live value,
\* is a number, is zero for the traffic of the baseline, and outside its range shows
\* except where the quantiles are too few (check_drift, _quantile_edges, _bucket_probs, psi).
THEOREM MeasureAlwaysSound == Spec => []MeasureSound
<1>1. MeasureSound
  BY CountsEveryValue, PsiAlwaysFinite, BaselineIsNoDrift, SeesOutOfRange DEF MeasureSound
<1> QED
  BY <1>1, PTL
=============================================================================
