-------------------------- MODULE ModelRegistryProof --------------------------
(***************************************************************************)
(* Proofs about the candidate pool. Whatever runs overlap, a model that    *)
(* was promoted is out of service only when Pool promoted models are at    *)
(* least as good, at most Pool rows and one for each run that can overlap  *)
(* are active, and what serving loads has every model that is clearly one  *)
(* of the best Serve ever promoted.                                        *)
(***************************************************************************)
EXTENDS ModelRegistry, FiniteSetTheorems, TLAPS

\* The AUC of a version does not change once its run has begun.
LEMMA AucConstant == NextRegistry => auc' = auc
  BY DEF NextRegistry, Training, Train, RegisterInactive, Select, Update, Commit, Abort, table

\* What a best-n set leaves out is outranked by the set.
LEMMA TopOutranks ==
  ASSUME NEW S, NEW T \in TopSets(S, Pool), NEW v \in S \ T
  PROVE  Outranked(v, T)
<1>1. T \subseteq S /\ T # S /\ Cardinality(T) = Pool
  BY DEF TopSets
<1>2. \A x \in T : auc[v] <= auc[x]
  BY DEF TopSets
<1> QED
  BY <1>1, <1>2 DEF Outranked

\* Whoever is outranked by a set is outranked by a larger one.
LEMMA OutrankedMore ==
  ASSUME NEW S, NEW R, S \subseteq R, NEW v, Outranked(v, S)
  PROVE  Outranked(v, R)
  BY DEF Outranked

\* And stays so in the next state: AUCs do not change.
LEMMA OutrankedStays ==
  ASSUME NEW S, NEW v, Outranked(v, S), auc' = auc
  PROVE  \E T \in SUBSET S : /\ Cardinality(T) = Pool /\ v \notin T
                             /\ \A x \in T : auc'[v] <= auc'[x]
  BY DEF Outranked

\* Initially no version has a row.
LEMMA BestInit == InitRegistry => BestInv
<1> SUFFICES ASSUME InitRegistry PROVE BestInv
  OBVIOUS
<1>1. RegistryTypeOK
  BY DEF InitRegistry, RegistryTypeOK
<1>2. ActivePromoted /\ FreshUntilEnded /\ VictimsOutranked /\ PoolKeepsBest
  BY DEF InitRegistry, ActivePromoted, Active, FreshUntilEnded, VictimsOutranked, PoolKeepsBest
<1> QED
  BY <1>1, <1>2 DEF BestInv

\* Runs keep to the values of the type invariant.
LEMMA TypeStep == RegistryTypeOK /\ [NextRegistry]_registry => RegistryTypeOK'
<1> SUFFICES ASSUME RegistryTypeOK, [NextRegistry]_registry PROVE RegistryTypeOK'
  OBVIOUS
<1> USE DEF RegistryTypeOK, table
<1>1. ASSUME NEW v \in Versions, Train(v) PROVE RegistryTypeOK'
  BY <1>1 DEF Train
<1>2. ASSUME NEW v \in Versions, RegisterInactive(v) PROVE RegistryTypeOK'
  BY <1>2 DEF RegisterInactive
<1>3. ASSUME NEW v \in Versions, Select(v) PROVE RegistryTypeOK'
  <2>1. PICK T \in TopSets(Active, Pool) : victims' = [victims EXCEPT ![v] = Active \ T]
    BY <1>3 DEF Select
  <2>2. Active \ T \subseteq Versions
    BY DEF Active
  <2>3. victims' \in [Versions -> SUBSET Versions]
    BY <2>1, <2>2
  <2> QED
    BY <1>3, <2>3 DEF Select
<1>4. ASSUME NEW v \in Versions, Update(v) PROVE RegistryTypeOK'
  <2>1. victims[v] \cap Active \subseteq Versions
    BY DEF Active
  <2> QED
    BY <1>4, <2>1 DEF Update
<1>5. ASSUME NEW v \in Versions, Commit(v) PROVE RegistryTypeOK'
  BY <1>5 DEF Commit
<1>6. ASSUME NEW v \in Versions, Abort(v) PROVE RegistryTypeOK'
  BY <1>6 DEF Abort
<1>7. CASE UNCHANGED registry
  BY <1>7 DEF registry
<1> QED
  BY <1>1, <1>2, <1>3, <1>4, <1>5, <1>6, <1>7 DEF NextRegistry, Training

\* A promoted version stays outranked, and an active one is promoted.
LEMMA BestStep == BestInv /\ [NextRegistry]_registry => BestInv'
<1> SUFFICES ASSUME BestInv, [NextRegistry]_registry PROVE BestInv'
  OBVIOUS
<1> DEFINE Rest == ActivePromoted /\ FreshUntilEnded /\ VictimsOutranked /\ PoolKeepsBest
<1>0. RegistryTypeOK'
  BY TypeStep DEF BestInv
<1> USE DEF BestInv
<1>1. ASSUME NEW v \in Versions, Train(v) PROVE Rest'
  BY <1>1 DEF Train, table, RegistryTypeOK, ActivePromoted, Active, FreshUntilEnded,
              VictimsOutranked, PoolKeepsBest, Outranked
<1>2. ASSUME NEW v \in Versions, RegisterInactive(v) PROVE Rest'
  <2>1. v \notin promoted
    BY <1>2 DEF FreshUntilEnded, RegisterInactive
  <2> QED
    BY <1>2, <2>1 DEF RegisterInactive, table, RegistryTypeOK, ActivePromoted, Active,
                      FreshUntilEnded, VictimsOutranked, PoolKeepsBest, Outranked
<1>3. ASSUME NEW v \in Versions, Select(v) PROVE Rest'
  <2>1. PICK T \in TopSets(Active, Pool) : victims' = [victims EXCEPT ![v] = Active \ T]
    BY <1>3 DEF Select
  <2>2. UNCHANGED <<row, auc, promoted>>
    BY <1>3 DEF Select, table
  <2>3. \A w \in Active \ T : w \in promoted /\ Outranked(w, promoted)
    BY TopOutranks, OutrankedMore DEF ActivePromoted, TopSets
  <2>4. VictimsOutranked'
    BY <2>1, <2>2, <2>3 DEF VictimsOutranked, RegistryTypeOK, Outranked
  <2>5. ActivePromoted' /\ PoolKeepsBest'
    BY <2>2 DEF ActivePromoted, Active, PoolKeepsBest, Outranked
  <2>6. FreshUntilEnded'
    BY <1>3 DEF Select, FreshUntilEnded, RegistryTypeOK
  <2> QED
    BY <2>4, <2>5, <2>6
<1>4. ASSUME NEW v \in Versions, Update(v) PROVE Rest'
  <2>1. \A r \in Versions : victims'[r] \subseteq victims[r]
    BY <1>4 DEF Update, RegistryTypeOK
  <2>2. UNCHANGED <<row, auc, promoted>>
    BY <1>4 DEF Update, table
  <2>3. VictimsOutranked'
    BY <2>1, <2>2 DEF VictimsOutranked, Outranked
  <2>4. ActivePromoted' /\ PoolKeepsBest'
    BY <2>2 DEF ActivePromoted, Active, PoolKeepsBest, Outranked
  <2>5. FreshUntilEnded'
    BY <1>4 DEF Update, FreshUntilEnded, RegistryTypeOK
  <2> QED
    BY <2>3, <2>4, <2>5
<1>5. ASSUME NEW v \in Versions, Commit(v) PROVE Rest'
  <2>1. promoted' = promoted \cup {v} /\ auc' = auc
    BY <1>5 DEF Commit
  <2>2. \A w : Outranked(w, promoted) => Outranked(w, promoted)'
    BY <2>1 DEF Outranked
  <2>3. VictimsOutranked'
    BY <1>5, <2>1, <2>2 DEF VictimsOutranked, Commit, RegistryTypeOK
  <2>4. ActivePromoted'
    BY <1>5 DEF ActivePromoted, Active, Commit
  <2>5. FreshUntilEnded'
    BY <1>5 DEF FreshUntilEnded, Commit, RegistryTypeOK
  <2>6. ASSUME NEW w \in promoted', row'[w] # "active" PROVE Outranked(w, promoted)'
    <3>1. w \in Versions /\ w # v /\ w \in promoted
      BY <1>5, <2>6 DEF Commit, RegistryTypeOK
    <3>2. CASE w \in victims[v]
      BY <3>2, <2>2 DEF VictimsOutranked
    <3>3. CASE w \notin victims[v]
      <4>1. row'[w] = row[w]
        BY <1>5, <3>1, <3>3 DEF Commit
      <4> QED
        BY <2>2, <2>6, <3>1, <4>1 DEF PoolKeepsBest
    <3> QED
      BY <3>2, <3>3
  <2>7. PoolKeepsBest'
    BY <2>6 DEF PoolKeepsBest
  <2> QED
    BY <2>3, <2>4, <2>5, <2>7
<1>6. ASSUME NEW v \in Versions, Abort(v) PROVE Rest'
  <2>1. \A r \in Versions : victims'[r] \subseteq victims[r]
    BY <1>6 DEF Abort, RegistryTypeOK
  <2>2. UNCHANGED <<row, auc, promoted>>
    BY <1>6 DEF Abort, table
  <2>3. VictimsOutranked'
    BY <2>1, <2>2 DEF VictimsOutranked, Outranked
  <2>4. ActivePromoted' /\ PoolKeepsBest'
    BY <2>2 DEF ActivePromoted, Active, PoolKeepsBest, Outranked
  <2>5. FreshUntilEnded'
    BY <1>6 DEF Abort, FreshUntilEnded, RegistryTypeOK, Running
  <2> QED
    BY <2>3, <2>4, <2>5
<1>7. ASSUME UNCHANGED registry PROVE Rest'
  <2>1. UNCHANGED <<row, auc, run, victims, promoted>>
    BY <1>7 DEF registry
  <2>2. ActivePromoted' /\ PoolKeepsBest'
    BY <2>1 DEF ActivePromoted, Active, PoolKeepsBest, Outranked
  <2>3. VictimsOutranked' /\ FreshUntilEnded'
    BY <2>1 DEF VictimsOutranked, FreshUntilEnded, Outranked
  <2> QED
    BY <2>2, <2>3
<1>8. Rest'
  BY <1>1, <1>2, <1>3, <1>4, <1>5, <1>6, <1>7 DEF NextRegistry, Training
<1> QED
  BY <1>0, <1>8

\* The invariant that holds however runs overlap.
THEOREM BestAlways == SpecRegistry => []BestInv
  BY BestInit, BestStep, PTL DEF SpecRegistry

\* The type invariant of the registry.
THEOREM RegistryTypeCorrect == SpecRegistry => []RegistryTypeOK
<1>1. BestInv => RegistryTypeOK
  BY DEF BestInv
<1> QED
  BY <1>1, BestAlways, PTL

\* A promoted model goes out of service only when Pool promoted ones are at
\* least as good, whatever the number of runs that overlap.
THEOREM PoolKeepsTheBest == SpecRegistry => []PoolKeepsBest
<1>1. BestInv => PoolKeepsBest
  BY DEF BestInv
<1> QED
  BY <1>1, BestAlways, PTL

-----------------------------------------------------------------------------
(* Sets of versions.                                                       *)

\* Sets of versions are finite.
LEMMA VersionsFinite ==
  ASSUME NEW S \in SUBSET Versions
  PROVE  IsFiniteSet(S) /\ Cardinality(S) \in Nat
  BY FS_Subset, FS_CardinalityType, PoolAssumption

\* The larger one has no fewer members.
LEMMA NoFewer ==
  ASSUME NEW S \in SUBSET Versions, NEW R \in SUBSET S
  PROVE  Cardinality(R) <= Cardinality(S)
  BY VersionsFinite, FS_Subset

\* One member more, one member less.
LEMMA OneMore ==
  ASSUME NEW S \in SUBSET Versions, NEW v \in Versions, NEW R \in SUBSET (S \cup {v})
  PROVE  Cardinality(R) <= Cardinality(S) + 1
<1>1. IsFiniteSet(S) /\ Cardinality(S) \in Nat
  BY VersionsFinite
<1>2. /\ IsFiniteSet(S \cup {v})
      /\ Cardinality(S \cup {v}) = Cardinality(S) \/ Cardinality(S \cup {v}) = Cardinality(S) + 1
  BY <1>1, FS_AddElement
<1>3. Cardinality(R) <= Cardinality(S \cup {v})
  BY <1>2, FS_Subset
<1>4. Cardinality(R) \in Nat
  BY <1>2, FS_Subset, FS_CardinalityType
<1> QED
  BY <1>1, <1>2, <1>3, <1>4

LEMMA OneLess ==
  ASSUME NEW S \in SUBSET Versions, NEW v \in S
  PROVE  Cardinality(S) = Cardinality(S \ {v}) + 1
<1>1. IsFiniteSet(S) /\ Cardinality(S) \in Nat
  BY VersionsFinite
<1>2. Cardinality(S \ {v}) = Cardinality(S) - 1
  BY <1>1, FS_RemoveElement
<1> QED
  BY <1>1, <1>2

\* A best-n set has at most n members.
LEMMA TopSize ==
  ASSUME NEW S \in SUBSET Versions, NEW n \in Nat, NEW T \in TopSets(S, n)
  PROVE  T \subseteq S /\ Cardinality(T) <= n
  BY VersionsFinite DEF TopSets

-----------------------------------------------------------------------------
(* How many rows are active when runs overlap.                             *)

Selectors == {r \in Versions : Selecting(r)}

\* The runs whose snapshot is older than that of some run that has committed are in
\* old, and upto[r] has the run r and those with an older snapshot. The snapshot
\* that is the newest has left Pool rows; what is active beyond them was inserted
\* by runs that were under way with it.
Snapshots(old, upto) ==
  /\ old \subseteq Selectors
  /\ Cardinality(Active) + Cardinality(old) <= Pool + MaxRunning
  /\ \A r \in Selectors \ old :
       /\ r \in upto[r] /\ old \subseteq upto[r] /\ upto[r] \subseteq Selectors
       /\ Cardinality(Active \ victims[r]) + Cardinality(upto[r]) <= Pool + MaxRunning
  /\ \A r, s \in Selectors \ old : upto[r] \subseteq upto[s] \/ upto[s] \subseteq upto[r]

Histories == [Versions -> SUBSET Versions]

BoundInv ==
  /\ RegistryTypeOK
  /\ Cardinality(Running) <= MaxRunning
  /\ \E old \in SUBSET Versions, upto \in Histories : Snapshots(old, upto)

LEMMA BoundInit == InitRegistry => BoundInv
<1> SUFFICES ASSUME InitRegistry PROVE BoundInv
  OBVIOUS
<1>1. Active = {} /\ Running = {} /\ Selectors = {}
  BY DEF InitRegistry, Active, Running, Selectors, Selecting
<1>2. RegistryTypeOK
  BY BestInit DEF BestInv
<1>3. Cardinality({}) = 0
  BY FS_EmptySet
<1>4. Snapshots({}, [v \in Versions |-> {}])
  BY <1>1, <1>3, PoolAssumption DEF Snapshots
<1> QED
  BY <1>1, <1>2, <1>3, <1>4, PoolAssumption DEF BoundInv, Histories

\* No more than MaxRunning runs are under way.
LEMMA RunningStep ==
  ASSUME BoundInv, [NextRegistry]_registry
  PROVE  (Cardinality(Running) <= MaxRunning)'
<1>t. RegistryTypeOK /\ Cardinality(Running) <= MaxRunning /\ MaxRunning \in Nat
  BY PoolAssumption DEF BoundInv
<1>r. Running \in SUBSET Versions /\ Running' \in SUBSET Versions
  BY DEF Running
<1>c. Cardinality(Running) \in Nat /\ Cardinality(Running') \in Nat
  BY <1>r, VersionsFinite
<1>1. ASSUME NEW v \in Versions, Train(v) PROVE Cardinality(Running') <= MaxRunning
  <2>1. Running' \subseteq Running \cup {v}
    BY <1>1, <1>t DEF Train, Running, RegistryTypeOK
  <2>2. Cardinality(Running') <= Cardinality(Running) + 1 /\ Cardinality(Running) < MaxRunning
    BY <1>1, <1>r, <2>1, OneMore DEF Train
  <2> QED
    BY <1>c, <1>t, <2>2
<1>2. ASSUME NEW v \in Versions,
             RegisterInactive(v) \/ Select(v) \/ Update(v) \/ Commit(v) \/ Abort(v)
      PROVE  Running' \subseteq Running
  <2> USE <1>t DEF Running, RegistryTypeOK
  <2>1. CASE RegisterInactive(v)
    BY <2>1 DEF RegisterInactive
  <2>2. CASE Select(v)
    BY <2>2 DEF Select
  <2>3. CASE Update(v)
    BY <2>3 DEF Update
  <2>4. CASE Commit(v)
    BY <2>4 DEF Commit
  <2>5. CASE Abort(v)
    BY <2>5 DEF Abort
  <2> QED
    BY <1>2, <2>1, <2>2, <2>3, <2>4, <2>5
<1>3. CASE UNCHANGED registry
  BY <1>3, <1>t DEF registry, Running
<1>4. ASSUME Running' \subseteq Running PROVE Cardinality(Running') <= MaxRunning
  <2>1. Cardinality(Running') <= Cardinality(Running)
    BY <1>r, <1>4, NoFewer
  <2> QED
    BY <1>c, <1>t, <2>1
<1> QED
  BY <1>1, <1>2, <1>3, <1>4 DEF NextRegistry, Training

\* A step that leaves the rows, and of the runs that select those that did already.
LEMMA SnapshotsKept ==
  ASSUME RegistryTypeOK, NEW old \in SUBSET Versions, NEW upto \in Histories, Snapshots(old, upto),
         Active' \subseteq Active, Selectors' = Selectors,
         \A r \in Selectors : Active' \ victims'[r] \subseteq Active \ victims[r]
  PROVE  Snapshots(old, upto)'
<1>1. Active \in SUBSET Versions
  BY DEF Active
<1>2. /\ Cardinality(Active') <= Cardinality(Active)
      /\ Cardinality(Active) \in Nat /\ Cardinality(Active') \in Nat
  BY <1>1, NoFewer, VersionsFinite
<1>3. ASSUME NEW r \in Selectors
      PROVE  /\ Cardinality(Active' \ victims'[r]) <= Cardinality(Active \ victims[r])
             /\ Cardinality(Active \ victims[r]) \in Nat /\ Cardinality(Active' \ victims'[r]) \in Nat
  <2>1. Active \ victims[r] \in SUBSET Versions
    BY <1>1
  <2> QED
    BY <2>1, NoFewer, VersionsFinite
<1>4. Cardinality(old) \in Nat /\ \A r \in Versions : Cardinality(upto[r]) \in Nat
  BY VersionsFinite DEF Histories
<1>5. Pool \in Nat /\ MaxRunning \in Nat /\ Selectors \subseteq Versions
  BY PoolAssumption DEF Selectors
<1>6. Cardinality(Active') + Cardinality(old) <= Pool + MaxRunning
  BY <1>2, <1>4, <1>5 DEF Snapshots
<1>7. ASSUME NEW r \in Selectors \ old
      PROVE  Cardinality(Active' \ victims'[r]) + Cardinality(upto[r]) <= Pool + MaxRunning
  <2>1. /\ Cardinality(Active \ victims[r]) + Cardinality(upto[r]) <= Pool + MaxRunning
        /\ Cardinality(upto[r]) \in Nat /\ Pool + MaxRunning \in Nat
    BY <1>4, <1>5 DEF Snapshots
  <2>2. /\ Cardinality(Active' \ victims'[r]) <= Cardinality(Active \ victims[r])
        /\ Cardinality(Active \ victims[r]) \in Nat /\ Cardinality(Active' \ victims'[r]) \in Nat
    BY <1>3
  <2> QED
    BY <2>1, <2>2
<1> QED
  BY <1>6, <1>7 DEF Snapshots

\* A snapshot is newer than all others, and leaves Pool rows.
LEMMA SnapshotsSelect ==
  ASSUME BoundInv, NEW v \in Versions, Select(v), Cardinality(Running') <= MaxRunning,
         NEW old \in SUBSET Versions, NEW upto \in Histories, Snapshots(old, upto),
         NEW now \in Histories, now = [upto EXCEPT ![v] = Selectors']
  PROVE  Snapshots(old, now)'
<1>t. RegistryTypeOK
  BY DEF BoundInv
<1>1. PICK T \in TopSets(Active, Pool) : victims' = [victims EXCEPT ![v] = Active \ T]
  BY DEF Select
<1>2. Active' = Active /\ Active \in SUBSET Versions
  BY DEF Select, Active, table
<1>3. v \notin Selectors /\ Selectors' = Selectors \cup {v} /\ Selectors' \subseteq Running'
  BY <1>t DEF Select, Selectors, Selecting, RegistryTypeOK, Running
<1>4. /\ \A r \in Selectors : victims'[r] = victims[r] /\ now[r] = upto[r]
      /\ victims'[v] = Active \ T /\ now[v] = Selectors'
  BY <1>1, <1>3, <1>t DEF RegistryTypeOK, Histories, Selectors
<1>5. Cardinality(Active' \ victims'[v]) + Cardinality(now[v]) <= Pool + MaxRunning
  <2>1. Active' \ victims'[v] = T /\ Cardinality(T) <= Pool /\ T \in SUBSET Versions
    BY <1>2, <1>4, TopSize, PoolAssumption
  <2>2. Cardinality(Selectors') <= Cardinality(Running') /\ Running' \in SUBSET Versions
        /\ Selectors' \in SUBSET Versions
    BY <1>3, NoFewer DEF Running
  <2>3. Cardinality(T) \in Nat /\ Cardinality(Selectors') \in Nat /\ Cardinality(Running') \in Nat
    BY <2>1, <2>2, VersionsFinite
  <2>4. Cardinality(Selectors') <= MaxRunning /\ MaxRunning \in Nat /\ Pool \in Nat
    BY <2>2, <2>3, PoolAssumption
  <2>5. Cardinality(T) + Cardinality(Selectors') <= Pool + MaxRunning
    BY <2>1, <2>3, <2>4
  <2> QED
    BY <1>4, <2>1, <2>5
<1>6. old \subseteq Selectors /\ v \notin old
  BY <1>3 DEF Snapshots
<1>7. \A r \in Selectors' \ old :
        /\ r \in now[r] /\ old \subseteq now[r] /\ now[r] \subseteq Selectors'
        /\ Cardinality(Active' \ victims'[r]) + Cardinality(now[r]) <= Pool + MaxRunning
  <2>1. ASSUME NEW r \in Selectors \ old
        PROVE  /\ r \in now[r] /\ old \subseteq now[r] /\ now[r] \subseteq Selectors'
               /\ Cardinality(Active' \ victims'[r]) + Cardinality(now[r]) <= Pool + MaxRunning
    BY <1>2, <1>3, <1>4 DEF Snapshots
  <2>2. v \in now[v] /\ old \subseteq now[v] /\ now[v] \subseteq Selectors'
    BY <1>3, <1>4, <1>6
  <2> QED
    BY <1>3, <1>5, <2>1, <2>2
<1>8. \A r, s \in Selectors' \ old : now[r] \subseteq now[s] \/ now[s] \subseteq now[r]
  <2>1. \A r, s \in Selectors \ old : now[r] \subseteq now[s] \/ now[s] \subseteq now[r]
    BY <1>4 DEF Snapshots
  <2>2. \A r \in Selectors \ old : now[r] \subseteq now[v]
    BY <1>3, <1>4, <1>7
  <2> QED
    BY <1>3, <2>1, <2>2
<1> QED
  BY <1>2, <1>3, <1>6, <1>7, <1>8 DEF Snapshots

\* Whoever ends leaves the sets.
Without(upto, v) == [r \in Versions |-> upto[r] \ {v}]

\* A run that ends without a commit.
LEMMA SnapshotsAbort ==
  ASSUME BoundInv, NEW v \in Versions, Abort(v),
         NEW old \in SUBSET Versions, NEW upto \in Histories, Snapshots(old, upto)
  PROVE  Snapshots(old \ {v}, Without(upto, v))'
<1> DEFINE rest == Without(upto, v)
<1>t. RegistryTypeOK /\ Pool \in Nat /\ MaxRunning \in Nat
  BY PoolAssumption DEF BoundInv
<1>1. Active' = Active /\ Active \in SUBSET Versions /\ Selectors' = Selectors \ {v}
  BY <1>t DEF Abort, Active, Selectors, Selecting, table, RegistryTypeOK
<1>2. \A r \in Selectors' : victims'[r] = victims[r] /\ rest[r] = upto[r] \ {v}
  BY <1>1, <1>t DEF Abort, Without, Selectors, RegistryTypeOK
<1> HIDE DEF rest
<1>3. Cardinality(Active) + Cardinality(old \ {v}) <= Pool + MaxRunning
  <2>1. Cardinality(old \ {v}) <= Cardinality(old)
    BY NoFewer
  <2>2. Cardinality(old \ {v}) \in Nat /\ Cardinality(old) \in Nat /\ Cardinality(Active) \in Nat
    BY <1>1, VersionsFinite
  <2> QED
    BY <1>t, <2>1, <2>2 DEF Snapshots
<1>4. ASSUME NEW r \in Selectors' \ (old \ {v})
      PROVE  /\ r \in rest[r] /\ old \ {v} \subseteq rest[r] /\ rest[r] \subseteq Selectors'
             /\ Cardinality(Active' \ victims'[r]) + Cardinality(rest[r]) <= Pool + MaxRunning
  <2>1. r \in Selectors \ old /\ r # v /\ upto[r] \in SUBSET Versions
    BY <1>1 DEF Selectors, Histories
  <2>2. /\ r \in upto[r] /\ old \subseteq upto[r] /\ upto[r] \subseteq Selectors
        /\ Cardinality(Active \ victims[r]) + Cardinality(upto[r]) <= Pool + MaxRunning
    BY <2>1 DEF Snapshots
  <2>3. Cardinality(rest[r]) <= Cardinality(upto[r])
    BY <1>2, <2>1, NoFewer
  <2>4. /\ Cardinality(upto[r]) \in Nat /\ Cardinality(rest[r]) \in Nat
        /\ Cardinality(Active \ victims[r]) \in Nat
    BY <1>1, <1>2, <2>1, VersionsFinite
  <2>5. Cardinality(Active' \ victims'[r]) + Cardinality(rest[r]) <= Pool + MaxRunning
    <3>1. Active' \ victims'[r] = Active \ victims[r]
      BY <1>1, <1>2
    <3>2. Cardinality(Active \ victims[r]) + Cardinality(rest[r]) <= Pool + MaxRunning
      BY <1>t, <2>2, <2>3, <2>4
    <3> QED
      BY <3>1, <3>2
  <2> QED
    BY <1>1, <1>2, <2>1, <2>2, <2>5
<1>5. \A r, s \in Selectors' \ (old \ {v}) : rest[r] \subseteq rest[s] \/ rest[s] \subseteq rest[r]
  BY <1>1, <1>2 DEF Snapshots
<1>6. old \ {v} \subseteq Selectors'
  BY <1>1 DEF Snapshots
<1> QED
  BY <1>1, <1>3, <1>4, <1>5, <1>6 DEF Snapshots, rest

\* A commit inserts one row. When the snapshot of the run is newer than that of all
\* that have committed, those with an older one that are still under way are old now.
LEMMA SnapshotsCommit ==
  ASSUME BoundInv, NEW v \in Versions, Commit(v),
         NEW old \in SUBSET Versions, NEW upto \in Histories, Snapshots(old, upto)
  PROVE  Snapshots((IF v \in old THEN old ELSE upto[v]) \ {v}, Without(upto, v))'
<1> DEFINE rest == Without(upto, v)
           before == IF v \in old THEN old ELSE upto[v]
<1>t. RegistryTypeOK /\ Pool \in Nat /\ MaxRunning \in Nat
  BY PoolAssumption DEF BoundInv
<1>1. /\ Active \in SUBSET Versions /\ Active' \subseteq (Active \ victims[v]) \cup {v}
      /\ v \in Selectors /\ Selectors' = Selectors \ {v}
  BY <1>t DEF Commit, Active, Selectors, Selecting, RegistryTypeOK
<1>2. \A r \in Selectors' : victims'[r] = victims[r] /\ rest[r] = upto[r] \ {v}
  BY <1>1, <1>t DEF Commit, Without, Selectors, RegistryTypeOK
<1>3. v \in before /\ before \in SUBSET Versions /\ before \subseteq Selectors /\ old \subseteq before
  BY <1>1 DEF Snapshots, Histories
<1>4. Cardinality(Active') + Cardinality(before \ {v}) <= Pool + MaxRunning
  <2>1. Cardinality(before) = Cardinality(before \ {v}) + 1
    BY <1>3, OneLess
  <2>2. /\ Active' \subseteq Active \cup {v} /\ Active \ victims[v] \in SUBSET Versions
        /\ Active' \in SUBSET Versions
    BY <1>1
  <2>3. /\ Cardinality(Active') <= Cardinality(Active) + 1
        /\ Cardinality(Active') <= Cardinality(Active \ victims[v]) + 1
    BY <1>1, <2>2, OneMore
  <2>4. /\ Cardinality(Active') \in Nat /\ Cardinality(Active) \in Nat
        /\ Cardinality(Active \ victims[v]) \in Nat /\ Cardinality(before \ {v}) \in Nat
        /\ Cardinality(before) \in Nat
    BY <1>1, <1>3, <2>2, VersionsFinite
  <2>5. \/ Cardinality(Active) + Cardinality(before) <= Pool + MaxRunning
        \/ Cardinality(Active \ victims[v]) + Cardinality(before) <= Pool + MaxRunning
    BY <1>1 DEF Snapshots
  <2> HIDE DEF before
  <2> QED
    BY <1>t, <2>1, <2>3, <2>4, <2>5
<1>5. ASSUME NEW r \in Selectors' \ (before \ {v})
      PROVE  r \in Selectors \ old /\ r # v /\ before \subseteq upto[r]
  <2>1. r \in Selectors \ old /\ r # v /\ r \notin before
    BY <1>1, <1>3
  <2>2. r \in upto[r] /\ old \subseteq upto[r]
    BY <2>1 DEF Snapshots
  <2>3. CASE v \notin old
    BY <1>1, <2>1, <2>2, <2>3 DEF Snapshots
  <2> QED
    BY <2>1, <2>2, <2>3
<1> HIDE DEF rest, before
<1>6. ASSUME NEW r \in Selectors' \ (before \ {v})
      PROVE  /\ r \in rest[r] /\ before \ {v} \subseteq rest[r] /\ rest[r] \subseteq Selectors'
             /\ Cardinality(Active' \ victims'[r]) + Cardinality(rest[r]) <= Pool + MaxRunning
  <2>1. r \in Selectors \ old /\ r # v /\ before \subseteq upto[r] /\ upto[r] \in SUBSET Versions
    BY <1>5 DEF Selectors, Histories
  <2>2. /\ r \in upto[r] /\ upto[r] \subseteq Selectors
        /\ Cardinality(Active \ victims[r]) + Cardinality(upto[r]) <= Pool + MaxRunning
    BY <2>1 DEF Snapshots
  <2>3. rest[r] = upto[r] \ {v} /\ Cardinality(upto[r]) = Cardinality(rest[r]) + 1
    BY <1>2, <1>3, <2>1, OneLess
  <2>4. /\ Active' \ victims'[r] \subseteq (Active \ victims[r]) \cup {v}
        /\ Active \ victims[r] \in SUBSET Versions /\ Active' \ victims'[r] \in SUBSET Versions
    BY <1>1, <1>2
  <2>5. Cardinality(Active' \ victims'[r]) <= Cardinality(Active \ victims[r]) + 1
    BY <2>4, OneMore
  <2>6. /\ Cardinality(Active' \ victims'[r]) \in Nat /\ Cardinality(Active \ victims[r]) \in Nat
        /\ Cardinality(upto[r]) \in Nat /\ Cardinality(rest[r]) \in Nat
    BY <2>1, <2>3, <2>4, VersionsFinite
  <2>7. Cardinality(Active' \ victims'[r]) + Cardinality(rest[r]) <= Pool + MaxRunning
    BY <1>t, <2>2, <2>3, <2>5, <2>6
  <2> QED
    BY <1>1, <2>1, <2>2, <2>3, <2>7
<1>7. \A r, s \in Selectors' \ (before \ {v}) : rest[r] \subseteq rest[s] \/ rest[s] \subseteq rest[r]
  BY <1>2, <1>5 DEF Snapshots
<1>8. before \ {v} \subseteq Selectors'
  BY <1>1, <1>3
<1> QED
  BY <1>4, <1>6, <1>7, <1>8 DEF Snapshots, rest, before

\* Whatever overlaps, the snapshots bound what is active.
LEMMA BoundStep == BoundInv /\ [NextRegistry]_registry => BoundInv'
<1> SUFFICES ASSUME BoundInv, [NextRegistry]_registry PROVE BoundInv'
  OBVIOUS
<1>1. RegistryTypeOK' /\ Cardinality(Running') <= MaxRunning
  BY TypeStep, RunningStep DEF BoundInv
<1>2. PICK old \in SUBSET Versions, upto \in Histories : Snapshots(old, upto)
  BY DEF BoundInv
<1> DEFINE Goal == \E o \in SUBSET Versions, u \in Histories : Snapshots(o, u)'
<1>3. ASSUME Active' \subseteq Active, Selectors' = Selectors,
             \A r \in Selectors : Active' \ victims'[r] \subseteq Active \ victims[r]
      PROVE  Goal
  BY <1>2, <1>3, SnapshotsKept DEF BoundInv
<1>4. ASSUME NEW v \in Versions, Train(v) \/ RegisterInactive(v) PROVE Goal
  <2>1. Active' \subseteq Active /\ Selectors' = Selectors /\ victims' = victims
    BY <1>4 DEF Train, RegisterInactive, Active, Selectors, Selecting, table, BoundInv, RegistryTypeOK
  <2> QED
    BY <1>3, <2>1
<1>5. ASSUME NEW v \in Versions, Select(v) PROVE Goal
  <2>1. Selectors' \in SUBSET Versions
    BY DEF Selectors
  <2>2. PICK now \in Histories : now = [upto EXCEPT ![v] = Selectors']
    BY <1>5, <2>1 DEF Histories
  <2> QED
    BY <1>1, <1>2, <1>5, <2>2, SnapshotsSelect
<1>6. ASSUME NEW v \in Versions, Update(v) PROVE Goal
  <2>1. Active' = Active /\ Selectors' = Selectors
    BY <1>6 DEF Update, Active, Selectors, Selecting, table, BoundInv, RegistryTypeOK
  <2>2. \A r \in Versions : Active \ victims'[r] = Active \ victims[r]
    BY <1>6 DEF Update, BoundInv, RegistryTypeOK
  <2> QED
    BY <1>3, <2>1, <2>2 DEF Selectors
<1>7. ASSUME NEW v \in Versions PROVE Without(upto, v) \in Histories
  BY DEF Without, Histories
<1>8. ASSUME NEW v \in Versions, Commit(v) PROVE Goal
  <2>1. (IF v \in old THEN old ELSE upto[v]) \ {v} \in SUBSET Versions
    BY <1>8 DEF Histories
  <2> QED
    BY <1>2, <1>7, <1>8, <2>1, SnapshotsCommit
<1>9. ASSUME NEW v \in Versions, Abort(v) PROVE Goal
  <2>1. old \ {v} \in SUBSET Versions
    OBVIOUS
  <2> QED
    BY <1>2, <1>7, <1>9, <2>1, SnapshotsAbort
<1>10. ASSUME UNCHANGED registry PROVE Goal
  <2>1. Active' = Active /\ Selectors' = Selectors /\ victims' = victims
    BY <1>10 DEF registry, Active, Selectors, Selecting
  <2> QED
    BY <1>3, <2>1
<1>11. Goal
  BY <1>4, <1>5, <1>6, <1>8, <1>9, <1>10 DEF NextRegistry, Training
<1> QED
  BY <1>1, <1>11 DEF BoundInv

\* At most Pool rows and one for each run that can be under way are active, although
\* a run knows only the rows its snapshot finds (write_model_registry_meta): with
\* one run at a time the 4 of the README.
THEOREM PoolIsBounded == SpecRegistry => []ActiveBounded
<1>1. BoundInv => ActiveBounded
  <2> SUFFICES ASSUME BoundInv PROVE ActiveBounded
    OBVIOUS
  <2>1. PICK old \in SUBSET Versions, upto \in Histories : Snapshots(old, upto)
    BY DEF BoundInv
  <2>2. Cardinality(Active) \in Nat /\ Cardinality(old) \in Nat
    BY VersionsFinite DEF Active
  <2> QED
    BY <2>1, <2>2, PoolAssumption DEF Snapshots, ActiveBounded
<1> QED
  BY <1>1, BoundInit, BoundStep, PTL DEF SpecRegistry

-----------------------------------------------------------------------------
(* What serving loads.                                                     *)

\* Who is outranked by as many as are served is not clearly one of the best.
LEMMA OutrankedUnclear ==
  ASSUME RegistryTypeOK, NEW v, NEW T \in SUBSET promoted,
         v \notin T, Cardinality(T) >= Serve, \A x \in T : auc[v] <= auc[x]
  PROVE  ~Clear(v)
<1> DEFINE Rivals == {u \in promoted \ {v} : auc[v] <= auc[u]}
<1>1. T \subseteq Rivals /\ Rivals \in SUBSET Versions
  BY DEF RegistryTypeOK
<1>2. Cardinality(T) <= Cardinality(Rivals)
  BY <1>1, NoFewer
<1>3. Cardinality(T) \in Nat /\ Cardinality(Rivals) \in Nat /\ Serve \in Nat
  BY <1>1, VersionsFinite, PoolAssumption
<1> QED
  BY <1>2, <1>3 DEF Clear

\* Whatever runs overlap, a model that is clearly one of the best Serve ever promoted
\* is active and among the rows serving's query returns.
LEMMA ClearServed ==
  ASSUME BestInv, NEW T \in TopSets(Active, Serve), NEW v \in promoted, Clear(v)
  PROVE  v \in T
<1>1. Serve \in Nat /\ Pool \in Nat /\ Serve <= Pool
  BY PoolAssumption
<1>2. RegistryTypeOK /\ Active \subseteq promoted /\ v \in Versions
  BY DEF BestInv, ActivePromoted, RegistryTypeOK
<1>3. v \in Active
  <2>1. SUFFICES ASSUME row[v] # "active" PROVE FALSE
    BY <1>2 DEF Active
  <2>2. PICK W \in SUBSET promoted : /\ Cardinality(W) = Pool /\ v \notin W
                                    /\ \A x \in W : auc[v] <= auc[x]
    BY <2>1 DEF BestInv, PoolKeepsBest, Outranked
  <2> QED
    BY <1>1, <1>2, <2>2, OutrankedUnclear
<1>4. SUFFICES ASSUME v \notin T PROVE FALSE
  OBVIOUS
<1>5. /\ T \subseteq promoted /\ Cardinality(T) = Serve
      /\ \A x \in T : auc[v] <= auc[x]
  BY <1>2, <1>3, <1>4 DEF TopSets
<1> QED
  BY <1>1, <1>2, <1>4, <1>5, OutrankedUnclear

\* Serving keeps the historical best: whatever runs overlap and however they break
\* ties, what its query returns has every model that is clearly among the best
\* Serve ever promoted (_fetch_active_rows, write_model_registry_meta).
THEOREM ServesHistoricalBest == SpecRegistry => []HistoricalBestServed
<1>1. BestInv => HistoricalBestServed
  BY ClearServed DEF HistoricalBestServed
<1> QED
  BY <1>1, BestAlways, PTL
=============================================================================
