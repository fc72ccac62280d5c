----------------------------- MODULE ModelRegistry -----------------------------
(***************************************************************************)
(* The candidate pool: the rows of the Postgres table model_registry_meta  *)
(* and the runs of training/train.py that write it. A run trains a model,  *)
(* registers it in MLflow, and in one READ COMMITTED transaction takes the *)
(* active rows outside the best Pool by AUC out of service and inserts its *)
(* own. Runs are processes of their own: the drift monitor starts them as  *)
(* subprocesses, operators by hand, and nothing keeps two from overlapping.*)
(*                                                                         *)
(* A run is known by the version MLflow gives its model. ORDER BY leaves   *)
(* the order of equal AUCs open, so does TopSets.                          *)
(***************************************************************************)
EXTENDS Naturals, FiniteSets

CONSTANTS Versions,
          Aucs,        \* the AUCs a model can have
          Pool,        \* active rows a run keeps next to its own (LIMIT 3)
          Serve,       \* active rows serving loads (LIMIT 2)
          MaxRunning   \* bound: runs at the same time

ASSUME PoolAssumption ==
  /\ IsFiniteSet(Versions) /\ Aucs \subseteq Nat
  /\ Pool \in Nat \ {0} /\ Serve \in 1..Pool /\ MaxRunning \in Nat

VARIABLES
  row,       \* the committed row of a version: is_active, or no row
  auc,       \* metrics->>'auc' of a version
  run,       \* what the run of a version has done
  victims,   \* the rows the UPDATE of a run in its transaction deactivates
  promoted,  \* history: versions that have ever been active
  newest     \* history: the version promoted last, in a set

table == <<row, auc>>
registry == <<row, auc, run, victims, promoted, newest>>

Active == {v \in Versions : row[v] = "active"}
Running == {v \in Versions : run[v] \in {"registered", "selected", "updated"}}

\* ORDER BY (metrics->>'auc')::float DESC LIMIT n: the sets it can return.
TopSets(S, n) ==
  {T \in SUBSET S : /\ IF Cardinality(S) <= n THEN T = S ELSE Cardinality(T) = n
                    /\ \A x \in T, y \in S \ T : auc[y] <= auc[x]}

-----------------------------------------------------------------------------
InitRegistry ==
  /\ row = [v \in Versions |-> "none"]
  /\ auc \in [Versions -> Aucs]
  /\ run = [v \in Versions |-> "none"]
  /\ victims = [v \in Versions |-> {}]
  /\ promoted = {} /\ newest = {}

\* log_and_register: the new version exists in MLflow. (A run that fails
\* before leaves nothing; its AUC is chosen in InitRegistry.)
Train(v) ==
  /\ run[v] = "none" /\ Cardinality(Running) < MaxRunning
  /\ run' = [run EXCEPT ![v] = "registered"]
  /\ UNCHANGED <<table, victims, promoted, newest>>

\* The ONNX artifact cannot be downloaded: the row is inserted as inactive.
RegisterInactive(v) ==
  /\ run[v] = "registered"
  /\ run' = [run EXCEPT ![v] = "ended"]
  /\ row' = [row EXCEPT ![v] = "inactive"]
  /\ UNCHANGED <<auc, victims, promoted, newest>>

\* Mutant: the order of the subquery is lost, so any Pool rows are kept.
SelectAny(v) ==
  /\ run[v] = "registered"
  /\ \E T \in SUBSET Active :
       /\ IF Cardinality(Active) <= Pool THEN T = Active ELSE Cardinality(T) = Pool
       /\ victims' = [victims EXCEPT ![v] = Active \ T]
  /\ run' = [run EXCEPT ![v] = "selected"]
  /\ UNCHANGED <<table, promoted, newest>>

\* Mutant: no row is deactivated.
SelectNone(v) ==
  /\ run[v] = "registered"
  /\ run' = [run EXCEPT ![v] = "selected"]
  /\ UNCHANGED <<table, victims, promoted, newest>>

\* The UPDATE takes its snapshot of the committed rows.
Select(v) ==
  /\ run[v] = "registered"
  /\ \E T \in TopSets(Active, Pool) :
       victims' = [victims EXCEPT ![v] = Active \ T]
  /\ run' = [run EXCEPT ![v] = "selected"]
  /\ UNCHANGED <<table, promoted, newest>>

\* It waits for the row locks of transactions that update the same rows, and
\* leaves out the rows that are no longer active when it gets them.
Update(v) ==
  /\ run[v] = "selected"
  /\ \A u \in Versions : run[u] = "updated" => victims[u] \cap victims[v] = {}
  /\ victims' = [victims EXCEPT ![v] = @ \cap Active]
  /\ run' = [run EXCEPT ![v] = "updated"]
  /\ UNCHANGED <<table, promoted, newest>>

\* INSERT and commit.
Commit(v) ==
  /\ run[v] = "updated"
  /\ row' = [u \in Versions |-> IF u = v THEN "active"
                                ELSE IF u \in victims[v] THEN "inactive" ELSE row[u]]
  /\ run' = [run EXCEPT ![v] = "ended"]
  /\ victims' = [victims EXCEPT ![v] = {}]
  /\ promoted' = promoted \cup {v} /\ newest' = {v}
  /\ UNCHANGED auc

\* A statement raises, or the process dies: the transaction is rolled back.
Abort(v) ==
  /\ v \in Running
  /\ run' = [run EXCEPT ![v] = "ended"]
  /\ victims' = [victims EXCEPT ![v] = {}]
  /\ UNCHANGED <<table, promoted, newest>>

Training(v) == \/ Train(v) \/ RegisterInactive(v) \/ Select(v) \/ Update(v)
               \/ Commit(v) \/ Abort(v)

NextRegistry == \E v \in Versions : Training(v)

SpecRegistry == InitRegistry /\ [][NextRegistry]_registry

-----------------------------------------------------------------------------
(* Properties.                                                             *)

\* The type invariant.
RegistryTypeOK ==
  /\ row \in [Versions -> {"none", "active", "inactive"}]
  /\ auc \in [Versions -> Aucs]
  /\ run \in [Versions -> {"none", "registered", "selected", "updated", "ended"}]
  /\ victims \in [Versions -> SUBSET Versions]
  /\ promoted \subseteq Versions /\ newest \subseteq promoted

\* S holds Pool models that are at least as good as v.
Outranked(v, S) ==
  \E T \in SUBSET S : /\ Cardinality(T) = Pool /\ v \notin T
                      /\ \A x \in T : auc[v] <= auc[x]

\* A model that was promoted goes out of service only when Pool promoted models
\* are at least as good: however runs overlap, a run that decides on a snapshot
\* in which another's row is missing takes out no model it should not
\* (write_model_registry_meta).
PoolKeepsBest ==
  \A v \in promoted : row[v] # "active" => Outranked(v, promoted)

\* Fewer than Serve other models that were ever promoted are as good as v.
Clear(v) == Cardinality({u \in promoted \ {v} : auc[v] <= auc[u]}) < Serve

\* README, Top-K Candidate Pool: serving keeps the historical best. A model that
\* is clearly one of the best Serve ever promoted is in whatever serving's query
\* returns, also when runs overlap and break ties differently.
HistoricalBestServed ==
  \A T \in TopSets(Active, Serve) : \A v \in promoted : Clear(v) => v \in T

\* The pool has at most one active row for each run that can overlap next to the
\* Pool it keeps, though each run only looks at the rows it finds.
ActiveBounded == Cardinality(Active) <= Pool + MaxRunning

-----------------------------------------------------------------------------
(* The inductive invariants the theorems of ModelRegistryProof rest on.     *)

\* Whoever is out of service, or about to be, is outranked.
VictimsOutranked ==
  \A r \in Versions : \A v \in victims[r] : v \in promoted /\ Outranked(v, promoted)

ActivePromoted == Active \subseteq promoted

\* A run that has not ended has not promoted its version.
FreshUntilEnded == \A v \in Versions : run[v] # "ended" => v \notin promoted

BestInv == /\ RegistryTypeOK /\ ActivePromoted /\ FreshUntilEnded
           /\ VictimsOutranked /\ PoolKeepsBest

Selecting(v) == run[v] \in {"selected", "updated"}

-----------------------------------------------------------------------------
(* What the repository says and the code does not do.                      *)

\* README, Top-K Candidate Pool: serving keeps the historical best, ties included.
\* Two runs that break a tie differently take two of the best out.
BestOfAllServed ==
  \A T \in TopSets(Active, Serve) : T \in TopSets(promoted, Serve)

\* README, Top-K Candidate Pool: "strictly limiting active models to 4".
ActiveAtMostFour == Cardinality(Active) <= 4

\* write_model_registry_meta: serving "always sees exactly" the new challenger
\* and the previous champion. What serving loads has the model promoted last.
ChallengerServed == \A T \in TopSets(Active, Serve) : newest \subseteq T

\* main: when the download of the artifact fails, do not write to
\* model_registry_meta. Every row is of a model that was promoted.
OnlyVerifiedRows == \A v \in Versions : row[v] # "none" => v \in promoted
=============================================================================
