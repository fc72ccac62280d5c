---------------------------- MODULE ModelReloadProof ----------------------------
(***************************************************************************)
(* Proofs about the workers that serve the candidate pool. Any number of   *)
(* workers, whichever checks overlap and however they fail: a worker that  *)
(* is up has models to serve, and a swap takes out one of the best only if *)
(* its check read the registry before that one was promoted.               *)
(***************************************************************************)
EXTENDS ModelReload, ModelRegistryProof

\* A step of a worker is a stutter of the registry, a promotion is its step.
LEMMA RegistryStep == [Next]_vars => [NextRegistry]_registry
<1> SUFFICES ASSUME [Next]_vars PROVE [NextRegistry]_registry
  OBVIOUS
<1>1. ASSUME NEW v \in Versions, Promote(v) PROVE NextRegistry
  BY <1>1 DEF Promote, NextRegistry
<1>2. ASSUME NEW w \in Workers, Die(w) PROVE UNCHANGED registry
  BY <1>2 DEF Die
<1>3. ASSUME NEW w \in Workers, NEW c \in Callers, Check(w, c) PROVE UNCHANGED registry
  BY <1>3 DEF Check, Fetch, FetchFails, Compare, LoadAndSwap, LoadFails, ClearError
<1> QED
  BY <1>1, <1>2, <1>3 DEF Next, vars

\* The workers leave the candidate pool what its own specification promises.
THEOREM PoolUntouched == Spec => SpecRegistry
<1>1. Init => InitRegistry
  BY DEF Init
<1> QED
  BY <1>1, RegistryStep, PTL DEF Spec, SpecRegistry

-----------------------------------------------------------------------------
(* Types.                                                                  *)

\* What serving's query returns is a set of versions.
LEMMA TopVersions ==
  ASSUME NEW n, NEW T \in TopSets(Active, n)
  PROVE  T \in SUBSET Versions
  BY DEF TopSets, Active

\* Start-up checks run while the worker is down, the others while it is up.
PhaseOK ==
  \A w \in Workers, c \in Callers : ~At(w, c, "none") => (up[w] <=> c # "startup")

\* A check begins in its phase and is over, or goes on, when the phase ends.
LEMMA PhaseStep ==
  ASSUME TypeOK, [Next]_vars
  PROVE  PhaseOK'
<1>t. /\ check \in [Workers -> [Callers -> [stage : {"none", "fetched", "load", "swapped"},
                                         rows : SUBSET Versions, known : SUBSET Versions,
                                         seen : SUBSET Versions]]]
      /\ up \in [Workers -> BOOLEAN]
  BY DEF TypeOK
<1>i. \A w \in Workers, c \in Callers : check[w][c].stage # "none" => (up[w] <=> c # "startup")
  BY DEF TypeOK, At
<1>1. ASSUME UNCHANGED <<up, check>> PROVE PhaseOK'
  BY <1>1, <1>i DEF PhaseOK, At
<1>2. ASSUME NEW w \in Workers, Die(w) PROVE PhaseOK'
  <2>1. \A x \in Workers : x # w => up'[x] = up[x] /\ check'[x] = check[x]
    BY <1>2, <1>t DEF Die
  <2>2. \A c \in Callers : check'[w][c].stage = "none"
    BY <1>2, <1>t DEF Die, None
  <2> QED
    BY <1>i, <2>1, <2>2 DEF PhaseOK, At
<1>3. ASSUME NEW w \in Workers, NEW c \in Callers, Check(w, c) PROVE PhaseOK'
  <2>1. \A x \in Workers : \A d \in Callers :
          <<x, d>> # <<w, c>> => check'[x][d] = check[x][d]
    BY <1>3, <1>t DEF Check, Fetch, FetchFails, Compare, LoadAndSwap, LoadFails, ClearError,
                      Ends, Swapped
  <2>2. ASSUME up' = up, check[w][c].stage # "none" \/ Starts(w, c) PROVE PhaseOK'
    <3>1. up[w] <=> c # "startup"
      BY <1>i, <2>2 DEF Starts
    <3> QED
      BY <1>i, <2>1, <2>2, <3>1 DEF PhaseOK, At
  <2>3. CASE LoadAndSwap(w, c)
    <3>1. up' = [up EXCEPT ![w] = TRUE] /\ check[w][c].stage = "load"
      BY <2>3 DEF LoadAndSwap, At
    <3>2. up[w] <=> c # "startup"
      BY <1>i, <3>1
    <3>3. CASE c = "startup"
      <4>1. check'[w][c].stage = "none"
        BY <1>t, <2>3, <3>3 DEF LoadAndSwap, Swapped, Ends, None
      <4>2. \A d \in Callers : check'[w][d].stage = "none"
        BY <1>i, <2>1, <3>2, <3>3, <4>1
      <4> QED
        BY <1>i, <1>t, <2>1, <3>1, <4>2 DEF PhaseOK, At
    <3>4. CASE c # "startup"
      <4>1. up' = up
        BY <1>t, <3>1, <3>2, <3>4
      <4> QED
        BY <2>2, <3>1, <4>1
    <3> QED
      BY <3>3, <3>4
  <2>4. CASE Fetch(w, c) \/ FetchFails(w, c)
    BY <2>2, <2>4 DEF Fetch, FetchFails, handle
  <2>5. CASE Compare(w, c) \/ LoadFails(w, c) \/ ClearError(w, c)
    BY <2>2, <2>5 DEF Compare, LoadFails, ClearError, handle, At
  <2> QED
    BY <1>3, <2>3, <2>4, <2>5 DEF Check
<1>4. ASSUME NEW v \in Versions, Promote(v) PROVE PhaseOK'
  BY <1>1, <1>4 DEF Promote, handle
<1>5. CASE UNCHANGED vars
  BY <1>1, <1>5 DEF vars
<1> QED
  BY <1>2, <1>3, <1>4, <1>5 DEF Next

\* Every worker and every check keep to their types.
LEMMA ReloadTypeStep == TypeOK /\ [Next]_vars => TypeOK'
<1> SUFFICES ASSUME TypeOK, [Next]_vars PROVE TypeOK'
  OBVIOUS
<1>0. RegistryTypeOK' /\ promoted \in SUBSET Versions
  BY RegistryStep, TypeStep DEF TypeOK, RegistryTypeOK
<1>p. PhaseOK'
  BY PhaseStep
<1> DEFINE Stages == {"none", "fetched", "load", "swapped"}
           Checks == [stage : Stages, rows : SUBSET Versions, known : SUBSET Versions,
                      seen : SUBSET Versions]
<1>n. None \in Checks /\ [None EXCEPT !.stage = "swapped"] \in Checks
  BY DEF None
<1>f. Fault => faults' \in 0..MaxFaults
  BY ReloadAssumption DEF Fault, TypeOK
<1>t. /\ up \in [Workers -> BOOLEAN] /\ error \in [Workers -> BOOLEAN]
      /\ loaded \in [Workers -> SUBSET Versions] /\ checked \in [Workers -> SUBSET Versions]
      /\ check \in [Workers -> [Callers -> Checks]]
      /\ faults \in 0..MaxFaults
  BY DEF TypeOK
<1> HIDE DEF Checks
<1>1. ASSUME NEW v \in Versions, Promote(v) PROVE TypeOK'
  BY <1>0, <1>p, <1>1, <1>t DEF TypeOK, PhaseOK, Promote, handle, Checks
<1>2. ASSUME NEW w \in Workers, Die(w) PROVE TypeOK'
  <2>1. [c \in Callers |-> None] \in [Callers -> Checks]
    BY <1>n
  <2>2. check' \in [Workers -> [Callers -> Checks]]
    BY <1>2, <1>t, <2>1 DEF Die
  <2>3. faults' \in 0..MaxFaults
    BY <1>2, <1>f DEF Die
  <2> QED
    BY <1>0, <1>p, <1>2, <1>t, <2>2, <2>3 DEF TypeOK, PhaseOK, Die, Checks
<1>3. ASSUME NEW w \in Workers, NEW c \in Callers, Check(w, c) PROVE TypeOK'
  <2>1. check[w] \in [Callers -> Checks] /\ check[w][c] \in Checks
    BY <1>t
  <2>2. check[w][c].rows \in SUBSET Versions
    BY <2>1 DEF Checks
  <2>3. ASSUME NEW k \in Checks, check' = [check EXCEPT ![w][c] = k]
        PROVE  check' \in [Workers -> [Callers -> Checks]]
    BY <1>t, <2>1, <2>3
  <2>4. CASE Fetch(w, c)
    <3>1. PICK T \in TopSets(Active, Serve) :
            check' = [check EXCEPT ![w][c] =
              [stage |-> IF c = "startup" THEN "load" ELSE "fetched", rows |-> T,
               known |-> promoted, seen |-> {}]]
      BY <2>4 DEF Fetch
    <3>2. [stage |-> IF c = "startup" THEN "load" ELSE "fetched", rows |-> T,
           known |-> promoted, seen |-> {}]
            \in Checks
      BY <1>0, TopVersions DEF Checks
    <3>3. check' \in [Workers -> [Callers -> Checks]]
      BY <2>3, <3>1, <3>2
    <3> QED
      BY <1>0, <1>p, <1>t, <2>4, <3>3 DEF TypeOK, PhaseOK, Fetch, handle, Checks
  <2>5. CASE FetchFails(w, c)
    <3>1. faults' \in 0..MaxFaults
      BY <1>f, <1>t, <2>5 DEF FetchFails
    <3> QED
      BY <1>0, <1>p, <1>t, <2>5, <3>1 DEF TypeOK, PhaseOK, FetchFails, Checks
  <2>6. CASE Compare(w, c)
    <3>1. loaded[w] \in SUBSET Versions
      BY <1>t
    <3>2. [check[w][c] EXCEPT !.stage = "load", !.seen = loaded[w]] \in Checks
      BY <2>1, <3>1 DEF Checks
    <3>3. \/ check' = [check EXCEPT ![w][c] = None]
          \/ check' = [check EXCEPT ![w][c] =
                         [check[w][c] EXCEPT !.stage = "load", !.seen = loaded[w]]]
      BY <1>t, <2>1, <2>6 DEF Compare, Ends
    <3>4. check' \in [Workers -> [Callers -> Checks]]
      BY <1>n, <2>3, <3>2, <3>3
    <3> QED
      BY <1>0, <1>p, <1>t, <2>6, <3>4 DEF TypeOK, PhaseOK, Compare, handle, Checks
  <2>7. CASE LoadAndSwap(w, c)
    <3>1. check' \in [Workers -> [Callers -> Checks]]
      BY <1>n, <2>3, <2>7 DEF LoadAndSwap, Swapped, Ends
    <3> QED
      BY <1>0, <1>p, <1>t, <2>2, <2>7, <3>1 DEF TypeOK, PhaseOK, LoadAndSwap, Checks
  <2>8. CASE LoadFails(w, c)
    <3>1. check' \in [Workers -> [Callers -> Checks]]
      BY <1>n, <2>3, <2>8 DEF LoadFails, Ends
    <3>2. faults' \in 0..MaxFaults
      BY <1>f, <1>t, <2>8 DEF LoadFails
    <3> QED
      BY <1>0, <1>p, <1>t, <2>2, <2>8, <3>1, <3>2 DEF TypeOK, PhaseOK, LoadFails, Checks
  <2>9. CASE ClearError(w, c)
    <3>1. check' \in [Workers -> [Callers -> Checks]]
      BY <1>n, <2>3, <2>9 DEF ClearError, Ends
    <3> QED
      BY <1>0, <1>p, <1>t, <2>9, <3>1 DEF TypeOK, PhaseOK, ClearError, Checks
  <2> QED
    BY <1>3, <2>4, <2>5, <2>6, <2>7, <2>8, <2>9 DEF Check
<1>4. CASE UNCHANGED vars
  BY <1>0, <1>p, <1>4, <1>t DEF TypeOK, PhaseOK, vars, Checks
<1> QED
  BY <1>1, <1>2, <1>3, <1>4 DEF Next

\* Initially every worker is down and checks nothing.
LEMMA ReloadTypeInit == Init => TypeOK
<1> SUFFICES ASSUME Init PROVE TypeOK
  OBVIOUS
<1>1. RegistryTypeOK
  BY BestInit DEF Init, BestInv
<1>2. faults \in 0..MaxFaults
  BY ReloadAssumption DEF Init
<1> QED
  BY <1>1, <1>2 DEF Init, TypeOK, None, At

\* The type invariant of the workers.
THEOREM ReloadTypeCorrect == Spec => []TypeOK
  BY ReloadTypeInit, ReloadTypeStep, PTL DEF Spec

-----------------------------------------------------------------------------
(* A worker that is up has models.                                         *)

\* What a worker may serve: promoted models, at least one and at most Serve.
Good(S) == S # {} /\ S \subseteq promoted /\ Cardinality(S) <= Serve

\* What the rows of a check are worth: good to serve, with every model that was
\* clearly one of the best when they were read and still is, and loadable where
\* they are reused.
CheckOK(w, c) ==
  /\ check[w][c].stage \in {"fetched", "load"} =>
       /\ Good(check[w][c].rows)
       /\ \A v \in check[w][c].known : v \in promoted /\ (Clear(v) => v \in check[w][c].rows)
  /\ check[w][c].stage = "load" => check[w][c].seen \cap Unloadable = {}

ChecksOK == \A w \in Workers, c \in Callers : CheckOK(w, c)

\* A worker that is down has no models, and what it reuses had been loaded.
LoadedOK ==
  \A w \in Workers :
    /\ loaded[w] \cap Unloadable = {}
    /\ IF up[w] THEN Good(loaded[w]) ELSE loaded[w] = {}

ServeInv == TypeOK /\ BestInv /\ ChecksOK /\ LoadedOK

\* The rows of the query are good to serve, also after more promotions.
LEMMA TopGood ==
  ASSUME BestInv, Active # {}, NEW T \in TopSets(Active, Serve)
  PROVE  Good(T)
<1>1. T \subseteq Active /\ Active \subseteq promoted /\ Active \in SUBSET Versions
  BY DEF TopSets, BestInv, ActivePromoted, Active
<1>2. Serve \in Nat /\ Serve >= 1
  BY PoolAssumption
<1>3. Cardinality(T) <= Serve
  BY <1>1, <1>2, TopSize
<1>4. T # {}
  <2>1. CASE Cardinality(Active) <= Serve
    BY <2>1 DEF TopSets
  <2>2. CASE ~(Cardinality(Active) <= Serve)
    BY <1>2, <2>2, FS_EmptySet DEF TopSets
  <2> QED
    BY <2>1, <2>2
<1> QED
  BY <1>1, <1>3, <1>4 DEF Good

\* What was promoted stays in the history.
LEMMA PromotedGrows == [Next]_vars => promoted \subseteq promoted'
<1> SUFFICES ASSUME [NextRegistry]_registry PROVE promoted \subseteq promoted'
  BY RegistryStep
<1> QED
  BY DEF NextRegistry, Training, Train, RegisterInactive, Select, Update, Commit, Abort,
         registry

\* A model that is clearly one of the best was so before, if it was there.
LEMMA ClearBefore ==
  ASSUME BestInv, BestInv', [Next]_vars, NEW v \in promoted, Clear(v)'
  PROVE  Clear(v)
<1>1. auc' = auc
  BY RegistryStep, AucConstant DEF registry
<1>2. promoted \subseteq promoted' /\ promoted' \in SUBSET Versions
  BY PromotedGrows DEF BestInv, RegistryTypeOK
<1> DEFINE Now == {u \in promoted \ {v} : auc[v] <= auc[u]}
           Then == {u \in promoted' \ {v} : auc[v] <= auc[u]}
<1>3. Then \in SUBSET Versions /\ Now \in SUBSET Then
  BY <1>2
<1>4. Cardinality(Now) \in Nat /\ Cardinality(Then) \in Nat /\ Serve \in Nat
  BY <1>3, VersionsFinite, PoolAssumption
<1>5. Cardinality(Now) <= Cardinality(Then)
  BY <1>3, NoFewer
<1>6. Cardinality(Then) < Serve
  BY <1>1 DEF Clear
<1>7. Cardinality(Now) < Serve
  BY <1>4, <1>5, <1>6
<1> QED
  BY <1>7 DEF Clear

\* A worker that has not started has nothing to keep up.
LEMMA ServeInit == Init => ServeInv
<1> SUFFICES ASSUME Init PROVE ServeInv
  OBVIOUS
<1>1. TypeOK /\ BestInv
  BY ReloadTypeInit, BestInit DEF Init
<1>2. ChecksOK /\ LoadedOK
  BY DEF Init, ChecksOK, CheckOK, LoadedOK, None
<1> QED
  BY <1>1, <1>2 DEF ServeInv

\* Every step of a check, of a training run and of gunicorn keeps the invariant.
LEMMA ServeStep == ServeInv /\ [Next]_vars => ServeInv'
<1> SUFFICES ASSUME ServeInv, [Next]_vars PROVE ServeInv'
  OBVIOUS
<1> DEFINE Rest == ChecksOK /\ LoadedOK
<1>0. TypeOK' /\ BestInv' /\ BestInv
  BY ReloadTypeStep, RegistryStep, BestStep DEF ServeInv
<1>t. /\ check \in [Workers -> [Callers -> [stage : {"none", "fetched", "load", "swapped"},
                                         rows : SUBSET Versions, known : SUBSET Versions,
                                         seen : SUBSET Versions]]]
      /\ up \in [Workers -> BOOLEAN] /\ loaded \in [Workers -> SUBSET Versions]
  BY DEF ServeInv, TypeOK
<1>g. promoted \subseteq promoted'
  BY PromotedGrows
<1>h. \A S : Good(S) => Good(S)'
  BY <1>g DEF Good
<1>k. \A v \in promoted : Clear(v)' => Clear(v)
  BY <1>0, ClearBefore
<1>i. /\ \A w \in Workers, c \in Callers : CheckOK(w, c)
      /\ LoadedOK
  BY DEF ServeInv, ChecksOK
<1>s. ASSUME NEW w \in Workers, NEW c \in Callers, check'[w][c] = check[w][c]
      PROVE  CheckOK(w, c)'
  <2>1. CheckOK(w, c)
    BY <1>i
  <2> QED
    BY <1>g, <1>h, <1>k, <1>s, <2>1 DEF CheckOK
<1>1. ASSUME UNCHANGED <<up, loaded>> PROVE LoadedOK'
  BY <1>1, <1>h, <1>i DEF LoadedOK
<1>2. ASSUME NEW w \in Workers, Die(w) PROVE Rest'
  <2>1. \A x \in Workers : x # w =>
          up'[x] = up[x] /\ loaded'[x] = loaded[x] /\ check'[x] = check[x]
    BY <1>2, <1>t DEF Die
  <2>2. ~up'[w] /\ loaded'[w] = {} /\ \A c \in Callers : check'[w][c].stage = "none"
    BY <1>2, <1>t DEF Die, None
  <2>3. ASSUME NEW x \in Workers, NEW c \in Callers PROVE CheckOK(x, c)'
    <3>1. CASE x = w
      BY <2>2, <3>1 DEF CheckOK
    <3>2. CASE x # w
      BY <1>s, <2>1, <3>2
    <3> QED
      BY <3>1, <3>2
  <2>4. LoadedOK'
    BY <1>h, <1>i, <2>1, <2>2 DEF LoadedOK
  <2> QED
    BY <2>3, <2>4 DEF ChecksOK
<1>3. ASSUME NEW w \in Workers, NEW c \in Callers, Check(w, c) PROVE Rest'
  <2>1. \A x \in Workers : \A d \in Callers :
          <<x, d>> # <<w, c>> => check'[x][d] = check[x][d]
    BY <1>3, <1>t DEF Check, Fetch, FetchFails, Compare, LoadAndSwap, LoadFails, ClearError,
                      Ends, Swapped
  <2>2. CheckOK(w, c)
    BY <1>i
  <2>3. ASSUME CheckOK(w, c)' PROVE ChecksOK'
    BY <1>s, <2>1, <2>3 DEF ChecksOK
  <2>4. CASE Fetch(w, c)
    <3>1. PICK T \in TopSets(Active, Serve) :
            check' = [check EXCEPT ![w][c] =
              [stage |-> IF c = "startup" THEN "load" ELSE "fetched", rows |-> T,
               known |-> promoted, seen |-> {}]]
      BY <2>4 DEF Fetch
    <3>2. /\ check'[w][c].rows = T /\ check'[w][c].known = promoted
          /\ check'[w][c].seen = {}
      BY <1>t, <3>1
    <3>3. Good(T)'
      BY <1>0, <1>h, <2>4, TopGood DEF Fetch
    <3>4. \A v \in promoted : v \in promoted' /\ (Clear(v)' => v \in T)
      BY <1>0, <1>g, <1>k, ClearServed
    <3>5. CheckOK(w, c)'
      BY <3>2, <3>3, <3>4 DEF CheckOK
    <3>6. LoadedOK'
      BY <1>1, <2>4 DEF Fetch, handle
    <3> QED
      BY <2>3, <3>5, <3>6
  <2>5. CASE FetchFails(w, c)
    <3>1. LoadedOK' /\ check' = check
      BY <1>1, <2>5 DEF FetchFails
    <3> QED
      BY <1>s, <2>3, <3>1
  <2>6. CASE Compare(w, c)
    <3>1. LoadedOK' /\ check[w][c].stage = "fetched"
      BY <1>1, <2>6 DEF Compare, handle, At
    <3>2. CASE Ends(w, c)
      <4>1. check'[w][c].stage = "none"
        BY <1>t, <3>2 DEF Ends, None
      <4> QED
        BY <2>3, <3>1, <4>1 DEF CheckOK
    <3>3. CASE check' = [check EXCEPT ![w][c].stage = "load", ![w][c].seen = loaded[w]]
      <4>1. /\ check'[w][c].seen = loaded[w] /\ check'[w][c].rows = check[w][c].rows
            /\ check'[w][c].known = check[w][c].known
        BY <1>t, <3>3
      <4>2. loaded[w] \cap Unloadable = {}
        BY <1>i DEF LoadedOK
      <4>3. /\ Good(check[w][c].rows)'
            /\ \A v \in check[w][c].known :
                 v \in promoted' /\ (Clear(v)' => v \in check[w][c].rows)
        <5>1. /\ Good(check[w][c].rows)
              /\ \A v \in check[w][c].known : v \in promoted /\ (Clear(v) => v \in check[w][c].rows)
          BY <2>2, <3>1 DEF CheckOK
        <5>2. Good(check[w][c].rows)'
          BY <1>g, <4>1, <5>1 DEF Good
        <5> QED
          BY <1>g, <1>k, <5>1, <5>2
      <4>4. CheckOK(w, c)'
        BY <4>1, <4>2, <4>3 DEF CheckOK, Good
      <4> QED
        BY <2>3, <3>1, <4>4
    <3> QED
      BY <2>6, <3>2, <3>3 DEF Compare
  <2>7. CASE LoadAndSwap(w, c)
    <3>1. check[w][c].stage = "load"
      BY <2>7 DEF LoadAndSwap, At
    <3>2. Good(check[w][c].rows) /\ check[w][c].rows \cap Unloadable = {}
      BY <2>2, <2>7, <3>1 DEF CheckOK, LoadAndSwap, ToLoad
    <3>3. /\ up' = [up EXCEPT ![w] = TRUE]
          /\ loaded' = [loaded EXCEPT ![w] = check[w][c].rows]
      BY <2>7 DEF LoadAndSwap
    <3>4. ASSUME NEW x \in Workers
          PROVE  /\ loaded'[x] \cap Unloadable = {}
                 /\ IF up'[x] THEN Good(loaded[x])' ELSE loaded'[x] = {}
      <4>1. CASE x = w
        BY <1>h, <1>t, <3>2, <3>3, <4>1 DEF Good
      <4>2. CASE x # w
        <5>1. up'[x] = up[x] /\ loaded'[x] = loaded[x]
          BY <1>t, <3>3, <4>2
        <5> QED
          BY <1>h, <1>i, <5>1 DEF LoadedOK, Good
      <4> QED
        BY <4>1, <4>2
    <3>5. check'[w][c].stage \in {"none", "swapped"}
      BY <1>t, <2>7 DEF LoadAndSwap, Swapped, Ends, None
    <3>6. CheckOK(w, c)'
      BY <3>5 DEF CheckOK
    <3> QED
      BY <2>3, <3>4, <3>6 DEF LoadedOK
  <2>8. CASE LoadFails(w, c) \/ ClearError(w, c)
    <3>1. LoadedOK'
      BY <1>1, <2>8 DEF LoadFails, ClearError
    <3>2. check'[w][c].stage = "none"
      BY <1>t, <2>8 DEF LoadFails, ClearError, Ends, None
    <3> QED
      BY <2>3, <3>1, <3>2 DEF CheckOK
  <2> QED
    BY <1>3, <2>4, <2>5, <2>6, <2>7, <2>8 DEF Check
<1>4. ASSUME UNCHANGED <<up, loaded, check>> PROVE Rest'
  BY <1>1, <1>s, <1>4 DEF ChecksOK
<1>5. Rest'
  <2>1. ASSUME NEW v \in Versions, Promote(v) PROVE Rest'
    BY <1>4, <2>1 DEF Promote, handle
  <2>2. CASE UNCHANGED vars
    BY <1>4, <2>2 DEF vars
  <2> QED
    BY <1>2, <1>3, <2>1, <2>2 DEF Next
<1> QED
  BY <1>0, <1>5 DEF ServeInv

\* The invariant that holds whichever checks overlap.
THEOREM ServeAlways == Spec => []ServeInv
  BY ServeInit, ServeStep, PTL DEF Spec

\* A worker that is up always has models to serve, all of them promoted and
\* loadable, whatever is promoted, whichever checks overlap and however they fail.
THEOREM AlwaysServesModels == Spec => []AlwaysServes
<1>1. ServeInv => AlwaysServes
  BY DEF ServeInv, LoadedOK, AlwaysServes, Good
<1> QED
  BY <1>1, ServeAlways, PTL

-----------------------------------------------------------------------------
(* What a swap takes out.                                                  *)

\* Only a swap changes the models of a worker that stays up, and it brings in
\* whatever its check knew to be clearly one of the best.
LEMMA SwapStep ==
  ASSUME ServeInv, [Next]_vars, NEW w \in Workers, up[w], up'[w]
  PROVE  SwapKeepsBest(w)
<1>t. /\ check \in [Workers -> [Callers -> [stage : {"none", "fetched", "load", "swapped"},
                                         rows : SUBSET Versions, known : SUBSET Versions,
                                         seen : SUBSET Versions]]]
      /\ up \in [Workers -> BOOLEAN] /\ loaded \in [Workers -> SUBSET Versions]
  BY DEF ServeInv, TypeOK
<1>1. ASSUME loaded'[w] = loaded[w] PROVE SwapKeepsBest(w)
  BY <1>1 DEF SwapKeepsBest
<1>2. ASSUME NEW x \in Workers, Die(x) PROVE loaded'[w] = loaded[w]
  BY <1>2, <1>t DEF Die
<1>3. ASSUME NEW x \in Workers, NEW c \in Callers, Check(x, c), ~LoadAndSwap(x, c)
      PROVE  loaded' = loaded
  BY <1>3 DEF Check, Fetch, FetchFails, Compare, LoadFails, ClearError, handle
<1>4. ASSUME NEW x \in Workers, NEW c \in Callers, LoadAndSwap(x, c) PROVE SwapKeepsBest(w)
  <2>1. CASE x # w
    <3>1. loaded'[w] = loaded[w]
      BY <1>4, <1>t, <2>1 DEF LoadAndSwap
    <3> QED
      BY <1>1, <3>1
  <2>2. CASE x = w
    <3>1. loaded'[w] = check[w][c].rows /\ check[w][c].stage = "load"
      BY <1>4, <1>t, <2>2 DEF LoadAndSwap, At
    <3>2. \A v \in check[w][c].known : Clear(v) => v \in check[w][c].rows
      BY <3>1 DEF ServeInv, ChecksOK, CheckOK
    <3>3. check'[w][c].stage \in {"none", "swapped"}
      BY <1>4, <1>t, <2>2 DEF LoadAndSwap, Swapped, Ends, None
    <3> QED
      BY <3>1, <3>2, <3>3 DEF SwapKeepsBest
  <2> QED
    BY <2>1, <2>2
<1>5. ASSUME NEW v \in Versions, Promote(v) PROVE loaded' = loaded
  BY <1>5 DEF Promote, handle
<1>6. CASE UNCHANGED vars
  BY <1>1, <1>6 DEF vars
<1> QED
  BY <1>1, <1>2, <1>3, <1>4, <1>5, <1>6 DEF Next

\* A swap takes out a model that is clearly one of the best only if its check
\* read the registry before that model was promoted (maybe_reload): so far and no
\* further goes what overlapping checks and training runs can do to a worker.
THEOREM SwapsKeepTheBest == Spec => SwapsKeepBest
<1>1. ServeInv /\ [Next]_vars => [\A w \in Workers : up[w] /\ up'[w] => SwapKeepsBest(w)]_vars
  BY SwapStep
<1> QED
  BY <1>1, ServeAlways, PTL DEF Spec, SwapsKeepBest
=============================================================================
