------------------------------ MODULE ModelReload ------------------------------
(***************************************************************************)
(* The gunicorn workers of the scoring API and how each keeps the models   *)
(* it serves up to date with the candidate pool of ModelRegistry           *)
(* (serving/model_registry.py; serving/main.py: lifespan, the poll loop    *)
(* and POST /admin/reload).                                                *)
(*                                                                         *)
(* Every worker is a process with a ModelHandle of its own. A check of the *)
(* registry runs in a thread (asyncio.to_thread): the poll loop has one at *)
(* a time, an admin request starts another, and start-up runs its own      *)
(* before anything else. A check reads the registry, compares, loads and   *)
(* swaps; the lock of the handle covers the reading of the models and the  *)
(* swap, each by itself.                                                   *)
(***************************************************************************)
EXTENDS ModelRegistry

CONSTANTS Workers,
          Callers,     \* who starts checks: "startup", "poll" and perhaps "admin"
          Unloadable,  \* versions whose artifact MLflow cannot load
          MaxFaults    \* bound: failures of Postgres, MLflow and workers

ASSUME ReloadAssumption ==
  /\ Callers \subseteq {"startup", "poll", "admin"} /\ Unloadable \subseteq Versions
  /\ MaxFaults \in Nat

VARIABLES
  up,       \* the worker serves requests
  loaded,   \* _current_models of a worker
  error,    \* last_reload_error is set
  check,    \* the check each caller has under way
  checked,  \* history: the rows of the check that swapped or failed last
  faults

handle == <<up, loaded, error, checked>>
vars == <<registry, up, loaded, error, check, checked, faults>>

None == [stage |-> "none", rows |-> {}, known |-> {}, seen |-> {}]

Fault == faults < MaxFaults /\ faults' = faults + 1

At(w, c, s) == check[w][c].stage = s
Ends(w, c) == check' = [check EXCEPT ![w][c] = None]

-----------------------------------------------------------------------------
Init ==
  /\ InitRegistry
  /\ up = [w \in Workers |-> FALSE]
  /\ loaded = [w \in Workers |-> {}]
  /\ error = [w \in Workers |-> FALSE]
  /\ check = [w \in Workers |-> [c \in Callers |-> None]]
  /\ checked = [w \in Workers |-> {}]
  /\ faults = 0

\* A step of a training run.
Promote(v) ==
  /\ Training(v)
  /\ UNCHANGED <<handle, check, faults>>

\* A worker dies; gunicorn starts another one in its place.
Die(w) ==
  /\ up[w] /\ Fault
  /\ up' = [up EXCEPT ![w] = FALSE]
  /\ loaded' = [loaded EXCEPT ![w] = {}]
  /\ error' = [error EXCEPT ![w] = FALSE]
  /\ checked' = [checked EXCEPT ![w] = {}]
  /\ check' = [check EXCEPT ![w] = [c \in Callers |-> None]]
  /\ UNCHANGED registry

\* Mutant: the poll loop is started before the models are loaded.
StartsEarly(w, c) == At(w, c, "none") /\ (up[w] => c # "startup")

\* The check of a caller begins: load_initial, or maybe_reload with the lookup.
Starts(w, c) == At(w, c, "none") /\ (up[w] <=> c # "startup")

\* _fetch_active_rows returns the rows of the best Serve.
Fetch(w, c) ==
  /\ Starts(w, c) /\ Active # {}
  /\ \E T \in TopSets(Active, Serve) :
       check' = [check EXCEPT ![w][c] =
         [stage |-> IF c = "startup" THEN "load" ELSE "fetched", rows |-> T,
          known |-> promoted, seen |-> {}]]
  /\ UNCHANGED <<registry, handle, faults>>

\* The lookup fails, or there is no active row: maybe_reload notes the error. A
\* worker that starts up exits and is started again, so nothing changes.
FetchFails(w, c) ==
  /\ Starts(w, c) /\ c # "startup"
  /\ \/ Active = {} /\ UNCHANGED faults
     \/ Fault
  /\ error' = [error EXCEPT ![w] = TRUE]
  /\ UNCHANGED <<registry, up, loaded, check, checked>>

\* Mutant: one version that is served already is enough.
CompareOne(w, c) ==
  /\ At(w, c, "fetched")
  /\ IF c = "poll" /\ check[w][c].rows \cap loaded[w] # {}
       THEN Ends(w, c)
       ELSE check' = [check EXCEPT ![w][c].stage = "load", ![w][c].seen = loaded[w]]
  /\ UNCHANGED <<registry, handle, faults>>

\* The versions being served are read under the lock. The poll loop is done when
\* they are those of the registry; an admin reload goes on (force).
Compare(w, c) ==
  /\ At(w, c, "fetched")
  /\ IF c = "poll" /\ check[w][c].rows = loaded[w]
       THEN Ends(w, c)
       ELSE check' = [check EXCEPT ![w][c].stage = "load", ![w][c].seen = loaded[w]]
  /\ UNCHANGED <<registry, handle, faults>>

\* The models of a check that are not reused from those it has seen.
ToLoad(w, c) == check[w][c].rows \ check[w][c].seen

\* What is left to do after the swap: load_initial has nothing.
Swapped(w, c) ==
  IF c = "startup" THEN Ends(w, c)
                   ELSE check' = [check EXCEPT ![w][c] = [None EXCEPT !.stage = "swapped"]]

\* Mutant: rows that cannot be loaded are left out.
LoadWhatLoads(w, c) ==
  /\ At(w, c, "load")
  /\ loaded' = [loaded EXCEPT ![w] = check[w][c].rows \ Unloadable]
  /\ up' = [up EXCEPT ![w] = TRUE]
  /\ checked' = [checked EXCEPT ![w] = check[w][c].rows]
  /\ Swapped(w, c)
  /\ UNCHANGED <<registry, error, faults>>

\* Mutant: the models that are reused do not get into the new list.
LoadNewOnly(w, c) ==
  /\ At(w, c, "load") /\ ToLoad(w, c) \cap Unloadable = {}
  /\ loaded' = [loaded EXCEPT ![w] = ToLoad(w, c)]
  /\ up' = [up EXCEPT ![w] = TRUE]
  /\ checked' = [checked EXCEPT ![w] = check[w][c].rows]
  /\ Swapped(w, c)
  /\ UNCHANGED <<registry, error, faults>>

\* All rows are loaded or reused, then the models are swapped under the lock.
\* After load_initial the worker serves.
LoadAndSwap(w, c) ==
  /\ At(w, c, "load") /\ ToLoad(w, c) \cap Unloadable = {}
  /\ loaded' = [loaded EXCEPT ![w] = check[w][c].rows]
  /\ up' = [up EXCEPT ![w] = TRUE]
  /\ checked' = [checked EXCEPT ![w] = check[w][c].rows]
  /\ Swapped(w, c)
  /\ UNCHANGED <<registry, error, faults>>

\* Mutant: the error of a failed load is only logged.
LoadFailsSilently(w, c) ==
  /\ At(w, c, "load")
  /\ \/ ToLoad(w, c) \cap Unloadable # {} /\ UNCHANGED faults
     \/ ToLoad(w, c) # {} /\ Fault
  /\ checked' = [checked EXCEPT ![w] = IF up[w] THEN check[w][c].rows ELSE @]
  /\ Ends(w, c)
  /\ UNCHANGED <<registry, up, loaded, error>>

\* A row cannot be loaded: the models served stay. A worker that starts up exits.
LoadFails(w, c) ==
  /\ At(w, c, "load")
  /\ \/ ToLoad(w, c) \cap Unloadable # {} /\ UNCHANGED faults
     \/ ToLoad(w, c) # {} /\ Fault
  /\ error' = [error EXCEPT ![w] = up[w]]
  /\ checked' = [checked EXCEPT ![w] = IF up[w] THEN check[w][c].rows ELSE @]
  /\ Ends(w, c)
  /\ UNCHANGED <<registry, up, loaded>>

\* maybe_reload clears the error, after it has released the lock.
ClearError(w, c) ==
  /\ At(w, c, "swapped")
  /\ error' = [error EXCEPT ![w] = FALSE]
  /\ Ends(w, c)
  /\ UNCHANGED <<registry, up, loaded, checked, faults>>

Check(w, c) == \/ Fetch(w, c) \/ FetchFails(w, c) \/ Compare(w, c)
               \/ LoadAndSwap(w, c) \/ LoadFails(w, c) \/ ClearError(w, c)

Next == \/ \E v \in Versions : Promote(v)
        \/ \E w \in Workers : Die(w)
        \/ \E w \in Workers, c \in Callers : Check(w, c)

Spec == Init /\ [][Next]_vars

\* A worker that is down is started again, the poll loop checks again and again,
\* and every check goes on: whoever began it, its thread is scheduled.
FairSpec ==
  /\ Spec
  /\ \A w \in Workers :
       /\ \A c \in Callers \ {"admin"} : WF_vars(Check(w, c))
       /\ WF_vars(\E c \in Callers : ~Starts(w, c) /\ Check(w, c))

-----------------------------------------------------------------------------
(* Properties.                                                             *)

\* The type invariant. Start-up has a check under way only while the worker is
\* down, the other callers only while it is up (lifespan).
TypeOK ==
  /\ RegistryTypeOK
  /\ up \in [Workers -> BOOLEAN] /\ error \in [Workers -> BOOLEAN]
  /\ loaded \in [Workers -> SUBSET Versions] /\ checked \in [Workers -> SUBSET Versions]
  /\ check \in [Workers -> [Callers -> [stage : {"none", "fetched", "load", "swapped"},
                                        rows : SUBSET Versions, known : SUBSET Versions,
                                        seen : SUBSET Versions]]]
  /\ faults \in 0..MaxFaults
  /\ \A w \in Workers, c \in Callers :
       ~At(w, c, "none") => (up[w] <=> c # "startup")

\* A worker that is up serves at least one and at most Serve models, all of them
\* loadable and promoted, whatever is promoted meanwhile, however reloads fail
\* and overlap: a request never finds no model (ModelHandle, maybe_reload).
AlwaysServes ==
  \A w \in Workers : up[w] =>
    /\ loaded[w] # {} /\ Cardinality(loaded[w]) <= Serve
    /\ loaded[w] \subseteq promoted \ Unloadable

\* A swap takes out a model that is clearly one of the best only if its check
\* read the registry before that model was promoted, however checks overlap: the
\* rows a check goes on with are old, but right for their time (maybe_reload).
SwapKeepsBest(w) ==
  \A v \in loaded[w] \ loaded'[w] : Clear(v) =>
    \E c \in Callers : check'[w][c] # check[w][c] /\ v \notin check[w][c].known

SwapsKeepBest == [][\A w \in Workers : up[w] /\ up'[w] => SwapKeepsBest(w)]_vars

\* Every worker ends up serving the best of the pool, however often it died and
\* its reloads failed, once faults and promotions have ended and unless the best
\* cannot be loaded (maybe_reload, the poll loop).
Servable ==
  /\ Active # {}
  /\ \A T \in TopSets(Active, Serve) : T \cap Unloadable = {}

ServesBest ==
  <>[](Servable => \A w \in Workers : loaded[w] \in TopSets(Active, Serve))

\* When the best of the pool cannot be loaded, every worker that is up comes to
\* say so, and no check that overlaps clears it for good (last_reload_error).
Blocked ==
  \/ Active = {}
  \/ \A T \in TopSets(Active, Serve) : T \cap Unloadable # {}

FailureShown ==
  <>[](Blocked => \A w \in Workers : up[w] => error[w])

-----------------------------------------------------------------------------
(* What the repository says and the code does not do.                      *)

\* model_registry: a failure is visible in last_reload_error. With no error the
\* models served are those of the check that swapped or failed last.
FailureVisible ==
  \A w \in Workers : up[w] /\ ~error[w] => loaded[w] = checked[w]

\* maybe_reload swaps if it finds newer active versions: a swap brings in models
\* at least as good as those it takes out.
Better(S, R) == \A x \in R \ S, y \in S \ R : auc[x] <= auc[y]

SwapsImprove ==
  [][\A w \in Workers : up[w] /\ up'[w] => Better(loaded'[w], loaded[w])]_vars

\* model_registry: a bad promotion never takes down /score. A worker that is down
\* comes up again when there is something to load.
BadPromotionHarmless ==
  \A w \in Workers : promoted \ Unloadable # {} /\ ~up[w] ~> up[w]
=============================================================================
