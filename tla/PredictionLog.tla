----------------------------- MODULE PredictionLog -----------------------------
(***************************************************************************)
(* The tables predictions and labels and the four programs that meet       *)
(* there: the scoring API writes predictions and explanations in           *)
(* background tasks (serving/main.py), the feature engine inserts the      *)
(* transactions, the feedback simulator confirms labels late               *)
(* (feedback/simulate_labels.py), and the poll loop of the API counts hits *)
(* and misses per model for Thompson sampling (ModelHandle.update_metrics).*)
(*                                                                         *)
(* A transaction is its timestamp. A request scores one transaction, and   *)
(* several requests may score the same one: a client that retries. A row   *)
(* of predictions is the request and the kind it was written for; its      *)
(* constant columns are those of the request.                              *)
(***************************************************************************)
EXTENDS Naturals, FiniteSets

CONSTANTS Requests, Models, Labellers,
          Txns,       \* timestamps of transactions
          Refused,    \* those whose row Postgres refuses, e.g. by CHAR(3)
          MinDelay, MaxDelay, \* LABEL_DELAY_MIN_HOURS, LABEL_DELAY_MAX_HOURS
          Limit,      \* BATCH_SIZE of a labelling pass
          MaxNow,     \* bound: the clock
          MaxFaults   \* bound: failures of Postgres and of processes

ASSUME LogAssumption ==
  /\ Txns \subseteq Nat \ {0} /\ Refused \subseteq Txns
  /\ IsFiniteSet(Requests) /\ Models # {}
  /\ MinDelay \in Nat /\ MaxDelay \in Nat /\ MinDelay <= MaxDelay
  /\ Limit \in Nat \ {0} /\ MaxNow \in Nat /\ MaxFaults \in Nat

VARIABLES
  mode,         \* SCORING_MODE is "shadow", ASYNC_DB_WRITE is "true"
  \* Postgres
  transactions, \* transactions with a row
  rows,         \* rows of predictions
  explained,    \* those with top_shap_features filled in
  confirmed,    \* those with label_confirmed_at filled in
  labels,       \* the outcome in the row of labels, or "none"
  \* the scoring API
  txn,          \* what a request scores, 0 before it is received
  model,        \* the model that is its primary
  flagged,      \* requests whose primary score is over the threshold
  todo,         \* the tasks of the request not yet done
  answered,     \* requests whose client has the response
  tally,        \* hits and misses of a model: alpha - 1 and beta - 1
  counted,      \* the rows PERFORMANCE_SQL has returned, while there are some
  \* the feedback simulator
  pass,         \* the pass each labeller is in
  now,
  \* history variables and bounds
  swallowed,    \* tasks whose error was logged and forgotten
  lost,         \* requests whose worker died with tasks to do
  faults

tables == <<transactions, rows, explained, confirmed, labels>>
requests == <<txn, model, flagged, todo, answered, swallowed, lost>>
bandit == <<tally, counted>>
vars == <<mode, transactions, rows, explained, confirmed, labels, txn, model, flagged,
          todo, answered, tally, counted, pass, now, swallowed, lost, faults>>

Kinds == {"primary", "shadow"}
Tasks == Kinds \cup {"shap"}
RowIds == Requests \X Kinds
Outcomes == {"fraud", "legit"}

\* Mutant: what is updated by txn_id is inserted when it is not there.
RowsToBe(t) == {id \in RowIds : txn[id[1]] = t}

\* The rows an update by txn_id finds.
RowsOf(t) == {id \in rows : txn[id[1]] = t}

Fault == faults < MaxFaults /\ faults' = faults + 1

Idle == [open |-> FALSE, at |-> 0, left |-> {}, given |-> {}, touched |-> {}, marks |-> {}]

\* alpha = beta = 1: what a model starts with when it is loaded.
Fresh == [m \in Models |-> [hits |-> 0, misses |-> 0]]

Init ==
  /\ mode \in [shadow : BOOLEAN, async : BOOLEAN]
  /\ transactions = {} /\ rows = {} /\ explained = {} /\ confirmed = {}
  /\ labels = [t \in Txns |-> "none"]
  /\ txn = [r \in Requests |-> 0] /\ model = [r \in Requests |-> CHOOSE m \in Models : TRUE]
  /\ flagged = {} /\ todo = [r \in Requests |-> {}]
  /\ answered = {} /\ tally = Fresh /\ counted = {}
  /\ pass = [l \in Labellers |-> Idle] /\ now = 0
  /\ swallowed = {} /\ lost = {} /\ faults = 0

-----------------------------------------------------------------------------
(* The scoring API.                                                        *)

\* The kinds of rows written: in shadow mode a second model scores as well.
Written == IF mode.shadow THEN Kinds ELSE {"primary"}

\* score: the primary is the model pick_model takes, or models[1]. The
\* explanation comes last, and only if the primary score is flagged. With
\* ASYNC_DB_WRITE the response does not wait for the writes.
Score(r, t) ==
  /\ txn[r] = 0
  /\ txn' = [txn EXCEPT ![r] = t]
  /\ \E m \in Models : model' = [model EXCEPT ![r] = m]
  /\ \/ /\ flagged' = flagged \cup {r}
        /\ todo' = [todo EXCEPT ![r] = Written \cup {"shap"}]
     \/ /\ UNCHANGED flagged
        /\ todo' = [todo EXCEPT ![r] = Written]
  /\ answered' = IF mode.async THEN answered \cup {r} ELSE answered
  /\ UNCHANGED <<mode, tables, bandit, pass, now, swallowed, lost, faults>>

\* Mutant: the explanation is stored while the writes are under way.
TurnAtOnce(r, k) == k \in todo[r]

\* The task whose turn it is: the primary's row, the shadow's, the explanation.
Turn(r, k) ==
  /\ k \in todo[r]
  /\ k = "shadow" => "primary" \notin todo[r]
  /\ k = "shap" => todo[r] = {"shap"}

\* A task ends. Without ASYNC_DB_WRITE the response goes out after the writes.
Ends(r, k) ==
  /\ todo' = [todo EXCEPT ![r] = @ \ {k}]
  /\ answered' = IF Kinds \cap (todo[r] \ {k}) = {} THEN answered \cup {r} ELSE answered

\* Mutant: the transaction is not inserted before the row that refers to it.
StorableAlone(t) == t \notin Refused /\ t \in transactions

\* Postgres accepts the transaction's row.
Storable(t) == t \notin Refused

\* One transaction of _write_prediction_to_db: the transaction's row unless it
\* is there, and the prediction that refers to it.
Stored(r, k) ==
  /\ Storable(txn[r])
  /\ transactions' = transactions \cup {txn[r]}
  /\ rows' = rows \cup {<<r, k>>}

WriteRest == UNCHANGED <<mode, explained, confirmed, labels, txn, model, flagged, bandit,
                         pass, now, lost>>

Write(r, k) ==
  /\ k \in Kinds /\ Turn(r, k) /\ Ends(r, k)
  /\ Stored(r, k)
  /\ WriteRest /\ UNCHANGED <<swallowed, faults>>

\* An error is logged and nothing else. When it is the reply of the commit that
\* is lost, the row is there.
WriteFails(r, k) ==
  /\ k \in Kinds /\ Turn(r, k) /\ Ends(r, k)
  /\ swallowed' = swallowed \cup {<<r, k>>}
  /\ \/ ~Storable(txn[r]) /\ UNCHANGED <<transactions, rows, faults>>
     \/ Fault /\ Stored(r, k)
     \/ Fault /\ UNCHANGED <<transactions, rows>>
  /\ WriteRest

\* The rows a labelling pass has updated and not yet committed.
Locked == UNION {pass[l].marks : l \in Labellers}

\* _compute_and_store_shap: the update goes by txn_id and waits for the locks of
\* a labelling pass on these rows; an error is logged and nothing else.
Explain(r) ==
  /\ Turn(r, "shap") /\ Ends(r, "shap")
  /\ \/ /\ RowsOf(txn[r]) \cap Locked = {}
        /\ explained' = explained \cup RowsOf(txn[r])
        /\ UNCHANGED <<swallowed, faults>>
     \/ /\ Fault /\ swallowed' = swallowed \cup {<<r, "shap">>}
        /\ UNCHANGED explained
  /\ UNCHANGED <<mode, transactions, rows, confirmed, labels, txn, model, flagged, bandit,
                 pass, now, lost>>

\* A worker dies with the tasks of the requests it serves.
WorkerDies(S) ==
  /\ \A r \in S : todo[r] # {}
  /\ Fault
  /\ lost' = lost \cup S
  /\ todo' = [r \in Requests |-> IF r \in S THEN {} ELSE todo[r]]
  /\ UNCHANGED <<mode, tables, txn, model, flagged, answered, bandit, pass, now, swallowed>>

\* The feature engine stores the transaction, before or after it is scored.
Ingest(t) ==
  /\ t \notin transactions \cup Refused
  /\ transactions' = transactions \cup {t}
  /\ UNCHANGED <<mode, rows, explained, confirmed, labels, requests, bandit, pass, now, faults>>

-----------------------------------------------------------------------------
(* update_metrics, in the poll loop of one worker.                         *)

\* The rows PERFORMANCE_SQL counts for a model: the shadow's carry another
\* version. Each row is counted, also several of one transaction.
Counted(m) == {r \in Requests : <<r, "primary">> \in rows /\ model[r] = m}

\* True positives; false positives and false negatives.
Tally(C) ==
  LET hits == {r \in C : r \in flagged /\ labels[txn[r]] = "fraud"}
      false == {r \in C : r \in flagged /\ labels[txn[r]] = "legit"}
      missed == {r \in C : r \notin flagged /\ labels[txn[r]] = "fraud"}
  IN  [hits |-> Cardinality(hits), misses |-> Cardinality(false \cup missed)]

\* Mutant: the rows to count are those with a label_confirmed_at.
ReadConfirmed ==
  /\ counted = {}
  /\ counted' = {[m \in Models |-> Tally({r \in Counted(m) : <<r, "primary">> \in confirmed})]}
  /\ UNCHANGED <<mode, tables, requests, tally, pass, now, faults>>

\* The query; when it fails the poll loop goes on.
ReadMetrics ==
  /\ counted = {}
  /\ counted' = {[m \in Models |-> Tally(Counted(m))]}
  /\ UNCHANGED <<mode, tables, requests, tally, pass, now, faults>>

\* Mutant: what was counted is added to alpha and beta.
AddMetrics ==
  \E c \in counted :
    /\ tally' = [m \in Models |-> [hits |-> tally[m].hits + c[m].hits,
                                   misses |-> tally[m].misses + c[m].misses]]
    /\ counted' = {}
    /\ UNCHANGED <<mode, tables, requests, pass, now, faults>>

\* alpha and beta of the current models become what was counted. (A model
\* without labelled rows is not among the results; its tally is zero.)
ApplyMetrics ==
  \E c \in counted :
    /\ tally' = c /\ counted' = {}
    /\ UNCHANGED <<mode, tables, requests, pass, now, faults>>

\* The worker or the model is loaded again: its alpha and beta are 1.
LoadedAgain ==
  /\ Fault
  /\ tally' = Fresh /\ counted' \in {{}, counted}
  /\ UNCHANGED <<mode, tables, requests, pass, now>>

-----------------------------------------------------------------------------
(* simulate_labels.run_once, one transaction of Postgres per pass.         *)

\* Mutant: a pass does not leave out what has a label.
OldEnough == {t \in transactions : t + MinDelay <= now}

\* SELECT_UNLABELED_SQL without its LIMIT.
Eligible == {t \in transactions : t + MinDelay <= now /\ labels[t] = "none"}

LabellerRest == UNCHANGED <<mode, transactions, rows, explained, requests, bandit, now>>

\* The oldest rows, up to the limit, are read.
Select(l) ==
  LET first == {t \in Eligible : Cardinality({u \in Eligible : u < t}) < Limit}
  IN  /\ ~pass[l].open /\ first # {}
      /\ pass' = [pass EXCEPT ![l] = [Idle EXCEPT !.open = TRUE, !.at = now, !.left = first]]
      /\ LabellerRest /\ UNCHANGED <<confirmed, labels, faults>>

\* The rows are gone through from the oldest on.
Oldest(l, t) == pass[l].open /\ t \in pass[l].left /\ \A u \in pass[l].left : t <= u

\* The delay drawn in this pass is longer than the transaction's age.
Skip(l, t) ==
  /\ Oldest(l, t)
  /\ pass[l].at < t + MaxDelay
  /\ pass' = [pass EXCEPT ![l].left = @ \ {t}]
  /\ LabellerRest /\ UNCHANGED <<confirmed, labels, faults>>

\* Mutant: the update takes effect before the label is committed.
ConfirmAutocommit(l, t) ==
  /\ Oldest(l, t) /\ \A k \in Labellers \ {l} : t \notin pass[k].touched
  /\ confirmed' = confirmed \cup RowsOf(t)
  /\ \E v \in Outcomes :
       pass' = [pass EXCEPT ![l].left = @ \ {t}, ![l].touched = @ \cup {t},
                            ![l].given = IF labels[t] = "none" THEN @ \cup {<<t, v>>} ELSE @]
  /\ LabellerRest /\ UNCHANGED <<labels, faults>>

\* Mutant: ON CONFLICT (txn_id) DO UPDATE.
ConfirmOverwrites(l, t) ==
  /\ Oldest(l, t) /\ \A k \in Labellers \ {l} : t \notin pass[k].touched
  /\ \E v \in Outcomes :
       pass' = [pass EXCEPT ![l].left = @ \ {t}, ![l].touched = @ \cup {t},
                            ![l].given = @ \cup {<<t, v>>}, ![l].marks = @ \cup RowsOf(t)]
  /\ LabellerRest /\ UNCHANGED <<confirmed, labels, faults>>

\* The label is inserted, unless the transaction has one by now, and the rows of
\* predictions there are get their label_confirmed_at. Both wait for a pass of
\* another labeller that has inserted the label and not yet committed.
Confirm(l, t) ==
  /\ Oldest(l, t) /\ \A k \in Labellers \ {l} : t \notin pass[k].touched
  /\ \E v \in Outcomes :
       pass' = [pass EXCEPT ![l].left = @ \ {t}, ![l].touched = @ \cup {t},
                            ![l].given = IF labels[t] = "none" THEN @ \cup {<<t, v>>} ELSE @,
                            ![l].marks = @ \cup RowsOf(t)]
  /\ LabellerRest /\ UNCHANGED <<confirmed, labels, faults>>

\* get_conn commits the pass.
CommitPass(l) ==
  /\ pass[l].open /\ pass[l].left = {}
  /\ labels' = [t \in Txns |->
       IF \E v \in Outcomes : <<t, v>> \in pass[l].given
         THEN CHOOSE v \in Outcomes : <<t, v>> \in pass[l].given
         ELSE labels[t]]
  /\ confirmed' = confirmed \cup pass[l].marks
  /\ pass' = [pass EXCEPT ![l] = Idle]
  /\ LabellerRest /\ UNCHANGED faults

\* Any error rolls the pass back, and so does the end of the process.
AbortPass(l) ==
  /\ pass[l].open /\ Fault
  /\ pass' = [pass EXCEPT ![l] = Idle]
  /\ LabellerRest /\ UNCHANGED <<confirmed, labels>>

Tick ==
  /\ now < MaxNow /\ now' = now + 1
  /\ UNCHANGED <<mode, tables, requests, bandit, pass, faults>>

-----------------------------------------------------------------------------
Task(r) == (\E k \in Kinds : Write(r, k) \/ WriteFails(r, k)) \/ Explain(r)

Labeller(l) ==
  \/ Select(l) \/ CommitPass(l) \/ AbortPass(l)
  \/ \E t \in Txns : Skip(l, t) \/ Confirm(l, t)

Next ==
  \/ \E r \in Requests, t \in Txns : Score(r, t)
  \/ \E r \in Requests : Task(r)
  \/ \E S \in SUBSET Requests \ {{}} : WorkerDies(S)
  \/ \E t \in Txns : Ingest(t)
  \/ ReadMetrics \/ ApplyMetrics \/ LoadedAgain
  \/ \E l \in Labellers : Labeller(l)
  \/ Tick

Spec == Init /\ [][Next]_vars

\* The event loop runs the tasks and the poll loop, the simulator polls.
FairSpec ==
  /\ Spec /\ WF_vars(Tick) /\ WF_vars(ReadMetrics) /\ WF_vars(ApplyMetrics)
  /\ \A r \in Requests : WF_vars(Task(r))
  /\ \A l \in Labellers : WF_vars(Labeller(l))

-----------------------------------------------------------------------------
(* Properties.                                                             *)

Pass == [open : BOOLEAN, at : Nat, left : SUBSET Txns, given : SUBSET (Txns \X Outcomes),
         touched : SUBSET Txns, marks : SUBSET RowIds]

\* The type invariant.
TypeOK ==
  /\ mode \in [shadow : BOOLEAN, async : BOOLEAN]
  /\ transactions \subseteq Txns /\ rows \subseteq RowIds
  /\ explained \subseteq rows /\ confirmed \subseteq rows
  /\ labels \in [Txns -> Outcomes \cup {"none"}]
  /\ txn \in [Requests -> Txns \cup {0}] /\ model \in [Requests -> Models]
  /\ flagged \subseteq Requests
  /\ todo \in [Requests -> SUBSET Tasks] /\ answered \subseteq Requests
  /\ pass \in [Labellers -> Pass] /\ now \in Nat
  /\ swallowed \subseteq Requests \X Tasks /\ lost \subseteq Requests
  /\ faults \in 0..MaxFaults

\* What a client was answered is in the log: every row of an answered request is
\* there or still to be written, but for errors that were logged and forgotten
\* and, only with ASYNC_DB_WRITE, workers that died after the answer (score,
\* _write_prediction_to_db).
AnsweredIsLogged ==
  \A r \in answered : \A k \in Written :
    \/ <<r, k>> \in rows
    \/ mode.async /\ (k \in todo[r] \/ r \in lost)
    \/ <<r, k>> \in swallowed /\ (faults > 0 \/ txn[r] \in Refused)

\* A flagged prediction has its explanation once the tasks of its request are
\* done, unless the update failed or the worker died: the update goes by
\* transaction, so it must not come before the row (_compute_and_store_shap).
FlaggedIsExplained ==
  \A r \in Requests :
    <<r, "primary">> \in rows /\ r \in flagged =>
      \/ <<r, "primary">> \in explained
      \/ "shap" \in todo[r] \/ r \in lost \/ <<r, "shap">> \in swallowed

\* A row with a label_confirmed_at has its label, though passes are rolled back
\* and two labellers meet at one transaction (run_once, get_conn).
ConfirmedHasLabel == \A id \in confirmed : labels[txn[id[1]]] # "none"

\* A label never changes, also when two labellers draw different outcomes for
\* one transaction (INSERT_LABEL_SQL): training and the drift monitor have read it.
Stable == \A t \in Txns : labels[t] # "none" => labels'[t] = labels[t]

LabelsStable == [][Stable]_vars

\* Thompson sampling never sees more hits or misses of a model than the table
\* has: labels and predictions arrive between the query and its use, models are
\* loaded again, but what was counted is never counted twice (update_metrics).
TallyIsBacked ==
  \A m \in Models : /\ tally[m].hits <= Tally(Counted(m)).hits
                    /\ tally[m].misses <= Tally(Counted(m)).misses

\* Every transaction with a row is labelled in the end: the delay is drawn anew
\* in each pass and the limit lets the oldest go first, but no transaction is
\* passed over for ever.
EveryTransactionLabelled ==
  \A t \in Txns : t \in transactions ~> labels[t] # "none"

\* The tally catches up with all that is known of a model's predictions, also of
\* those written after their transaction was labelled.
TallyCatchesUp == <>[](\A m \in Models : tally[m] = Tally(Counted(m)))

-----------------------------------------------------------------------------
(* What the repository says and the code does not do.                      *)

\* The module comment of simulate_labels: predictions.label_confirmed_at is
\* updated so that consumers can join on it. The rows of a labelled transaction
\* have one.
LabelledIsConfirmed == \A id \in rows : labels[txn[id[1]]] # "none" => id \in confirmed

\* Thompson sampling counts transactions: one that a client sent again, with the
\* same model each time, counts once.
CountsOnce ==
  \A m \in Models : tally[m].hits <=
    Cardinality({t \in Txns : labels[t] = "fraud" /\ \E r \in Counted(m) : txn[r] = t})
=============================================================================
