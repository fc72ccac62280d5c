-------------------------- MODULE PredictionLogProof --------------------------
(***************************************************************************)
(* Theorems about PredictionLog: its types, and what the labels promise    *)
(* their readers, for any number of requests, labellers and transactions.  *)
(***************************************************************************)
EXTENDS PredictionLog, FiniteSetTheorems, TLAPS

\* The two groups of variables TypeOK speaks of.
ServingOK ==
  /\ mode \in [shadow : BOOLEAN, async : BOOLEAN]
  /\ transactions \subseteq Txns /\ rows \subseteq RowIds /\ explained \subseteq rows
  /\ txn \in [Requests -> Txns \cup {0}] /\ model \in [Requests -> Models]
  /\ flagged \subseteq Requests
  /\ todo \in [Requests -> SUBSET Tasks] /\ answered \subseteq Requests
  /\ swallowed \subseteq Requests \X Tasks /\ lost \subseteq Requests
  /\ \A id \in rows : txn[id[1]] # 0
  /\ \A r \in Requests : todo[r] # {} => txn[r] # 0

FeedbackOK ==
  /\ confirmed \subseteq rows
  /\ labels \in [Txns -> Outcomes \cup {"none"}]
  /\ pass \in [Labellers -> Pass]
  /\ \A l \in Labellers : pass[l].marks \subseteq rows

BoundsOK == now \in Nat /\ faults \in 0..MaxFaults

TypeInv == ServingOK /\ FeedbackOK /\ BoundsOK

\* What an open pass has inserted is touched, and had no label when it was: no
\* other pass can commit one meanwhile, because it does not touch the row.
GivenOK ==
  \A l \in Labellers : \A t \in Txns, v \in Outcomes :
    <<t, v>> \in pass[l].given => t \in pass[l].touched /\ labels[t] = "none"
Apart == \A k, l \in Labellers : k # l => pass[k].touched \cap pass[l].touched = {}

\* The rows an open pass has updated are of transactions with a label, or with
\* one that is committed together with the update.
MarksLabelled ==
  \A l \in Labellers : \A id \in pass[l].marks :
    LET t == txn[id[1]]
    IN  labels[t] # "none" \/ \E v \in Outcomes : <<t, v>> \in pass[l].given

LabelInv == TypeInv /\ GivenOK /\ Apart /\ MarksLabelled /\ ConfirmedHasLabel

-----------------------------------------------------------------------------
\* The initial state satisfies the invariant.
LEMMA InitLabelInv == Init => LabelInv
<1> SUFFICES ASSUME Init PROVE LabelInv
  OBVIOUS
<1>1. \A l \in Labellers : pass[l] = Idle
  BY DEF Init
<1>2. Idle \in Pass
  BY DEF Idle, Pass
<1>3. (CHOOSE m \in Models : TRUE) \in Models
  BY LogAssumption
<1>4. ServingOK /\ BoundsOK
  BY <1>3, LogAssumption DEF Init, ServingOK, BoundsOK
<1>5. FeedbackOK
  BY <1>1, <1>2 DEF Init, FeedbackOK, Idle
<1> QED
  BY <1>1, <1>4, <1>5 DEF LabelInv, TypeInv, GivenOK, Apart, MarksLabelled, Idle,
     ConfirmedHasLabel, Init

-----------------------------------------------------------------------------
(* Types.                                                                  *)

\* Rows are ids, and those of a transaction belong to requests that score it.
LEMMA RowsOfRows ==
  ASSUME NEW t PROVE RowsOf(t) \subseteq rows /\ \A id \in RowsOf(t) : txn[id[1]] = t
  BY DEF RowsOf

\* A fault is within its bound.
LEMMA FaultBounded == ASSUME BoundsOK, Fault PROVE faults' \in 0..MaxFaults
  BY LogAssumption DEF BoundsOK, Fault

\* A request is received.
LEMMA TypeScore ==
  ASSUME TypeInv, NEW r \in Requests, NEW t \in Txns, Score(r, t)
  PROVE  TypeInv'
<1> USE DEF tables, bandit, Tasks, Kinds, Written
<1>1. ServingOK'
  <2>1. txn' \in [Requests -> Txns \cup {0}] /\ t # 0 /\ txn'[r] = t
        /\ \A q \in Requests : txn[q] # 0 => txn'[q] = txn[q]
    BY LogAssumption DEF TypeInv, ServingOK, Score
  <2>2. (\A id \in rows : txn'[id[1]] # 0) /\ rows \subseteq RowIds
    BY <2>1 DEF TypeInv, ServingOK, RowIds
  <2>3. todo' \in [Requests -> SUBSET Tasks] /\ \A q \in Requests \ {r} : todo'[q] = todo[q]
    BY DEF TypeInv, ServingOK, Score
  <2>4. \A q \in Requests : todo'[q] # {} => txn'[q] # 0
    BY <2>1, <2>3 DEF TypeInv, ServingOK
  <2>5. model' \in [Requests -> Models] /\ flagged' \subseteq Requests
        /\ answered' \subseteq Requests
    BY DEF TypeInv, ServingOK, Score
  <2>6. UNCHANGED <<mode, transactions, rows, explained, swallowed, lost>>
    BY DEF Score
  <2> QED
    BY <2>1, <2>2, <2>3, <2>4, <2>5, <2>6 DEF TypeInv, ServingOK
<1>2. FeedbackOK'
  BY DEF TypeInv, FeedbackOK, Score
<1>3. BoundsOK'
  BY DEF TypeInv, BoundsOK, Score
<1> QED
  BY <1>1, <1>2, <1>3 DEF TypeInv

\* A task is done, or fails.
LEMMA TypeTask ==
  ASSUME TypeInv, NEW r \in Requests, Task(r)
  PROVE  TypeInv'
<1> USE DEF bandit, WriteRest
<1>1. Ends(r, "shap") \/ \E k \in Kinds : Ends(r, k)
  BY DEF Task, Write, WriteFails, Explain
<1>2. todo' \in [Requests -> SUBSET Tasks] /\ answered' \subseteq Requests
  BY <1>1 DEF TypeInv, ServingOK, Ends
<1>3. CASE \E k \in Kinds : Write(r, k) \/ WriteFails(r, k)
  <2> PICK k \in Kinds : Write(r, k) \/ WriteFails(r, k)
    BY <1>3
  <2>1. txn' = txn /\ txn[r] \in Txns /\ txn[r] # 0 /\ <<r, k>> \in RowIds
    BY LogAssumption DEF Write, WriteFails, Turn, TypeInv, ServingOK, RowIds
  <2>2. k \in Tasks
    BY DEF Tasks
  <2>3. faults' \in 0..MaxFaults
    BY FaultBounded DEF Write, WriteFails, TypeInv, BoundsOK
  <2>4. Stored(r, k) \/ UNCHANGED <<transactions, rows>>
    BY DEF Write, WriteFails
  <2>5. /\ rows \subseteq rows' /\ rows' \subseteq rows \cup {<<r, k>>}
        /\ transactions' \subseteq Txns
    BY <2>1, <2>4 DEF Stored, TypeInv, ServingOK
  <2>6. swallowed' \subseteq Requests \X Tasks
    BY <2>2 DEF Write, WriteFails, TypeInv, ServingOK
  <2>7. /\ UNCHANGED <<mode, explained, confirmed, labels, txn, model, flagged, pass, now, lost>>
    BY DEF Write, WriteFails
  <2>8. rows' \subseteq RowIds /\ \A id \in rows' : txn[id[1]] # 0
    BY <2>1, <2>5 DEF TypeInv, ServingOK
  <2>9. \A q \in Requests : todo'[q] \subseteq todo[q]
    BY <1>1 DEF Ends, TypeInv, ServingOK
  <2>10. ServingOK'
    BY <1>2, <2>1, <2>5, <2>6, <2>7, <2>8, <2>9 DEF TypeInv, ServingOK
  <2>11. FeedbackOK' /\ BoundsOK'
    BY <2>3, <2>5, <2>7 DEF TypeInv, FeedbackOK, BoundsOK
  <2> QED
    BY <2>10, <2>11 DEF TypeInv
<1>4. CASE Explain(r)
  <2>1. "shap" \in Tasks
    BY DEF Tasks
  <2>2. faults' \in 0..MaxFaults
    BY <1>4, FaultBounded DEF Explain, TypeInv, BoundsOK
  <2>3. RowsOf(txn[r]) \subseteq rows
    BY RowsOfRows
  <2>4. swallowed' \subseteq Requests \X Tasks /\ explained' \subseteq rows
    BY <1>4, <2>1, <2>3 DEF Explain, TypeInv, ServingOK
  <2>5. \A q \in Requests : todo'[q] \subseteq todo[q]
    BY <1>1 DEF Ends, TypeInv, ServingOK
  <2>6. ServingOK'
    BY <1>2, <1>4, <2>4, <2>5 DEF Explain, TypeInv, ServingOK
  <2>7. FeedbackOK' /\ BoundsOK'
    BY <1>4, <2>2 DEF Explain, TypeInv, FeedbackOK, BoundsOK
  <2> QED
    BY <2>6, <2>7 DEF TypeInv
<1> QED
  BY <1>3, <1>4 DEF Task

\* A worker dies.
LEMMA TypeWorkerDies ==
  ASSUME TypeInv, NEW S \in SUBSET Requests \ {{}}, WorkerDies(S)
  PROVE  TypeInv'
<1>1. faults' \in 0..MaxFaults
  BY FaultBounded DEF WorkerDies, TypeInv
<1>2. ServingOK'
  BY DEF WorkerDies, TypeInv, ServingOK, tables
<1>3. FeedbackOK' /\ BoundsOK'
  BY <1>1 DEF WorkerDies, TypeInv, FeedbackOK, BoundsOK, tables
<1> QED
  BY <1>2, <1>3 DEF TypeInv

\* The feature engine, the poll loop and the clock.
LEMMA TypeOthers ==
  ASSUME TypeInv,
         \/ \E t \in Txns : Ingest(t)
         \/ ReadMetrics \/ ApplyMetrics \/ LoadedAgain \/ Tick
  PROVE  TypeInv'
<1> USE DEF tables, requests
<1>1. faults' \in 0..MaxFaults /\ now' \in Nat
  BY FaultBounded DEF Ingest, ReadMetrics, ApplyMetrics, LoadedAgain, Tick, TypeInv, BoundsOK
<1>2. ServingOK'
  BY DEF Ingest, ReadMetrics, ApplyMetrics, LoadedAgain, Tick, TypeInv, ServingOK
<1>3. FeedbackOK'
  BY DEF Ingest, ReadMetrics, ApplyMetrics, LoadedAgain, Tick, TypeInv, FeedbackOK
<1> QED
  BY <1>1, <1>2, <1>3 DEF TypeInv, BoundsOK

\* A labelling pass changes nothing but itself, the labels and what is confirmed.
LEMMA LabellerServing ==
  ASSUME TypeInv, NEW l \in Labellers, Labeller(l)
  PROVE  ServingOK' /\ BoundsOK' /\ UNCHANGED <<rows, txn>>
<1> USE DEF LabellerRest, requests
<1>1. faults' \in 0..MaxFaults
  BY FaultBounded DEF Labeller, Select, Skip, Confirm, CommitPass, AbortPass, TypeInv, BoundsOK
<1>2. /\ UNCHANGED <<mode, transactions, rows, explained, txn, model, flagged, todo, answered,
                    swallowed, lost, now>>
  BY DEF Labeller, Select, Skip, Confirm, CommitPass, AbortPass
<1> QED
  BY <1>1, <1>2 DEF TypeInv, ServingOK, BoundsOK

\* What a pass that has not begun holds.
LEMMA IdlePass == Idle \in Pass /\ Idle.marks = {} /\ Idle.given = {} /\ Idle.touched = {}
  BY DEF Idle, Pass

\* A pass keeps its type, and is the only one to change.
LEMMA PassChanges ==
  ASSUME TypeInv, NEW l \in Labellers,
         Select(l) \/ AbortPass(l) \/ \E t \in Txns : Skip(l, t) \/ Confirm(l, t)
  PROVE  FeedbackOK'
<1>1. pass[l] \in Pass /\ pass[l].marks \subseteq rows /\ now \in Nat
  BY DEF TypeInv, FeedbackOK, BoundsOK
<1>2. /\ UNCHANGED <<labels, confirmed, rows>>
  BY LabellerServing DEF Select, AbortPass, Skip, Confirm, Labeller
<1>3. CASE Select(l)
  <2>1. PICK first : /\ first \subseteq Txns
                    /\ pass' = [pass EXCEPT ![l] = [Idle EXCEPT !.open = TRUE, !.at = now,
                                                                !.left = first]]
    BY <1>3 DEF Select, Eligible, TypeInv, ServingOK
  <2>2. [Idle EXCEPT !.open = TRUE, !.at = now, !.left = first] \in Pass
    BY <1>1, <2>1 DEF Idle, Pass
  <2> QED
    BY <1>2, <2>1, <2>2, IdlePass DEF TypeInv, FeedbackOK, Idle
<1>4. CASE AbortPass(l)
  BY <1>2, <1>4, IdlePass DEF AbortPass, TypeInv, FeedbackOK
<1>5. ASSUME NEW t \in Txns, Skip(l, t) PROVE FeedbackOK'
  <2>1. pass'[l] \in Pass /\ pass'[l].marks = pass[l].marks
    BY <1>1, <1>5 DEF Skip, Pass, TypeInv, FeedbackOK
  <2> QED
    BY <1>2, <1>5, <2>1 DEF Skip, TypeInv, FeedbackOK
<1>6. ASSUME NEW t \in Txns, Confirm(l, t) PROVE FeedbackOK'
  <2>1. PICK v \in Outcomes :
          pass' = [pass EXCEPT ![l].left = @ \ {t}, ![l].touched = @ \cup {t},
                    ![l].given = IF labels[t] = "none" THEN @ \cup {<<t, v>>} ELSE @,
                    ![l].marks = @ \cup RowsOf(t)]
    BY <1>6 DEF Confirm
  <2>2. RowsOf(t) \subseteq rows /\ rows \subseteq RowIds
    BY RowsOfRows DEF TypeInv, ServingOK
  <2>3. pass'[l] = [open |-> pass[l].open, at |-> pass[l].at, left |-> pass[l].left \ {t},
                    given |-> IF labels[t] = "none" THEN pass[l].given \cup {<<t, v>>}
                                                    ELSE pass[l].given,
                    touched |-> pass[l].touched \cup {t}, marks |-> pass[l].marks \cup RowsOf(t)]
    BY <1>1, <2>1 DEF Pass, TypeInv, FeedbackOK
  <2>4. pass'[l] \in Pass /\ pass'[l].marks = pass[l].marks \cup RowsOf(t)
    BY <1>1, <2>2, <2>3 DEF Pass
  <2> QED
    BY <1>2, <2>1, <2>2, <2>4 DEF TypeInv, FeedbackOK
<1> QED
  BY <1>3, <1>4, <1>5, <1>6

\* A pass commits what it holds.
LEMMA TypeCommitPass ==
  ASSUME TypeInv, NEW l \in Labellers, CommitPass(l)
  PROVE  FeedbackOK'
<1>1. rows' = rows
  BY LabellerServing DEF Labeller
<1>2. labels' \in [Txns -> Outcomes \cup {"none"}]
  <2>1. \A t \in Txns : (\E v \in Outcomes : <<t, v>> \in pass[l].given) =>
          (CHOOSE v \in Outcomes : <<t, v>> \in pass[l].given) \in Outcomes
    OBVIOUS
  <2> QED
    BY <2>1 DEF CommitPass, TypeInv, FeedbackOK
<1>3. confirmed' \subseteq rows
  BY DEF CommitPass, TypeInv, FeedbackOK
<1> QED
  BY <1>1, <1>2, <1>3, IdlePass DEF CommitPass, TypeInv, FeedbackOK

\* Every step keeps the types.
LEMMA TypeStep == TypeInv /\ [Next]_vars => TypeInv'
<1> SUFFICES ASSUME TypeInv, [Next]_vars PROVE TypeInv'
  OBVIOUS
<1>1. CASE \E l \in Labellers : Labeller(l)
  BY <1>1, LabellerServing, PassChanges, TypeCommitPass DEF Labeller, TypeInv
<1>2. CASE UNCHANGED vars
  BY <1>2 DEF vars, TypeInv, ServingOK, FeedbackOK, BoundsOK
<1> QED
  BY <1>1, <1>2, TypeScore, TypeTask, TypeWorkerDies, TypeOthers DEF Next

\* The types of PredictionLog, and: rows are written for requests received
\* (_write_prediction_to_db).
THEOREM TypeCorrect == Spec => []TypeOK
<1>1. TypeInv => TypeOK
  BY DEF TypeInv, ServingOK, FeedbackOK, BoundsOK, TypeOK
<1>2. Init => TypeInv
  BY InitLabelInv DEF LabelInv
<1> QED
  BY <1>1, <1>2, TypeStep, PTL DEF Spec

-----------------------------------------------------------------------------
(* Labels.                                                                 *)

\* What all actions but those of a labeller leave alone.
LabelsKept ==
  /\ UNCHANGED <<labels, confirmed, pass>>
  /\ \A r \in Requests : txn[r] # 0 => txn'[r] = txn[r]

LEMMA OthersKeepLabels ==
  ASSUME [Next]_vars, ~\E l \in Labellers : Labeller(l), TypeInv
  PROVE  LabelsKept
<1> USE DEF LabelsKept, tables, requests, bandit, WriteRest
<1>1. ASSUME NEW r \in Requests, NEW t \in Txns, Score(r, t) PROVE LabelsKept
  BY <1>1 DEF Score, TypeInv, ServingOK
<1>2. ASSUME NEW r \in Requests, Task(r) PROVE LabelsKept
  BY <1>2 DEF Task, Write, WriteFails, Explain
<1>3. ASSUME NEW S \in SUBSET Requests, WorkerDies(S) PROVE LabelsKept
  BY <1>3 DEF WorkerDies
<1>4. ASSUME NEW t \in Txns, Ingest(t) PROVE LabelsKept
  BY <1>4 DEF Ingest
<1>5. CASE ReadMetrics \/ ApplyMetrics \/ LoadedAgain \/ Tick
  BY <1>5 DEF ReadMetrics, ApplyMetrics, LoadedAgain, Tick
<1>6. CASE UNCHANGED vars
  BY <1>6 DEF vars
<1> QED
  BY <1>1, <1>2, <1>3, <1>4, <1>5, <1>6 DEF Next

\* A step that keeps the labels keeps the invariant.
LEMMA KeptLabelInv ==
  ASSUME LabelInv, LabelsKept, TypeInv'
  PROVE  LabelInv'
<1>1. /\ \A id \in confirmed : id[1] \in Requests /\ txn[id[1]] # 0
      /\ \A l \in Labellers : \A id \in pass[l].marks : id[1] \in Requests /\ txn[id[1]] # 0
  BY DEF LabelInv, TypeInv, ServingOK, FeedbackOK, RowIds
<1>2. GivenOK' /\ Apart'
  BY DEF LabelInv, LabelsKept, GivenOK, Apart
<1>3. MarksLabelled'
  BY <1>1 DEF LabelInv, LabelsKept, MarksLabelled
<1>4. ConfirmedHasLabel'
  BY <1>1 DEF LabelInv, LabelsKept, ConfirmedHasLabel
<1> QED
  BY <1>2, <1>3, <1>4 DEF LabelInv

\* A pass that is begun, rolled back or goes over a row.
LEMMA NothingGiven ==
  ASSUME LabelInv, TypeInv', NEW l \in Labellers,
         Select(l) \/ AbortPass(l) \/ \E t \in Txns : Skip(l, t)
  PROVE  LabelInv'
<1>1. UNCHANGED <<labels, confirmed, txn>>
  BY DEF Select, AbortPass, Skip, LabellerRest, requests
<1>2. \A k \in Labellers \ {l} : pass'[k] = pass[k]
  BY DEF Select, AbortPass, Skip, LabelInv, TypeInv, FeedbackOK
<1>3. \/ pass'[l].given = {} /\ pass'[l].touched = {} /\ pass'[l].marks = {}
      \/ pass'[l].given = pass[l].given /\ pass'[l].touched = pass[l].touched
         /\ pass'[l].marks = pass[l].marks
  <2>1. CASE Select(l)
    <3>1. PICK first :
            pass' = [pass EXCEPT ![l] = [Idle EXCEPT !.open = TRUE, !.at = now, !.left = first]]
      BY <2>1 DEF Select
    <3> QED
      BY <3>1 DEF LabelInv, TypeInv, FeedbackOK, Idle
  <2>2. CASE AbortPass(l)
    BY <2>2, IdlePass DEF AbortPass, LabelInv, TypeInv, FeedbackOK
  <2>3. CASE \E t \in Txns : Skip(l, t)
    BY <2>3 DEF Skip, LabelInv, TypeInv, FeedbackOK, Pass
  <2> QED
    BY <2>1, <2>2, <2>3
<1>4. GivenOK' /\ Apart'
  BY <1>1, <1>2, <1>3 DEF LabelInv, GivenOK, Apart
<1>5. MarksLabelled'
  BY <1>1, <1>2, <1>3 DEF LabelInv, MarksLabelled
<1>6. ConfirmedHasLabel'
  BY <1>1 DEF LabelInv, ConfirmedHasLabel
<1> QED
  BY <1>4, <1>5, <1>6 DEF LabelInv

\* A label is inserted and the rows of its transaction are updated.
LEMMA ConfirmKeeps ==
  ASSUME LabelInv, TypeInv', NEW l \in Labellers, NEW t \in Txns, Confirm(l, t)
  PROVE  LabelInv'
<1>1. UNCHANGED <<labels, confirmed, txn>>
  BY DEF Confirm, LabellerRest, requests
<1>2. PICK v \in Outcomes :
        pass' = [pass EXCEPT ![l].left = @ \ {t}, ![l].touched = @ \cup {t},
                  ![l].given = IF labels[t] = "none" THEN @ \cup {<<t, v>>} ELSE @,
                  ![l].marks = @ \cup RowsOf(t)]
  BY DEF Confirm
<1>3. /\ \A k \in Labellers \ {l} : pass'[k] = pass[k] /\ t \notin pass[k].touched
      /\ pass'[l].touched = pass[l].touched \cup {t}
      /\ pass'[l].given = IF labels[t] = "none" THEN pass[l].given \cup {<<t, v>>}
                                                ELSE pass[l].given
      /\ pass'[l].marks = pass[l].marks \cup RowsOf(t)
  BY <1>2 DEF Confirm, LabelInv, TypeInv, FeedbackOK, Pass
<1>4. GivenOK' /\ Apart'
  BY <1>1, <1>3 DEF LabelInv, GivenOK, Apart
<1>5. MarksLabelled'
  <2>1. \A k \in Labellers \ {l} : \A id \in pass'[k].marks :
          labels'[txn'[id[1]]] # "none" \/ \E w \in Outcomes : <<txn'[id[1]], w>> \in pass'[k].given
    BY <1>1, <1>3 DEF LabelInv, MarksLabelled
  <2>2. \A id \in pass[l].marks :
          labels'[txn'[id[1]]] # "none" \/ \E w \in Outcomes : <<txn'[id[1]], w>> \in pass'[l].given
    BY <1>1, <1>3 DEF LabelInv, MarksLabelled
  <2>3. \A id \in RowsOf(t) :
          labels'[txn'[id[1]]] # "none" \/ \E w \in Outcomes : <<txn'[id[1]], w>> \in pass'[l].given
    BY <1>1, <1>3, RowsOfRows
  <2> QED
    BY <1>3, <2>1, <2>2, <2>3 DEF MarksLabelled
<1>6. ConfirmedHasLabel'
  BY <1>1 DEF LabelInv, ConfirmedHasLabel
<1> QED
  BY <1>4, <1>5, <1>6 DEF LabelInv

\* What is labelled when a pass commits, and what stays as it is.
LEMMA CommitLabels ==
  ASSUME LabelInv, NEW l \in Labellers, CommitPass(l), NEW t \in Txns
  PROVE  /\ labels[t] # "none" => labels'[t] = labels[t]
         /\ (\E v \in Outcomes : <<t, v>> \in pass[l].given) => labels'[t] # "none"
         /\ t \notin pass[l].touched => labels'[t] = labels[t]
<1>1. CASE \E v \in Outcomes : <<t, v>> \in pass[l].given
  <2>1. labels'[t] = CHOOSE v \in Outcomes : <<t, v>> \in pass[l].given
    BY <1>1 DEF CommitPass
  <2>2. labels'[t] \in Outcomes
    BY <1>1, <2>1
  <2> QED
    BY <1>1, <2>2 DEF LabelInv, GivenOK, Outcomes
<1>2. CASE ~\E v \in Outcomes : <<t, v>> \in pass[l].given
  BY <1>2 DEF CommitPass
<1> QED
  BY <1>1, <1>2

\* A pass is committed.
LEMMA CommitKeeps ==
  ASSUME LabelInv, TypeInv', NEW l \in Labellers, CommitPass(l)
  PROVE  LabelInv'
<1>1. txn' = txn /\ confirmed' = confirmed \cup pass[l].marks
  BY DEF CommitPass, LabellerRest, requests
<1>2. \A k \in Labellers : pass'[k] = IF k = l THEN Idle ELSE pass[k]
  BY DEF CommitPass, LabelInv, TypeInv, FeedbackOK
<1>3. \A k \in Labellers : \A id \in pass[k].marks : txn[id[1]] \in Txns
  BY DEF LabelInv, TypeInv, ServingOK, FeedbackOK, RowIds
<1>4. \A id \in confirmed : txn[id[1]] \in Txns
  BY DEF LabelInv, TypeInv, ServingOK, FeedbackOK, RowIds
<1>5. GivenOK'
  <2> SUFFICES ASSUME NEW k \in Labellers \ {l}, NEW t \in Txns, NEW v \in Outcomes,
                      <<t, v>> \in pass[k].given
               PROVE  t \in pass[k].touched /\ labels'[t] = "none"
    BY <1>2, IdlePass DEF GivenOK
  <2>1. t \in pass[k].touched /\ labels[t] = "none" /\ t \notin pass[l].touched
    BY DEF LabelInv, GivenOK, Apart
  <2> QED
    BY <2>1, CommitLabels
<1>6. Apart'
  BY <1>2, IdlePass DEF LabelInv, Apart
<1>7. MarksLabelled'
  BY <1>1, <1>2, <1>3, IdlePass, CommitLabels DEF LabelInv, MarksLabelled
<1>8. ConfirmedHasLabel'
  BY <1>1, <1>3, <1>4, CommitLabels DEF LabelInv, MarksLabelled, ConfirmedHasLabel
<1> QED
  BY <1>5, <1>6, <1>7, <1>8 DEF LabelInv

\* Every step keeps the invariant.
LEMMA LabelStep == LabelInv /\ [Next]_vars => LabelInv'
<1> SUFFICES ASSUME LabelInv, [Next]_vars PROVE LabelInv'
  OBVIOUS
<1>1. TypeInv'
  BY TypeStep DEF LabelInv
<1>2. CASE \E l \in Labellers : Labeller(l)
  BY <1>1, <1>2, NothingGiven, ConfirmKeeps, CommitKeeps DEF Labeller
<1>3. CASE ~\E l \in Labellers : Labeller(l)
  BY <1>1, <1>3, OthersKeepLabels, KeptLabelInv DEF LabelInv
<1> QED
  BY <1>2, <1>3

LEMMA LabelInvariance == Spec => []LabelInv
  BY InitLabelInv, LabelStep, PTL DEF Spec

\* A row with a label_confirmed_at has its label, for any number of labellers,
\* requests and transactions (run_once, get_conn).
THEOREM ConfirmedIsLabelled == Spec => []ConfirmedHasLabel
<1>1. LabelInv => ConfirmedHasLabel
  BY DEF LabelInv
<1> QED
  BY <1>1, LabelInvariance, PTL

\* No step changes a label.
LEMMA LabelsStay == ASSUME LabelInv, [Next]_vars PROVE Stable
<1>1. CASE \E l \in Labellers : CommitPass(l)
  BY <1>1, CommitLabels DEF Stable
<1>2. CASE \E l \in Labellers : Labeller(l) /\ ~CommitPass(l)
  BY <1>2 DEF Labeller, Select, AbortPass, Skip, Confirm, LabellerRest, Stable
<1>3. CASE ~\E l \in Labellers : Labeller(l)
  BY <1>3, OthersKeepLabels DEF LabelInv, LabelsKept, Stable
<1> QED
  BY <1>1, <1>2, <1>3

\* A label never changes, whoever else draws an outcome for its transaction
\* (INSERT_LABEL_SQL).
THEOREM LabelsNeverChange == Spec => LabelsStable
<1>1. LabelInv /\ [Next]_vars => [Stable]_vars
  BY LabelsStay
<1> QED
  BY <1>1, LabelInvariance, PTL DEF Spec, LabelsStable

-----------------------------------------------------------------------------
(* Predictions and explanations.                                           *)

\* The write of a kind has been done, or has been given up for a reason.
Logged(r, k) ==
  \/ <<r, k>> \in rows
  \/ <<r, k>> \in swallowed /\ (faults > 0 \/ txn[r] \in Refused)

\* What is not written is still to do, unless the worker has died.
WritesAccounted ==
  \A r \in Requests : txn[r] # 0 /\ r \notin lost =>
    \A k \in Written : Logged(r, k) \/ k \in todo[r]
LostIdle == \A r \in lost : todo[r] = {}

\* The explanation of a flagged request comes last.
ShapLast ==
  \A r \in flagged : todo[r] \cap Kinds # {} => "shap" \in todo[r]
Received == \A r \in lost \cup flagged \cup answered : txn[r] # 0

LogInv ==
  /\ TypeInv /\ WritesAccounted /\ LostIdle /\ ShapLast /\ Received
  /\ AnsweredIsLogged /\ FlaggedIsExplained

LEMMA InitLogInv == Init => LogInv
<1> SUFFICES ASSUME Init PROVE LogInv
  OBVIOUS
<1>1. TypeInv
  BY InitLabelInv DEF LabelInv
<1> QED
  BY <1>1 DEF Init, LogInv, WritesAccounted, LostIdle, ShapLast, Received,
     AnsweredIsLogged, FlaggedIsExplained

\* What keeps the log of every request: nothing of it is undone.
LogGrows ==
  /\ mode' = mode /\ rows \subseteq rows' /\ explained \subseteq explained'
  /\ swallowed \subseteq swallowed' /\ (faults > 0 => faults' > 0)

LEMMA StepsGrow == ASSUME TypeInv, [Next]_vars PROVE LogGrows
<1> USE DEF LogGrows, tables, requests, bandit, WriteRest, LabellerRest, Fault
<1>1. faults \in Nat
  BY LogAssumption DEF TypeInv, BoundsOK
<1>2. ASSUME NEW r \in Requests, NEW t \in Txns, Score(r, t) PROVE LogGrows
  BY <1>1, <1>2 DEF Score
<1>3. ASSUME NEW r \in Requests, Task(r) PROVE LogGrows
  BY <1>1, <1>3 DEF Task, Write, WriteFails, Stored, Explain
<1>4. ASSUME NEW S \in SUBSET Requests, WorkerDies(S) PROVE LogGrows
  BY <1>1, <1>4 DEF WorkerDies
<1>5. CASE (\E t \in Txns : Ingest(t)) \/ ReadMetrics \/ ApplyMetrics \/ LoadedAgain \/ Tick
  BY <1>1, <1>5 DEF Ingest, ReadMetrics, ApplyMetrics, LoadedAgain, Tick
<1>6. ASSUME NEW l \in Labellers, Labeller(l) PROVE LogGrows
  <2>1. CASE Select(l) \/ CommitPass(l)
    BY <1>1, <2>1 DEF Select, CommitPass
  <2>2. CASE AbortPass(l)
    BY <1>1, <2>2 DEF AbortPass
  <2>3. ASSUME NEW t \in Txns, Skip(l, t) \/ Confirm(l, t) PROVE LogGrows
    BY <1>1, <2>3 DEF Skip, Confirm
  <2> QED
    BY <1>6, <2>1, <2>2, <2>3 DEF Labeller
<1>7. CASE UNCHANGED vars
  BY <1>1, <1>7 DEF vars
<1> QED
  BY <1>2, <1>3, <1>4, <1>5, <1>6, <1>7 DEF Next

\* A write that has been accounted for stays so.
LEMMA LoggedStays ==
  ASSUME LogGrows, NEW r \in Requests, txn'[r] = txn[r], NEW k \in Kinds, Logged(r, k)
  PROVE  Logged(r, k)'
<1>1. CASE <<r, k>> \in rows
  BY <1>1 DEF LogGrows, Logged
<1>2. CASE <<r, k>> \in swallowed /\ faults > 0
  BY <1>2 DEF LogGrows, Logged
<1>3. CASE <<r, k>> \in swallowed /\ txn[r] \in Refused
  BY <1>3 DEF LogGrows, Logged
<1> QED
  BY <1>1, <1>2, <1>3 DEF Logged

\* A step that leaves the requests alone.
LEMMA RequestsKept ==
  ASSUME LogInv, TypeInv', LogGrows, rows' = rows,
         UNCHANGED <<txn, flagged, todo, answered, lost, swallowed>>
  PROVE  LogInv'
<1>1. Written' = Written /\ Written \subseteq Kinds
  BY DEF LogGrows, Written, Kinds
<1>2. \A r \in Requests : \A k \in Kinds : Logged(r, k) => Logged(r, k)'
  BY LoggedStays DEF LogInv
<1>3. WritesAccounted'
  BY <1>1, <1>2 DEF LogInv, WritesAccounted
<1>4. LostIdle' /\ ShapLast' /\ Received'
  BY DEF LogInv, LostIdle, ShapLast, Received
<1>5. AnsweredIsLogged'
  <2> SUFFICES ASSUME NEW r \in answered, NEW k \in Written
               PROVE  \/ Logged(r, k)'
                      \/ mode'.async /\ (k \in todo'[r] \/ r \in lost')
    BY <1>1 DEF AnsweredIsLogged, Logged
  <2>1. \/ Logged(r, k)
        \/ mode.async /\ (k \in todo[r] \/ r \in lost)
    BY DEF LogInv, AnsweredIsLogged, Logged
  <2>2. r \in Requests /\ mode' = mode
    BY DEF LogInv, TypeInv, ServingOK, LogGrows
  <2> QED
    BY <1>1, <1>2, <2>1, <2>2
<1>6. FlaggedIsExplained'
  BY DEF LogInv, FlaggedIsExplained, LogGrows
<1> QED
  BY <1>3, <1>4, <1>5, <1>6 DEF LogInv

\* A request is received.
LEMMA ScoreLogs ==
  ASSUME LogInv, TypeInv', LogGrows, NEW r \in Requests, NEW t \in Txns, Score(r, t)
  PROVE  LogInv'
<1>1. /\ Written' = Written /\ Written \subseteq Kinds /\ t # 0 /\ txn[r] = 0 /\ txn'[r] = t
      /\ \A q \in Requests \ {r} : txn'[q] = txn[q] /\ todo'[q] = todo[q]
      /\ UNCHANGED <<rows, explained, swallowed, lost, faults, mode>>
  BY LogAssumption DEF Score, tables, Written, Kinds, LogInv, TypeInv, ServingOK
<1>2. /\ Written \subseteq todo'[r] /\ "shap" \in Tasks
      /\ \/ flagged' = flagged \cup {r} /\ "shap" \in todo'[r]
         \/ flagged' = flagged
  BY DEF Score, LogInv, TypeInv, ServingOK, Tasks
<1>3. r \notin flagged \cup lost \cup answered /\ \A k \in Kinds : <<r, k>> \notin rows
  BY <1>1 DEF LogInv, Received, TypeInv, ServingOK
<1>4. WritesAccounted'
  BY <1>1, <1>2 DEF LogInv, WritesAccounted, Logged
<1>5. LostIdle' /\ ShapLast'
  BY <1>1, <1>2, <1>3 DEF LogInv, LostIdle, ShapLast, TypeInv, ServingOK
<1>6. answered' = IF mode.async THEN answered \cup {r} ELSE answered
  BY DEF Score
<1>7. Received'
  BY <1>1, <1>2, <1>6 DEF LogInv, Received, TypeInv, ServingOK
<1>8. AnsweredIsLogged'
  BY <1>1, <1>2, <1>3, <1>6 DEF LogInv, AnsweredIsLogged, TypeInv, ServingOK
<1>9. FlaggedIsExplained'
  BY <1>1, <1>2, <1>3 DEF LogInv, FlaggedIsExplained, Kinds
<1> QED
  BY <1>4, <1>5, <1>7, <1>8, <1>9 DEF LogInv

\* What a task changes: its request has one task less, and may be answered.
LEMMA TaskEnds ==
  ASSUME LogInv, NEW r \in Requests, NEW k \in Tasks, Turn(r, k), Ends(r, k),
         UNCHANGED <<txn, flagged, lost>>
  PROVE  /\ todo'[r] = todo[r] \ {k} /\ k \in todo[r] /\ txn[r] # 0 /\ r \notin lost
         /\ \A q \in Requests \ {r} : todo'[q] = todo[q]
         /\ answered' = IF Kinds \cap todo'[r] = {} THEN answered \cup {r} ELSE answered
         /\ LostIdle' /\ Received'
<1>1. todo'[r] = todo[r] \ {k} /\ \A q \in Requests \ {r} : todo'[q] = todo[q]
  BY DEF Ends, LogInv, TypeInv, ServingOK
<1>2. k \in todo[r] /\ txn[r] # 0 /\ r \notin lost
  BY DEF Turn, LogInv, TypeInv, ServingOK, LostIdle
<1>3. answered' = IF Kinds \cap todo'[r] = {} THEN answered \cup {r} ELSE answered
  BY <1>1 DEF Ends
<1>4. LostIdle'
  BY <1>1 DEF LogInv, LostIdle, TypeInv, ServingOK
<1>5. Received'
  BY <1>2, <1>3 DEF LogInv, Received
<1> QED
  BY <1>1, <1>2, <1>3, <1>4, <1>5

\* With one task less, when it is logged if it is a write.
LEMMA TaskLogs ==
  ASSUME LogInv, LogGrows, NEW r \in Requests, NEW k \in Tasks, Turn(r, k), Ends(r, k),
         UNCHANGED <<txn, flagged, lost>>, faults' \in Nat, k \in Kinds => Logged(r, k)'
  PROVE  WritesAccounted' /\ AnsweredIsLogged'
<1>1. Written' = Written /\ Written \subseteq Kinds
  BY DEF LogGrows, Written, Kinds
<1>2. \A q \in Requests : \A j \in Kinds : Logged(q, j) => Logged(q, j)'
  BY LoggedStays DEF LogInv
<1>3. WritesAccounted'
  <2> SUFFICES ASSUME NEW q \in Requests, txn[q] # 0, q \notin lost, NEW j \in Written
               PROVE  Logged(q, j)' \/ j \in todo'[q]
    BY <1>1 DEF WritesAccounted
  <2>1. Logged(q, j) \/ j \in todo[q]
    BY DEF LogInv, WritesAccounted
  <2> QED
    BY <1>1, <1>2, <2>1, TaskEnds
<1>4. AnsweredIsLogged'
  <2> SUFFICES ASSUME NEW q \in answered', NEW j \in Written
               PROVE  \/ Logged(q, j)'
                      \/ mode'.async /\ (j \in todo'[q] \/ q \in lost')
    BY <1>1 DEF AnsweredIsLogged, Logged
  <2>1. CASE q \in answered
    <3>1. \/ Logged(q, j)
          \/ mode.async /\ (j \in todo[q] \/ q \in lost)
      BY <2>1 DEF LogInv, AnsweredIsLogged, Logged
    <3>2. q \in Requests /\ mode' = mode
      BY <2>1 DEF LogInv, TypeInv, ServingOK, LogGrows
    <3> QED
      BY <1>1, <1>2, <3>1, <3>2, TaskEnds
  <2>2. CASE q \notin answered
    <3>1. q = r /\ Kinds \cap todo'[r] = {}
      BY <2>2, TaskEnds
    <3>2. Logged(r, j)' \/ j \in todo'[r]
      BY <1>1, <1>3, TaskEnds DEF WritesAccounted
    <3> QED
      BY <1>1, <3>1, <3>2
  <2> QED
    BY <2>1, <2>2
<1> QED
  BY <1>3, <1>4

\* A row is written, or is given up.
LEMMA WriteLogs ==
  ASSUME LogInv, TypeInv', LogGrows, NEW r \in Requests, NEW k \in Kinds,
         Write(r, k) \/ WriteFails(r, k)
  PROVE  LogInv'
<1>1. /\ Turn(r, k) /\ Ends(r, k) /\ k \in Tasks /\ faults' \in Nat
      /\ UNCHANGED <<txn, flagged, lost, explained>>
  BY LogAssumption DEF Write, WriteFails, WriteRest, Tasks, TypeInv, BoundsOK
<1>2. Logged(r, k)'
  BY LogAssumption, <1>1 DEF Write, WriteFails, Stored, Storable, Fault, Logged,
     LogInv, TypeInv, BoundsOK
<1>3. rows' \subseteq rows \cup {<<r, k>>}
  BY DEF Write, WriteFails, Stored
<1>4. flagged \subseteq Requests /\ k # "shap"
  BY DEF LogInv, TypeInv, ServingOK, Kinds
<1>5. ShapLast'
  BY <1>1, <1>4, TaskEnds DEF LogInv, ShapLast
<1>6. FlaggedIsExplained'
  <2> SUFFICES ASSUME NEW q \in Requests, <<q, "primary">> \in rows', q \in flagged
               PROVE  \/ <<q, "primary">> \in explained' \/ "shap" \in todo'[q]
                      \/ q \in lost' \/ <<q, "shap">> \in swallowed'
    BY <1>1 DEF FlaggedIsExplained
  <2>1. CASE q = r
    BY <1>1, <1>4, <2>1, TaskEnds DEF LogInv, ShapLast
  <2>2. CASE q # r
    BY <1>1, <1>3, <2>2, TaskEnds DEF LogInv, FlaggedIsExplained, LogGrows
  <2> QED
    BY <2>1, <2>2
<1> QED
  BY <1>1, <1>2, <1>5, <1>6, TaskEnds, TaskLogs DEF LogInv

\* The explanation is stored, or fails.
LEMMA ExplainLogs ==
  ASSUME LogInv, TypeInv', LogGrows, NEW r \in Requests, Explain(r)
  PROVE  LogInv'
<1>1. /\ Turn(r, "shap") /\ Ends(r, "shap") /\ "shap" \in Tasks /\ "shap" \notin Kinds
      /\ faults' \in Nat /\ UNCHANGED <<txn, flagged, lost, rows>>
  BY LogAssumption DEF Explain, Tasks, Kinds, TypeInv, BoundsOK
<1>2. todo[r] = {"shap"}
  BY <1>1 DEF Turn
<1>3. ShapLast'
  BY <1>1, <1>2, TaskEnds DEF LogInv, ShapLast, TypeInv, ServingOK
<1>4. FlaggedIsExplained'
  <2> SUFFICES ASSUME NEW q \in Requests, <<q, "primary">> \in rows, q \in flagged
               PROVE  \/ <<q, "primary">> \in explained' \/ "shap" \in todo'[q]
                      \/ q \in lost' \/ <<q, "shap">> \in swallowed'
    BY <1>1 DEF FlaggedIsExplained
  <2>1. CASE q = r
    <3>1. <<r, "primary">> \in RowsOf(txn[r])
      BY <2>1 DEF RowsOf
    <3> QED
      BY <2>1, <3>1 DEF Explain
  <2>2. CASE q # r
    BY <1>1, <2>2, TaskEnds DEF LogInv, FlaggedIsExplained, LogGrows
  <2> QED
    BY <2>1, <2>2
<1> QED
  BY <1>1, <1>3, <1>4, TaskEnds, TaskLogs DEF LogInv

\* A worker dies with the tasks of its requests.
LEMMA DeathLogs ==
  ASSUME LogInv, TypeInv', LogGrows, NEW S \in SUBSET Requests, WorkerDies(S)
  PROVE  LogInv'
<1>1. /\ lost' = lost \cup S
      /\ \A q \in Requests : todo'[q] = IF q \in S THEN {} ELSE todo[q]
      /\ UNCHANGED <<mode, rows, explained, txn, flagged, answered, swallowed>>
      /\ \A q \in S : txn[q] # 0
  BY DEF WorkerDies, tables, LogInv, TypeInv, ServingOK
<1>2. Written' = Written /\ Written \subseteq Kinds
  BY <1>1 DEF Written, Kinds
<1>3. \A q \in Requests : \A j \in Kinds : Logged(q, j) => Logged(q, j)'
  BY <1>1, LoggedStays DEF LogInv
<1>4. WritesAccounted'
  BY <1>1, <1>2, <1>3 DEF LogInv, WritesAccounted
<1>5. LostIdle' /\ ShapLast' /\ Received'
  BY <1>1 DEF LogInv, LostIdle, ShapLast, Received, TypeInv, ServingOK
<1>6. AnsweredIsLogged'
  <2> SUFFICES ASSUME NEW q \in answered, NEW j \in Written
               PROVE  \/ Logged(q, j)'
                      \/ mode'.async /\ (j \in todo'[q] \/ q \in lost')
    BY <1>1, <1>2 DEF AnsweredIsLogged, Logged
  <2>1. \/ Logged(q, j)
        \/ mode.async /\ (j \in todo[q] \/ q \in lost)
    BY DEF LogInv, AnsweredIsLogged, Logged
  <2>2. q \in Requests
    BY DEF LogInv, TypeInv, ServingOK
  <2> QED
    BY <1>1, <1>2, <1>3, <2>1, <2>2
<1>7. FlaggedIsExplained'
  BY <1>1 DEF LogInv, FlaggedIsExplained
<1> QED
  BY <1>4, <1>5, <1>6, <1>7 DEF LogInv

\* A labeller does nothing to the rows, the requests and the bandit.
LEMMA LabellerKeeps ==
  ASSUME NEW l \in Labellers, Labeller(l)
  PROVE  /\ rows' = rows
         /\ UNCHANGED <<txn, model, flagged, todo, answered, lost, swallowed, tally, counted>>
<1> USE DEF LabellerRest, tables, requests, bandit
<1>1. CASE Select(l)
  BY <1>1 DEF Select
<1>2. CASE \E t \in Txns : Skip(l, t) \/ Confirm(l, t)
  BY <1>2 DEF Skip, Confirm
<1>3. CASE CommitPass(l) \/ AbortPass(l)
  BY <1>3 DEF CommitPass, AbortPass
<1> QED
  BY <1>1, <1>2, <1>3 DEF Labeller

\* Every step keeps the log.
LEMMA LogStep == LogInv /\ [Next]_vars => LogInv'
<1> SUFFICES ASSUME LogInv, [Next]_vars PROVE LogInv'
  OBVIOUS
<1>1. TypeInv' /\ LogGrows
  BY TypeStep, StepsGrow DEF LogInv
<1>2. ASSUME NEW r \in Requests, Task(r) PROVE LogInv'
  BY <1>1, <1>2, WriteLogs, ExplainLogs DEF Task
<1>3. CASE \/ \E t \in Txns : Ingest(t)
           \/ ReadMetrics \/ ApplyMetrics \/ LoadedAgain \/ Tick
           \/ \E l \in Labellers : Labeller(l)
  <2> USE DEF tables, requests
  <2>1. CASE \/ \E t \in Txns : Ingest(t)
             \/ ReadMetrics \/ ApplyMetrics \/ LoadedAgain \/ Tick
    <3>1. rows' = rows /\ UNCHANGED <<txn, flagged, todo, answered, lost, swallowed>>
      BY <2>1 DEF Ingest, ReadMetrics, ApplyMetrics, LoadedAgain, Tick
    <3> QED
      BY <1>1, <3>1, RequestsKept
  <2>2. ASSUME NEW l \in Labellers, Labeller(l) PROVE LogInv'
    <3>1. rows' = rows /\ UNCHANGED <<txn, flagged, todo, answered, lost, swallowed>>
      BY <2>2, LabellerKeeps
    <3> QED
      BY <1>1, <3>1, RequestsKept
  <2> QED
    BY <1>3, <2>1, <2>2
<1>4. CASE UNCHANGED vars
  BY <1>1, <1>4, RequestsKept DEF vars
<1> QED
  BY <1>1, <1>2, <1>3, <1>4, ScoreLogs, DeathLogs DEF Next

LEMMA LogInvariance == Spec => []LogInv
  BY InitLogInv, LogStep, PTL DEF Spec

\* What a client was answered is in the log or on its way there, but for errors that
\* were logged and answers that outlived their worker (_write_prediction_to_db).
THEOREM AnswersAreLogged == Spec => []AnsweredIsLogged
<1>1. LogInv => AnsweredIsLogged
  BY DEF LogInv
<1> QED
  BY <1>1, LogInvariance, PTL

\* A flagged prediction is explained, or its explanation is on its way or was given
\* up (_compute_and_store_shap).
THEOREM FlagsAreExplained == Spec => []FlaggedIsExplained
<1>1. LogInv => FlaggedIsExplained
  BY DEF LogInv
<1> QED
  BY <1>1, LogInvariance, PTL

-----------------------------------------------------------------------------
(* What Thompson sampling has counted.                                     *)

\* The requests a model's hits and misses are counted from.
HitsOf(m) == {r \in Counted(m) : r \in flagged /\ labels[txn[r]] = "fraud"}
MissesOf(m) ==
  {r \in Counted(m) : r \in flagged /\ labels[txn[r]] = "legit"}
    \cup {r \in Counted(m) : r \notin flagged /\ labels[txn[r]] = "fraud"}

\* The table holds at least what was counted in c.
BackedBy(c) ==
  \A m \in Models : /\ c[m].hits <= Tally(Counted(m)).hits
                    /\ c[m].misses <= Tally(Counted(m)).misses

Tallies == [Models -> [hits : Nat, misses : Nat]]

\* The tally is backed, and so is the result of a query that is not used yet.
TallyInv ==
  /\ LabelInv
  /\ tally \in Tallies /\ BackedBy(tally)
  /\ counted \subseteq Tallies /\ \A c \in counted : BackedBy(c)

\* A tally is the size of these sets, which are finite.
LEMMA TallySizes ==
  ASSUME NEW m
  PROVE  /\ IsFiniteSet(HitsOf(m)) /\ IsFiniteSet(MissesOf(m))
         /\ Tally(Counted(m)) = [hits |-> Cardinality(HitsOf(m)),
                                 misses |-> Cardinality(MissesOf(m))]
         /\ Tally(Counted(m)) \in [hits : Nat, misses : Nat]
<1>1. HitsOf(m) \subseteq Requests /\ MissesOf(m) \subseteq Requests
  BY DEF HitsOf, MissesOf, Counted
<1>2. IsFiniteSet(HitsOf(m)) /\ IsFiniteSet(MissesOf(m))
  BY <1>1, FS_Subset, LogAssumption
<1>3. Cardinality(HitsOf(m)) \in Nat /\ Cardinality(MissesOf(m)) \in Nat
  BY <1>2, FS_CardinalityType
<1>4. Tally(Counted(m)) = [hits |-> Cardinality(HitsOf(m)),
                           misses |-> Cardinality(MissesOf(m))]
  BY Zenon DEF Tally, HitsOf, MissesOf
<1> QED
  BY <1>2, <1>3, <1>4

\* The same of the next state.
LEMMA TallySizesNext ==
  ASSUME NEW m
  PROVE  /\ IsFiniteSet(HitsOf(m)') /\ IsFiniteSet(MissesOf(m)')
         /\ Tally(Counted(m))' = [hits |-> Cardinality(HitsOf(m)'),
                                  misses |-> Cardinality(MissesOf(m)')]
         /\ Cardinality(HitsOf(m)') \in Nat /\ Cardinality(MissesOf(m)') \in Nat
<1>1. HitsOf(m)' \subseteq Requests /\ MissesOf(m)' \subseteq Requests
  BY DEF HitsOf, MissesOf, Counted
<1>2. IsFiniteSet(HitsOf(m)') /\ IsFiniteSet(MissesOf(m)')
  BY <1>1, FS_Subset, LogAssumption
<1>3. Cardinality(HitsOf(m)') \in Nat /\ Cardinality(MissesOf(m)') \in Nat
  BY <1>2, FS_CardinalityType
<1>4. Tally(Counted(m))' = [hits |-> Cardinality(HitsOf(m)'),
                            misses |-> Cardinality(MissesOf(m)')]
  BY Zenon DEF Tally, HitsOf, MissesOf
<1> QED
  BY <1>2, <1>3, <1>4

\* What is known of a request with a row is known for good.
LEMMA ScoredStays ==
  ASSUME TypeInv, [Next]_vars, NEW r \in Requests, txn[r] # 0
  PROVE  txn'[r] = txn[r] /\ model'[r] = model[r] /\ (r \in flagged' <=> r \in flagged)
<1> USE DEF tables, requests, bandit, WriteRest, LabellerRest
<1>1. ASSUME NEW q \in Requests, NEW t \in Txns, Score(q, t)
      PROVE  txn'[r] = txn[r] /\ model'[r] = model[r] /\ (r \in flagged' <=> r \in flagged)
  BY <1>1 DEF Score, TypeInv, ServingOK
<1>2. CASE \E q \in Requests : Task(q)
  BY <1>2 DEF Task, Write, WriteFails, Explain
<1>3. CASE \E S \in SUBSET Requests \ {{}} : WorkerDies(S)
  BY <1>3 DEF WorkerDies
<1>4. CASE (\E t \in Txns : Ingest(t)) \/ ReadMetrics \/ ApplyMetrics \/ LoadedAgain \/ Tick
  BY <1>4 DEF Ingest, ReadMetrics, ApplyMetrics, LoadedAgain, Tick
<1>5. CASE \E l \in Labellers : Labeller(l)
  BY <1>5, LabellerKeeps
<1>6. CASE UNCHANGED vars
  BY <1>6 DEF vars
<1> QED
  BY <1>1, <1>2, <1>3, <1>4, <1>5, <1>6 DEF Next

\* The evidence for and against a model only grows.
LEMMA EvidenceGrows ==
  ASSUME LabelInv, [Next]_vars, NEW m
  PROVE  HitsOf(m) \subseteq HitsOf(m)' /\ MissesOf(m) \subseteq MissesOf(m)'
<1> SUFFICES ASSUME NEW r \in Requests, r \in Counted(m), labels[txn[r]] \in Outcomes
             PROVE  /\ r \in Counted(m)' /\ (r \in flagged' <=> r \in flagged)
                    /\ labels'[txn'[r]] = labels[txn[r]]
  <2>1. \A r \in HitsOf(m) \cup MissesOf(m) : r \in Counted(m) /\ r \in Requests
    BY DEF HitsOf, MissesOf, Counted
  <2> QED
    BY <2>1 DEF HitsOf, MissesOf, Outcomes
<1>1. <<r, "primary">> \in rows /\ model[r] = m
  BY DEF Counted
<1>2. txn[r] # 0 /\ txn[r] \in Txns
  BY <1>1 DEF LabelInv, TypeInv, ServingOK
<1>3. txn'[r] = txn[r] /\ model'[r] = model[r] /\ (r \in flagged' <=> r \in flagged)
  BY <1>2, ScoredStays DEF LabelInv
<1>4. <<r, "primary">> \in rows'
  BY <1>1, StepsGrow DEF LogGrows, LabelInv
<1>5. labels'[txn[r]] = labels[txn[r]]
  BY <1>2, LabelsStay DEF Stable, Outcomes
<1> QED
  BY <1>1, <1>3, <1>4, <1>5 DEF Counted

\* So what is backed stays so.
LEMMA BackedStays ==
  ASSUME LabelInv, [Next]_vars, NEW c \in Tallies, BackedBy(c), NEW m \in Models
  PROVE  /\ c[m].hits <= Tally(Counted(m))'.hits
         /\ c[m].misses <= Tally(Counted(m))'.misses
<1>1. /\ Cardinality(HitsOf(m)) <= Cardinality(HitsOf(m)')
      /\ Cardinality(MissesOf(m)) <= Cardinality(MissesOf(m)')
  BY EvidenceGrows, TallySizesNext, FS_Subset
<1>2. /\ c[m].hits <= Cardinality(HitsOf(m)) /\ c[m].misses <= Cardinality(MissesOf(m))
      /\ Cardinality(HitsOf(m)) \in Nat /\ Cardinality(MissesOf(m)) \in Nat
      /\ c[m].hits \in Nat /\ c[m].misses \in Nat
  BY TallySizes DEF BackedBy, Tallies
<1>3. c[m].hits <= Cardinality(HitsOf(m)') /\ c[m].misses <= Cardinality(MissesOf(m)')
  BY <1>1, <1>2, TallySizesNext
<1> QED
  BY <1>3, TallySizesNext

\* A model that is loaded has counted nothing.
LEMMA FreshBacked == Fresh \in Tallies /\ BackedBy(Fresh)
<1>1. Fresh \in Tallies
  BY DEF Fresh, Tallies
<1>2. BackedBy(Fresh)
  BY TallySizes DEF Fresh, BackedBy
<1> QED
  BY <1>1, <1>2

LEMMA InitTallyInv == Init => TallyInv
  BY InitLabelInv, FreshBacked DEF Init, TallyInv

LEMMA TallyStep == TallyInv /\ [Next]_vars => TallyInv'
<1> SUFFICES ASSUME TallyInv, [Next]_vars PROVE TallyInv'
  OBVIOUS
<1>1. LabelInv'
  BY LabelStep DEF TallyInv
<1>2. \A c \in Tallies : BackedBy(c) =>
        \A m \in Models : /\ c[m].hits <= Tally(Counted(m))'.hits
                          /\ c[m].misses <= Tally(Counted(m))'.misses
  BY BackedStays DEF TallyInv
<1> DEFINE Counts == [m \in Models |-> Tally(Counted(m))]
<1>3. Counts \in Tallies /\ BackedBy(Counts)
  <2>1. \A m \in Models : Tally(Counted(m)) \in [hits : Nat, misses : Nat]
    BY TallySizes
  <2> QED
    BY <2>1 DEF Tallies, BackedBy
<1>4. /\ tally' \in {tally, Fresh} \cup counted
      /\ counted' \subseteq counted \cup {Counts}
  <2> USE DEF tables, requests, bandit, WriteRest, LabellerRest
  <2>1. CASE (\E r \in Requests, t \in Txns : Score(r, t)) \/ \E r \in Requests : Task(r)
    BY <2>1 DEF Score, Task, Write, WriteFails, Explain
  <2>2. CASE \/ \E S \in SUBSET Requests \ {{}} : WorkerDies(S)
             \/ \E t \in Txns : Ingest(t)
             \/ Tick
    BY <2>2 DEF WorkerDies, Ingest, Tick
  <2>3. CASE ReadMetrics \/ ApplyMetrics \/ LoadedAgain
    BY <2>3 DEF ReadMetrics, ApplyMetrics, LoadedAgain
  <2>4. CASE \E l \in Labellers : Labeller(l)
    BY <2>4, LabellerKeeps
  <2>5. CASE UNCHANGED vars
    BY <2>5 DEF vars
  <2> QED
    BY <2>1, <2>2, <2>3, <2>4, <2>5 DEF Next
<1> HIDE DEF Counts
<1>5. tally' \in Tallies /\ BackedBy(tally)' 
  BY <1>2, <1>4, FreshBacked DEF TallyInv, BackedBy
<1>6. counted' \subseteq Tallies /\ \A c \in counted' : BackedBy(c) /\ c \in Tallies
  BY <1>3, <1>4 DEF TallyInv
<1>7. (\A c \in counted : BackedBy(c))'
  BY <1>2, <1>6 DEF BackedBy
<1> QED
  BY <1>1, <1>5, <1>6, <1>7 DEF TallyInv

\* Thompson sampling never sees more hits or misses of a model than the table has,
\* for any number of requests that score, are written and are labelled between the
\* query and its use (update_metrics).
THEOREM AlwaysBackedTally == Spec => []TallyIsBacked
<1>1. TallyInv => TallyIsBacked
  BY DEF TallyInv, BackedBy, TallyIsBacked
<1> QED
  BY <1>1, InitTallyInv, TallyStep, PTL DEF Spec

=============================================================================
