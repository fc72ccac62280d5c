------------------------------ MODULE DriftMonitor ------------------------------
(***************************************************************************)
(* The loop that compares live traffic with the baseline of the active     *)
(* model and retrains when they have drifted apart (monitoring/drift.py).  *)
(*                                                                         *)
(* run_once is one Postgres transaction (common/db.py, get_conn): what a   *)
(* check writes, the baseline of a model and the row of drift_events, is   *)
(* committed at its end and rolled back by any exception. The training it  *)
(* may start is a child process with transactions of its own, and the      *)
(* check waits for it, up to a timeout.                                    *)
(*                                                                         *)
(* Time passes in ticks. Timestamps are kept as ages that stop growing at  *)
(* Horizon, beyond which no comparison tells them apart, so that every     *)
(* behaviour is infinite and the state space is not. Whether the traffic   *)
(* has shifted is a choice here; Psi models how it is measured.            *)
(***************************************************************************)
EXTENDS Integers, Sequences

CONSTANTS Interval,   \* CHECK_INTERVAL_SECONDS
          LiveWindow, \* LIVE_WINDOW_HOURS
          BaseWindow, \* BASELINE_WINDOW_HOURS
          Cooldown,   \* RETRAIN_COOLDOWN_MINUTES
          Timeout,    \* TRAIN_TIMEOUT_SECONDS
          MaxModels,  \* bound: models promoted
          MaxFaults   \* bound: lost connections and crashes

ASSUME DriftAssumption ==
  /\ {Interval, LiveWindow, BaseWindow, Cooldown, Timeout} \subseteq Nat \ {0}
  /\ LiveWindow <= BaseWindow
  /\ MaxModels \in Nat /\ MaxFaults \in Nat

VARIABLES
  traffic,   \* the last BaseWindow ticks, newest first: MIN_LIVE_ROWS snapshots in it
  labelled,  \* there are MIN_LABELED_ROWS labelled snapshots, of whatever age
  shifted,   \* live traffic is PSI_THRESHOLD away from the newest model's baseline
  models,    \* models promoted, oldest first: their baseline window has rows enough,
             \* and it is in drift_baseline_stats
  modelAge,  \* age of the newest model's created_at
  events,    \* the models drift_events has a row of
  since,     \* age of the newest checked_at with retrain_triggered = TRUE
  pc,        \* run_once: asleep, begun, training
  reading,   \* the model the check under way has read as the active one
  txAge,     \* age of the transaction of the check, which now() returns
  child,     \* the training process: none, running, done (exits with 0), failed
  trainAge,  \* age of the last training the monitor started
  rest,      \* ticks of the sleep that are left
  faults

check == <<pc, reading, txAge, child, rest>>
database == <<models, modelAge, events, since>>
world == <<traffic, labelled, shifted>>
vars == <<world, database, check, trainAge, faults>>

LongerOf(a, b) == IF a > b THEN a ELSE b
Horizon == LongerOf(LongerOf(Cooldown, Timeout), BaseWindow)
Older(age) == IF age < Horizon THEN age + 1 ELSE Horizon

Fault == faults < MaxFaults /\ faults' = faults + 1

\* get_active_model: the newest promoted model.
Newest == Len(models)

\* establish_baseline finds the rows of the model, or can compute them.
Established(m) == models[m].stored \/ models[m].rows

\* check_drift finds MIN_LIVE_ROWS snapshots in the live window.
Live == \E i \in 1..LiveWindow : traffic[i]

\* cooldown_active
CoolingDown == since < Cooldown

-----------------------------------------------------------------------------
Init ==
  /\ traffic = [i \in 1..BaseWindow |-> FALSE] /\ labelled = FALSE /\ shifted = FALSE
  /\ models = <<>> /\ modelAge = 0 /\ events = {} /\ since = Horizon
  /\ pc = "asleep" /\ reading = 0 /\ txAge = 0 /\ child = "none" /\ rest = 0
  /\ trainAge = Horizon /\ faults = 0

\* A tick, with or without traffic. subprocess.run raises when its time is up.
Tick ==
  /\ pc = "training" => trainAge < Timeout
  /\ \E busy \in BOOLEAN :
       /\ traffic' = [i \in 1..BaseWindow |-> IF i = 1 THEN busy ELSE traffic[i - 1]]
       /\ labelled' = (labelled \/ busy)
  /\ shifted' \in BOOLEAN
  /\ modelAge' = IF models = <<>> THEN 0 ELSE Older(modelAge)
  /\ since' = Older(since) /\ trainAge' = Older(trainAge)
  /\ txAge' = IF pc = "asleep" THEN 0 ELSE Older(txAge)
  /\ rest' = IF rest = 0 THEN 0 ELSE rest - 1
  /\ UNCHANGED <<models, events, pc, reading, child, faults>>

\* train.py commits a promoted model. Its baseline window ends here and now.
Promotes ==
  /\ labelled /\ Len(models) < MaxModels
  /\ models' = Append(models, [rows |-> \E i \in 1..BaseWindow : traffic[i], stored |-> FALSE])
  /\ modelAge' = 0
  /\ shifted' \in BOOLEAN
  /\ UNCHANGED <<traffic, labelled, events, since>>

\* Somebody runs train.py by hand (the training service).
TrainByHand == Promotes /\ UNCHANGED <<check, trainAge, faults>>

-----------------------------------------------------------------------------
\* The end of run_once, and the sleep of main.
Rests ==
  /\ pc' = "asleep" /\ reading' = 0 /\ txAge' = 0 /\ child' = "none" /\ rest' = Interval

\* An exception: get_conn rolls back, main logs it.
Raises == Rests /\ UNCHANGED <<world, database, trainAge>>

Due == pc = "asleep" /\ rest = 0

Begin ==
  /\ Due /\ models # <<>>
  /\ pc' = "begun" /\ reading' = Newest /\ txAge' = 0
  /\ UNCHANGED <<world, database, child, rest, trainAge, faults>>

\* No active row.
NoModel == Due /\ models = <<>> /\ Raises /\ UNCHANGED faults

\* Too few rows in the window before the model was created.
BaselineFails == pc = "begun" /\ ~Established(reading) /\ Raises /\ UNCHANGED faults

\* Too few live rows; a baseline just inserted is rolled back.
LiveFails ==
  pc = "begun" /\ Established(reading) /\ ~Live /\ Raises /\ UNCHANGED faults

\* Mutant: the cooldown is looked up among the events with drift.
RecordDrifts(drift, triggered) ==
  /\ events' = events \cup {reading}
  /\ models' = [models EXCEPT ![reading].stored = TRUE]
  /\ since' = IF drift THEN txAge ELSE since
  /\ Rests /\ UNCHANGED <<world, modelAge>>

\* The event is inserted and committed with the baseline; checked_at is the
\* now() of the transaction, the time at which it began.
Record(drift, triggered) ==
  /\ events' = events \cup {reading}
  /\ models' = [models EXCEPT ![reading].stored = TRUE]
  /\ since' = IF triggered THEN txAge ELSE since
  /\ Rests /\ UNCHANGED <<world, modelAge>>

Drifts == IF reading = Newest THEN {shifted} ELSE BOOLEAN

NoRetrain ==
  /\ pc = "begun" /\ Established(reading) /\ Live
  /\ \E drift \in Drifts : (drift => CoolingDown) /\ Record(drift, FALSE)
  /\ UNCHANGED <<trainAge, faults>>

\* trigger_retrain starts the child.
Retrain ==
  /\ pc = "begun" /\ Established(reading) /\ Live
  /\ TRUE \in Drifts /\ ~CoolingDown
  /\ pc' = "training" /\ child' = "running" /\ trainAge' = 0
  /\ UNCHANGED <<world, database, reading, txAge, rest, faults>>

-----------------------------------------------------------------------------
ChildPromotes ==
  /\ child = "running" /\ Promotes
  /\ child' = "done"
  /\ UNCHANGED <<pc, reading, txAge, rest, trainAge, faults>>

\* Too few labels, or an artifact that cannot be verified (0), or an error (1).
ChildEnds ==
  /\ child = "running" /\ child' \in {"done", "failed"}
  /\ UNCHANGED <<world, database, pc, reading, txAge, rest, trainAge, faults>>

\* subprocess.run returns.
Returns ==
  /\ child \in {"done", "failed"} /\ Record(TRUE, child = "done")
  /\ UNCHANGED <<trainAge, faults>>

\* Mutant: the time limit does not count before the model is logged.
TimesOutDone ==
  pc = "training" /\ child # "running" /\ trainAge >= Timeout /\ Raises /\ UNCHANGED faults

\* Mutant: the child is not killed (Popen, and a wait that gives up).
TimesOutLeaves ==
  /\ pc = "training" /\ trainAge >= Timeout
  /\ pc' = "asleep" /\ reading' = 0 /\ txAge' = 0 /\ rest' = Interval
  /\ UNCHANGED <<world, database, child, trainAge, faults>>

\* TimeoutExpired: the child is killed, whether it has committed a model or not.
TimesOut == pc = "training" /\ trainAge >= Timeout /\ Raises /\ UNCHANGED faults

\* The connection, idle for as long as the training took, is lost.
RecordFails == child \in {"done", "failed"} /\ Fault /\ Raises

\* The container stops, with the child in it, and is started again.
Crash ==
  /\ pc # "asleep" /\ Fault
  /\ pc' = "asleep" /\ reading' = 0 /\ txAge' = 0 /\ child' = "none" /\ rest' = 0
  /\ UNCHANGED <<world, database, trainAge>>

Monitor == \/ Begin \/ NoModel \/ BaselineFails \/ LiveFails \/ NoRetrain \/ Retrain
           \/ Returns \/ TimesOut
Next == Tick \/ TrainByHand \/ Monitor \/ ChildPromotes \/ ChildEnds \/ RecordFails \/ Crash

Spec == Init /\ [][Next]_vars

\* The loop of the monitor runs and time goes on. Nothing is assumed of the
\* training process: it may hang.
FairSpec == Spec /\ WF_vars(Tick) /\ WF_vars(Monitor)

-----------------------------------------------------------------------------
(* Properties.                                                             *)

\* Types of the variables (monitoring/drift.py).
Ages == 0..Horizon
TypeOK ==
  /\ traffic \in [1..BaseWindow -> BOOLEAN] /\ labelled \in BOOLEAN /\ shifted \in BOOLEAN
  /\ models \in Seq([rows : BOOLEAN, stored : BOOLEAN]) /\ Len(models) <= MaxModels
  /\ {modelAge, since, txAge, trainAge} \subseteq Ages
  /\ events \subseteq 1..Len(models) /\ reading \in 0..Len(models)
  /\ pc \in {"asleep", "begun", "training"} /\ rest \in 0..Interval /\ faults \in 0..MaxFaults
  /\ child \in {"none", "running", "done", "failed"}
  /\ child # "none" <=> pc = "training"
  /\ pc # "asleep" <=> reading # 0

\* A check is always finished, also when the training hangs, and the next one
\* begins (the timeout of trigger_retrain).
ChecksGoOn == []<>Due

\* While traffic is live, shifted and can be judged, the monitor goes on starting
\* trainings: its own skipped or failed checks never postpone them for ever.
Judgeable == models # <<>> /\ Established(Newest) /\ Live /\ shifted
DriftRetrains == <>[]Judgeable => []<>(pc = "training")

-----------------------------------------------------------------------------
(* What the repository says and the code does not do.                      *)

\* "A cooldown prevents retrain storms if PSI stays elevated across consecutive
\* checks" (monitoring/drift.py:63-65): trainings start Cooldown apart. Violated:
\* a training that fails or times out leaves no event that counts.
NoStorm == [][Retrain => trainAge >= Cooldown]_vars

\* "Widen DRIFT_BASELINE_WINDOW_HOURS or wait for more data"
\* (monitoring/drift.py:259-260): once a whole window of traffic has been seen with
\* the model, its baseline can be established. Violated: the window ends at
\* created_at and no later row falls into it.
WaitingHelps ==
  [][BaselineFails => ~(modelAge >= BaseWindow /\ \A i \in 1..BaseWindow : traffic[i])]_vars
=============================================================================
