------------------------------ MODULE ModelBatcher ------------------------------
(***************************************************************************)
(* Scoring inside one worker: the requests of the event loop, the          *)
(* ModelBatcher of each model, which runs the model once for the requests  *)
(* that queue up within 5 ms, and the threads that swap the models and     *)
(* update the bandit's alpha and beta (serving/main.py, score; serving/    *)
(* scoring.py; ModelHandle in serving/model_registry.py).                  *)
(*                                                                         *)
(* The event loop runs one callback at a time: an action is what happens   *)
(* between two awaits. A swap comes from a thread, so between any two.     *)
(*                                                                         *)
(* A LoadedModel is an object: its id() is an address, which a later       *)
(* object may have again once nothing refers to the first. _batchers is    *)
(* keyed by that address.                                                  *)
(***************************************************************************)
EXTENDS Naturals, Sequences, FiniteSets

CONSTANTS Requests,
          Addresses,   \* where LoadedModel objects can be
          Mode,        \* SCORING_MODE: "ab_test" or "shadow"
          MaxBatch,    \* vectors a batch takes (max_batch_size)
          MaxSwaps,    \* bound: hot swaps
          MaxFaults    \* bound: inferences that raise

ASSUME BatcherAssumption ==
  /\ Mode \in {"ab_test", "shadow"} /\ IsFiniteSet(Requests)
  /\ MaxBatch \in Nat \ {0} /\ MaxSwaps \in Nat /\ MaxFaults \in Nat

VARIABLES
  current,    \* _current_models of the handle, best AUC first
  request,    \* the call of score() for each request
  batchers,   \* every ModelBatcher ever made, in order
  table,      \* _batchers: the batcher at an address, or 0
  answers,    \* the results set on the futures of each request
  explained,  \* the model handed to the SHAP task of each request, in a set
  swaps, faults

vars == <<current, request, batchers, table, answers, explained, swaps, faults>>

Models == [id : Addresses, born : 0..MaxSwaps]
Items(s) == {s[i] : i \in DOMAIN s}

\* A request not yet received. parts: the models that score it, left: those whose
\* batcher it has not asked yet, moved: alpha or beta has changed since the pick.
New == [phase |-> "new", models |-> <<>>, parts |-> {}, left |-> {}, moved |-> FALSE]

InFlight(r) == request[r].phase \in {"features", "scoring"}

\* The models of the requests in flight.
ReadModels == UNION {Items(request[r].models) : r \in {q \in Requests : InFlight(q)}}

\* Mutant: a batcher holds the session of its model, not the model.
ReferencedByRequests == Items(current) \cup ReadModels

\* The objects something refers to: the handle, the requests, the batchers of the
\* table and those that are running a batch.
Referenced ==
  Items(current) \cup ReadModels
    \cup {batchers[b].model : b \in {c \in DOMAIN batchers :
             batchers[c].stage = "sleeping" \/ \E a \in Addresses : table[a] = c}}

-----------------------------------------------------------------------------
Init ==
  /\ \E a \in Addresses, b \in Addresses \cup {0} :
       current = IF b \in Addresses \ {a} THEN <<[id |-> a, born |-> 0], [id |-> b, born |-> 0]>>
                                          ELSE <<[id |-> a, born |-> 0]>>
  /\ request = [r \in Requests |-> New]
  /\ batchers = <<>> /\ table = [a \in Addresses |-> 0]
  /\ answers = [r \in Requests |-> {}] /\ explained = [r \in Requests |-> {}]
  /\ swaps = 0 /\ faults = 0

\* maybe_reload swaps in one or two models: some it has kept, the others new, at
\* addresses that are free.
Swap ==
  /\ swaps < MaxSwaps
  /\ LET Fresh == {[id |-> a, born |-> swaps + 1] :
                     a \in Addresses \ {m.id : m \in Referenced}}
     IN  \E new \in {<<m>> : m \in Items(current) \cup Fresh}
                      \cup {<<m, n>> : m, n \in Items(current) \cup Fresh} :
           /\ \A i, j \in DOMAIN new : i # j => new[i].id # new[j].id
           /\ Items(new) # Items(current)
           /\ current' = new
  /\ swaps' = swaps + 1
  /\ UNCHANGED <<request, batchers, table, answers, explained, faults>>

\* update_metrics: alpha and beta of the models served now change in place, also
\* for the requests that have picked by them.
UpdateMetrics ==
  /\ request' = [r \in Requests |->
       IF request[r].phase = "scoring" /\ Items(request[r].models) \cap Items(current) # {}
         THEN [request[r] EXCEPT !.moved = TRUE] ELSE request[r]]
  /\ UNCHANGED <<current, batchers, table, answers, explained, swaps, faults>>

-----------------------------------------------------------------------------
(* A request: score, score_transaction.                                    *)

\* The models are read once; then the features are awaited.
Receive(r) ==
  /\ request[r].phase = "new"
  /\ request' = [request EXCEPT ![r].phase = "features", ![r].models = current]
  /\ UNCHANGED <<current, batchers, table, answers, explained, swaps, faults>>

Shadows(r) == Mode = "shadow" /\ Len(request[r].models) = 2

\* Mutant: pick_model is given the models of now.
PickCurrent(r) ==
  /\ request[r].phase = "features"
  /\ \E P \in IF Shadows(r) THEN {Items(request[r].models)} ELSE {{m} : m \in Items(current)} :
       request' = [request EXCEPT ![r].phase = "scoring", ![r].parts = P, ![r].left = P]
  /\ UNCHANGED <<current, batchers, table, answers, explained, swaps, faults>>

\* The features are there (zeros when Redis is not). pick_model picks one of the
\* models, or both score the request.
Pick(r) ==
  /\ request[r].phase = "features"
  /\ \E P \in IF Shadows(r) THEN {Items(request[r].models)}
                            ELSE {{m} : m \in Items(request[r].models)} :
       request' = [request EXCEPT ![r].phase = "scoring", ![r].parts = P, ![r].left = P]
  /\ UNCHANGED <<current, batchers, table, answers, explained, swaps, faults>>

\* A cancel reaches _process_loop where it waits for an item, and ends it, or in
\* its sleep, where it is swallowed. An item already queued does not help: the
\* get that is cancelled leaves it in the queue.
Cancelled(b) == IF b.stage = "waiting" THEN [b EXCEPT !.stage = "ended"] ELSE b

\* Mutant: only the model picked counts as active.
PickedIds(r) == {m.id : m \in request[r].parts}

\* active_ids: the models this request has read.
ActiveIds(r) == {m.id : m \in Items(request[r].models)}

\* Mutant: the batchers of other models are cancelled but stay in the table.
CancelOnly(r) == table

\* What _get_batcher leaves in the table.
Kept(r) == [a \in Addresses |-> IF a \in ActiveIds(r) THEN table[a] ELSE 0]

\* _get_batcher cancels the batchers of other models and drops them from the
\* table, and makes one for m if there is none; then the request's future is
\* queued. No await comes in between.
Submit(r, m) ==
  /\ request[r].phase = "scoring" /\ m \in request[r].left
  /\ LET others == {table[a] : a \in Addresses \ ActiveIds(r)}
         after == [b \in DOMAIN batchers |->
                     IF b \in others THEN Cancelled(batchers[b]) ELSE batchers[b]]
         job == [request |-> r, model |-> m]
         b == Kept(r)[m.id]
     IN IF b # 0
          THEN /\ batchers' = [after EXCEPT ![b].queue = Append(@, job)]
               /\ table' = Kept(r)
          ELSE /\ batchers' = Append(after, [model |-> m, stage |-> "waiting",
                                             queue |-> <<job>>, batch |-> <<>>])
               /\ table' = [Kept(r) EXCEPT ![m.id] = Len(batchers) + 1]
  /\ request' = [request EXCEPT ![r].left = @ \ {m}]
  /\ UNCHANGED <<current, answers, explained, swaps, faults>>

\* Every future of the request has a result: it is answered, and the model of the
\* SHAP task picked anew, or one has an exception and the request fails.
Complete(r) ==
  /\ request[r].phase = "scoring" /\ request[r].left = {}
  /\ \/ /\ \A m \in request[r].parts : \E a \in answers[r] : a.of = m /\ a.ok
        /\ request' = [request EXCEPT ![r].phase = "answered"]
        /\ \E m \in IF Shadows(r) THEN {request[r].models[2]}
                    ELSE IF request[r].moved THEN Items(request[r].models)
                    ELSE request[r].parts :
             explained' = [explained EXCEPT ![r] = {m}]
     \/ /\ \E a \in answers[r] : ~a.ok
        /\ request' = [request EXCEPT ![r].phase = "failed"]
        /\ UNCHANGED explained
  /\ UNCHANGED <<current, batchers, table, answers, swaps, faults>>

-----------------------------------------------------------------------------
(* ModelBatcher._process_loop.                                             *)

\* queue.get returns the first item, and the loop sleeps for 5 ms.
Take(b) ==
  /\ b \in DOMAIN batchers /\ batchers[b].stage = "waiting" /\ batchers[b].queue # <<>>
  /\ batchers' = [batchers EXCEPT ![b] = [@ EXCEPT !.stage = "sleeping",
                       !.batch = <<Head(batchers[b].queue)>>, !.queue = Tail(batchers[b].queue)]]
  /\ UNCHANGED <<current, request, table, answers, explained, swaps, faults>>

\* Mutant: the whole queue is taken and only the first MaxBatch run.
InferDropsRest(b, ok) ==
  /\ b \in DOMAIN batchers /\ batchers[b].stage = "sleeping"
  /\ ok \/ faults < MaxFaults
  /\ faults' = IF ok THEN faults ELSE faults + 1
  /\ LET this == batchers[b]
         n == IF Len(this.queue) < MaxBatch - 1 THEN Len(this.queue) ELSE MaxBatch - 1
         full == this.batch \o SubSeq(this.queue, 1, n)
     IN /\ batchers' = [batchers EXCEPT ![b] =
             [@ EXCEPT !.stage = "waiting", !.batch = <<>>, !.queue = <<>>]]
        /\ answers' = [r \in Requests |-> answers[r] \cup
             {[of |-> j.model, by |-> this.model, ok |-> ok] :
                j \in {i \in Items(full) : i.request = r}}]
  /\ UNCHANGED <<current, request, table, explained, swaps>>

\* Mutant: the exception is set on the first future of the batch only.
InferFailsFirst(b, ok) ==
  /\ b \in DOMAIN batchers /\ batchers[b].stage = "sleeping"
  /\ ok \/ faults < MaxFaults
  /\ faults' = IF ok THEN faults ELSE faults + 1
  /\ LET this == batchers[b]
         n == IF Len(this.queue) < MaxBatch - 1 THEN Len(this.queue) ELSE MaxBatch - 1
         full == IF ok THEN this.batch \o SubSeq(this.queue, 1, n) ELSE this.batch
         rest == SubSeq(this.queue, n + 1, Len(this.queue))
     IN /\ batchers' = [batchers EXCEPT ![b] =
             IF rest = <<>>
               THEN [@ EXCEPT !.stage = "waiting", !.batch = <<>>, !.queue = <<>>]
               ELSE [@ EXCEPT !.batch = <<Head(rest)>>, !.queue = Tail(rest)]]
        /\ answers' = [r \in Requests |-> answers[r] \cup
             {[of |-> j.model, by |-> this.model, ok |-> ok] :
                j \in {i \in Items(full) : i.request = r}}]
  /\ UNCHANGED <<current, request, table, explained, swaps>>

\* The sleep ends, also by a cancel. What is queued fills up the batch, the model
\* runs and sets the results, or the exception, on the futures. The next get
\* does not wait when there is an item left.
Infer(b, ok) ==
  /\ b \in DOMAIN batchers /\ batchers[b].stage = "sleeping"
  /\ ok \/ faults < MaxFaults
  /\ faults' = IF ok THEN faults ELSE faults + 1
  /\ LET this == batchers[b]
         n == IF Len(this.queue) < MaxBatch - 1 THEN Len(this.queue) ELSE MaxBatch - 1
         full == this.batch \o SubSeq(this.queue, 1, n)
         rest == SubSeq(this.queue, n + 1, Len(this.queue))
     IN /\ batchers' = [batchers EXCEPT ![b] =
             IF rest = <<>>
               THEN [@ EXCEPT !.stage = "waiting", !.batch = <<>>, !.queue = <<>>]
               ELSE [@ EXCEPT !.batch = <<Head(rest)>>, !.queue = Tail(rest)]]
        /\ answers' = [r \in Requests |-> answers[r] \cup
             {[of |-> j.model, by |-> this.model, ok |-> ok] :
                j \in {i \in Items(full) : i.request = r}}]
  /\ UNCHANGED <<current, request, table, explained, swaps>>

Loop(b) == Take(b) \/ \E ok \in BOOLEAN : Infer(b, ok)

Score(r) == \/ Pick(r) \/ Complete(r)
            \/ \E m \in request[r].left : Submit(r, m)

\* At most this many batchers are made.
Batchers == 1..(2 * Cardinality(Requests))

Next == \/ Swap \/ UpdateMetrics
        \/ \E r \in Requests : Receive(r) \/ Score(r)
        \/ \E b \in Batchers : Loop(b)

Spec == Init /\ [][Next]_vars

\* The event loop runs every callback that is ready: timers end, Redis answers or
\* fails, and tasks go on.
FairSpec ==
  /\ Spec
  /\ \A r \in Requests : WF_vars(Score(r))
  /\ \A b \in Batchers : WF_vars(Loop(b))

-----------------------------------------------------------------------------
(* Properties.                                                             *)

Job == [request : Requests, model : Models]
Holds(b) == batchers[b].batch \o batchers[b].queue

\* The type invariant.
TypeOK ==
  /\ current \in Seq(Models) /\ Len(current) \in {1, 2}
  /\ \A r \in Requests :
       /\ request[r].phase \in {"new", "features", "scoring", "answered", "failed"}
       /\ request[r].models \in Seq(Models) /\ request[r].moved \in BOOLEAN
       /\ request[r].left \subseteq request[r].parts
       /\ request[r].parts \subseteq Items(request[r].models)
       /\ answers[r] \subseteq [of : Models, by : Models, ok : BOOLEAN]
       /\ explained[r] \subseteq Models
  /\ \A b \in DOMAIN batchers :
       /\ batchers[b].model \in Models /\ Holds(b) \in Seq(Job)
       /\ batchers[b].stage \in {"waiting", "sleeping", "ended"}
  /\ table \in [Addresses -> {0} \cup DOMAIN batchers]
  /\ swaps \in 0..MaxSwaps /\ faults \in 0..MaxFaults

\* A request is scored by the model picked for it out of the models it read when
\* it came, never by one swapped in or out meanwhile, though batchers are found
\* by the address of a model and addresses are used again (_get_batcher).
ScoredByItsModel ==
  \A r \in Requests : \A a \in answers[r] : a.by = a.of /\ a.of \in request[r].parts

\* A request is queued at a batcher that runs: whatever the table has is not
\* ended, and of the model of its address (_get_batcher).
TableRuns ==
  \A a \in Addresses : table[a] # 0 =>
    batchers[table[a]].stage # "ended" /\ batchers[table[a]].model.id = a

\* What a request has handed over is at one place of one batcher until it is
\* answered, and then at none: no future is set twice or forgotten, however the
\* sleep, the batch size and the cancels fall (_process_loop).
Places(r, m) == {p \in UNION {{b} \X DOMAIN Holds(b) : b \in DOMAIN batchers} :
                   Holds(p[1])[p[2]] = [request |-> r, model |-> m]}

InOnePlace ==
  \A r \in Requests : \A m \in request[r].parts \ request[r].left :
    IF \E a \in answers[r] : a.of = m THEN Places(r, m) = {}
                                     ELSE \E p \in Places(r, m) : Places(r, m) = {p}

\* Every request is answered, or fails with an exception of the model, unless
\* a batcher that has ended holds its future: one that runs answers all it holds,
\* also when the table has lost it (_process_loop).
Stranded(r) == \E b \in DOMAIN batchers : /\ batchers[b].stage = "ended"
                                          /\ \E j \in Items(Holds(b)) : j.request = r

RunningOnesAnswer ==
  \A r \in Requests :
    InFlight(r) ~> request[r].phase \in {"answered", "failed"} \/ Stranded(r)

\* A request is lost only where two requests in flight have read different
\* models: with an ended batcher that holds a future, some request came with
\* models that are not those.
StrandedBySwap ==
  \A r \in Requests : Stranded(r) =>
    \E q \in Requests : /\ request[q].models # <<>>
                        /\ Items(request[q].models) # Items(request[r].models)

\* Batchers, table, addresses and swaps add nothing to what scoring promises: every
\* step is one of Scoring or changes nothing it speaks of (score, ModelBatcher).
Promise == INSTANCE Scoring WITH
       chosen <- [r \in Requests |-> request[r].parts],
       asked <- [r \in Requests |-> request[r].parts \ request[r].left],
       results <- answers,
       outcome <- [r \in Requests |-> IF request[r].phase \in {"answered", "failed"}
                                       THEN request[r].phase ELSE "open"]

ScoringSpec == Promise!Spec

-----------------------------------------------------------------------------
(* What the repository says and the code does not do.                      *)

\* README, Zero-Downtime Hot-Reloading: models are swapped without dropping a
\* single active request. Every request is answered or fails.
NoRequestDropped ==
  \A r \in Requests : InFlight(r) ~> request[r].phase \in {"answered", "failed"}

\* score: the SHAP task gets "the model that scored the primary".
ExplainsScorer == \A r \in Requests : explained[r] \subseteq request[r].parts
=============================================================================
