-------------------------------- MODULE Scoring --------------------------------
(***************************************************************************)
(* What one worker promises about scoring, with the batchers, their table, *)
(* the addresses and the swaps of models left out: a request has models    *)
(* chosen for it, asks each of them once, is given one result of each by   *)
(* that model itself, and ends when it has them or one of them failed.     *)
(* ModelBatcher implements this specification (ScoringSpec there).         *)
(***************************************************************************)
EXTENDS Naturals

CONSTANTS Requests, Models,
          MaxBatch     \* requests a model scores at once

VARIABLES
  chosen,   \* the models that are to score each request
  asked,    \* those it has asked
  results,  \* what it has been given: of which model, by which, and whether a score
  outcome   \* "open", "answered" or "failed"

vars == <<chosen, asked, results, outcome>>

Init ==
  /\ chosen = [r \in Requests |-> {}] /\ asked = [r \in Requests |-> {}]
  /\ results = [r \in Requests |-> {}] /\ outcome = [r \in Requests |-> "open"]

Choose(r) ==
  /\ outcome[r] = "open" /\ chosen[r] = {}
  /\ \E P \in (SUBSET Models) \ {{}} : chosen' = [chosen EXCEPT ![r] = P]
  /\ UNCHANGED <<asked, results, outcome>>

Ask(r) ==
  /\ outcome[r] = "open"
  /\ \E m \in chosen[r] \ asked[r] : asked' = [asked EXCEPT ![r] = @ \cup {m}]
  /\ UNCHANGED <<chosen, results, outcome>>

\* The requests that wait for a result of a model.
Waiting(m) == {r \in Requests : m \in asked[r] /\ ~\E a \in results[r] : a.of = m}

\* A model scores up to MaxBatch of those requests at once, or fails for all of them.
Compute(m, ok) ==
  /\ \E batch \in [1..MaxBatch -> Waiting(m)] :
       results' = [r \in Requests |->
         IF \E i \in 1..MaxBatch : batch[i] = r
           THEN results[r] \cup {[of |-> m, by |-> m, ok |-> ok]} ELSE results[r]]
  /\ UNCHANGED <<chosen, asked, outcome>>

End(r) ==
  /\ outcome[r] = "open" /\ chosen[r] # {} /\ asked[r] = chosen[r]
  /\ \/ /\ \A m \in chosen[r] : \E a \in results[r] : a.of = m /\ a.ok
        /\ outcome' = [outcome EXCEPT ![r] = "answered"]
     \/ /\ \E a \in results[r] : ~a.ok
        /\ outcome' = [outcome EXCEPT ![r] = "failed"]
  /\ UNCHANGED <<chosen, asked, results>>

Next == \/ \E r \in Requests : Choose(r) \/ Ask(r) \/ End(r)
        \/ \E m \in Models, ok \in BOOLEAN : Compute(m, ok)

Spec == Init /\ [][Next]_vars

\* A request has one result of a model, made by that model, of one it has asked; when it
\* is answered, it has a score of every model chosen for it, and when it failed, a failure.
OneResultEach ==
  \A r \in Requests :
    /\ \A a \in results[r] : a.by = a.of /\ a.of \in asked[r]
    /\ \A a, b \in results[r] : a.of = b.of => a = b
    /\ outcome[r] = "answered" => \A m \in chosen[r] : [of |-> m, by |-> m, ok |-> TRUE] \in results[r]
    /\ outcome[r] = "failed" => \E a \in results[r] : ~a.ok
=============================================================================
