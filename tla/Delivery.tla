-------------------------------- MODULE Delivery --------------------------------
(***************************************************************************)
(* What the feature engine promises about a topic it consumes, with the    *)
(* buffers, threads, stores and retries left out: an offset is done, or    *)
(* held by the consumer, or will be delivered again. FeatureEngine         *)
(* implements this specification (DeliverySpec there).                     *)
(***************************************************************************)
EXTENDS Naturals

VARIABLES
  produced,   \* messages in the topic: the offsets 1..produced
  committed,  \* offsets up to here are not delivered again
  done,       \* offsets whose message has come to one of its ends
  held        \* offsets of messages the consumer has taken over

vars == <<produced, committed, done, held>>

Init == produced = 0 /\ committed = 0 /\ done = {} /\ held = {}

\* A message is appended. One that repeats an earlier message may be done.
Arrive ==
  /\ produced' = produced + 1
  /\ done' \in {done, done \cup {produced'}}
  /\ UNCHANGED <<committed, held>>

\* The consumer takes a message over.
Take ==
  /\ \E o \in 1..produced : held' = held \cup {o}
  /\ UNCHANGED <<produced, committed, done>>

\* Messages come to their ends and the consumer gives messages up: one it gives
\* up is done, or not committed, so that it will be delivered again.
Settle ==
  /\ done \subseteq done' /\ done' \subseteq 1..produced
  /\ held' \subseteq held
  /\ \A o \in held \ held' : o <= committed => o \in done'
  /\ UNCHANGED <<produced, committed>>

\* Only what is done or held is committed, and nothing is uncommitted.
Commit ==
  /\ committed' \in committed..produced
  /\ \A o \in 1..committed' : o \in done \cup held
  /\ UNCHANGED <<produced, done, held>>

Next == Arrive \/ Take \/ Settle \/ Commit

Spec == Init /\ [][Next]_vars
=============================================================================
