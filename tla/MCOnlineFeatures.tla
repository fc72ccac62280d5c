--------------------------- MODULE MCOnlineFeatures ---------------------------
(***************************************************************************)
(* Small instances of OnlineFeatures for TLC.                              *)
(***************************************************************************)
EXTENDS OnlineFeatures, TLC

\* Two transactions that differ in everything.
TwoPayloads == {[amount |-> 1, merchant |-> "a", country |-> "IN"],
                [amount |-> 2, merchant |-> "b", country |-> "US"]}

\* Timestamps in any order; the history expires; two readers of what is written.
ThreeInstances ==
  {[messages |-> 3, payloads |-> Payloads, readers |-> {}, late |-> TRUE,
    clock |-> 3, faults |-> 1],
   [messages |-> 3, payloads |-> Payloads, readers |-> {}, late |-> FALSE,
    clock |-> 4, faults |-> 1],
   [messages |-> 2, payloads |-> {CHOOSE p \in Payloads : TRUE}, readers |-> Requests,
    late |-> FALSE, clock |-> 4, faults |-> 1]}

Symmetry == Permutations(Requests)
=============================================================================
