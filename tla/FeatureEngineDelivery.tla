------------------------- MODULE FeatureEngineDelivery -------------------------
(***************************************************************************)
(* FeatureEngine implements Delivery, for every value of its constants.    *)
(***************************************************************************)
EXTENDS FeatureEngineProof

\* The process that has not started maps to the empty topic.
LEMMA DeliveryInit == Init => D!Init
<1> SUFFICES ASSUME Init PROVE D!Init
  OBVIOUS
<1>1. Custody = {}
  BY RowSetEmpty DEF Init, Custody, Idle
<1>2. Len(log) = 0 /\ Done = {}
  BY DEF Init, Done
<1> QED
  BY <1>1, <1>2 DEF Init, D!Init

\* A step that appends no message keeps the offsets that are done.
LEMMA DoneGrows ==
  ASSUME TypeInv, [Next]_vars, log' = log
  PROVE  Done \subseteq Done' /\ Done' \subseteq 1..Len(log)
  BY StoresGrow, SettledKept DEF Done

\* A producer's append.
LEMMA ProduceArrives ==
  ASSUME TypeInv, NEW m \in Msgs, Produce(m)
  PROVE  D!Arrive
<1> USE DEF redis, postgres, writer, ghosts
<1>1. /\ log' = Append(log, m) /\ Len(log') = Len(log) + 1 /\ Len(log) \in Nat
      /\ \A o \in 1..Len(log) : log'[o] = log[o]
  BY ProduceKeeps DEF Produce, TypeInv, TypeOK, StoresOK
<1>2. \A o \in 1..Len(log) : Settled(o)' <=> Settled(o)
  BY <1>1 DEF Produce, Settled
<1>3. Done' \in {Done, Done \cup {Len(log')}}
  BY <1>1, <1>2 DEF Done
<1>4. Custody' = Custody
  BY CustodyKept DEF Produce, RowsKept
<1> QED
  BY <1>1, <1>3, <1>4 DEF D!Arrive, Produce

\* The row of the message the loop handles is taken over.
LEMMA EnqueueTakes ==
  ASSUME TypeInv, Enqueue
  PROVE  D!Take
<1> USE DEF redis, postgres, ghosts
<1>1. Current \in 1..Len(log) /\ Current \in Row
  BY DEF Enqueue, Current, Row, TypeInv, TypeOK, StoresOK, LoopOK, CursorsOK
<1>2. Custody' = Custody \cup {Current}
  BY <1>1, CustodyEnqueue DEF Enqueue, TypeInv, TypeOK
<1>3. log' = log /\ committed' = committed
  BY DEF Enqueue, kafka
<1>4. Done' = Done
  BY <1>3 DEF Enqueue, Done, Settled
<1> QED
  BY <1>1, <1>2, <1>3, <1>4 DEF D!Take

\* A commit, whose reply may be lost, covers what the loop is done with.
LEMMA CommitCommits ==
  ASSUME IInv, Commit \/ CommitFails
  PROVE  D!Commit
<1> USE DEF redis, postgres, writer, ghosts
<1>1. /\ committed \in Nat /\ handled \in Nat /\ Len(log) \in Nat
      /\ committed <= handled /\ handled = fetched /\ handled <= Len(log)
  BY DEF Commit, CommitFails, IInv, TypeInv, TypeOK, StoresOK, LoopOK, CursorsOK
<1>2. log' = log /\ committed' \in {committed, handled}
  BY <1>1 DEF Commit, CommitFails
<1>3. Custody' = Custody
  BY CustodyKept DEF Commit, CommitFails, RowsKept
<1>4. Done' = Done
  BY <1>2 DEF Commit, CommitFails, Done, Settled
<1>5. \A o \in 1..committed' : o \in Done \cup Custody
  <2> TAKE o \in 1..committed'
  <2>1. o \in 1..handled /\ o \in 1..Len(log)
    BY <1>1, <1>2
  <2> QED
    BY <2>1 DEF IInv, HandledAccounted, Done
<1> QED
  BY <1>1, <1>2, <1>3, <1>4, <1>5 DEF D!Commit

\* The rows a step takes from the writer's custody are settled, or will be
\* delivered again.
LEMMA GivenUpSettled ==
  ASSUME IInv, [Next]_vars, ~Enqueue
  PROVE  /\ Custody' \subseteq Custody
         /\ \A o \in Custody \ Custody' : o <= committed => Settled(o)'
<1>1. TypeInv
  BY DEF IInv
<1>2. Custody' \subseteq Custody
  BY <1>1, CustodyGrows
<1>3. CASE Crash \/ Exit
  BY <1>2, <1>3 DEF Crash, Exit, Die, Settled
<1>4. ASSUME NEW t \in Threads, Flush(t)
      PROVE  \A o \in Custody \ Custody' : Settled(o)'
  <2>1. CASE ~GivesUp(t)
    BY <1>1, <1>4, <2>1, FlushMoves
  <2>2. CASE GivesUp(t)
    <3>1. log' = log
      BY <2>2 DEF GivesUp, InsertPage, FlushRest, kafka
    <3>2. \A o \in RowSet(flush[t].rows) : Settled(o)'
      BY <2>2, <3>1, GivenUpStored DEF Settled
    <3> QED
      BY <1>1, <1>4, <2>2, <3>2, FlushMoves
  <2> QED
    BY <2>1, <2>2
<1>5. CASE MainReturns \/ FlusherReturns
  BY <1>1, <1>5, ReturnMoves
<1>6. CASE RowsKept
  BY <1>6, CustodyKept
<1>7. ~(Crash \/ Exit \/ (\E t \in Threads : Flush(t)) \/ MainReturns \/ FlusherReturns)
        => RowsKept
  BY DEF Next, Main, Flusher, Environment, vars, Start, ReadBatch, ComputeAndStore,
         ComputeFails, DeadLetter, DeadLetterFails, Commit, CommitFails, LeaveLoop,
         Join, Sigterm, PostgresDown, PostgresUp, Produce, Threads, RowsKept,
         writer
<1> QED
  BY <1>2, <1>3, <1>4, <1>5, <1>6, <1>7

\* Every other step of the process settles messages, gives rows up, or does
\* nothing Delivery tells apart.
LEMMA OthersSettle ==
  ASSUME IInv, [Next]_vars, ~Enqueue, ~(Commit \/ CommitFails),
         ~\E m \in Msgs : Produce(m)
  PROVE  D!Settle
<1>1. TypeInv
  BY DEF IInv
<1>2. log' = log /\ committed' = committed
  BY DEF Next, Main, Flusher, Environment, vars, Start, ReadBatch, ComputeAndStore,
         ComputeFails, DeadLetter, DeadLetterFails, LeaveLoop, Join, Exit, Crash, Die,
         Flush, FlushBegin, InsertPage, InsertFails, ReplyLost, Reconnect, Requeue,
         MainReturns, FlusherReturns, Sigterm, PostgresDown, PostgresUp, FlushRest, kafka
<1>3. Done \subseteq Done' /\ Done' \subseteq 1..Len(log)
  BY <1>1, <1>2, DoneGrows
<1>4. Custody' \subseteq Custody /\ Custody \subseteq 1..Len(log)
  BY <1>1, GivenUpSettled, HeldInLog
<1>5. \A o \in Custody \ Custody' : o <= committed => o \in Done'
  BY <1>2, <1>4, GivenUpSettled DEF Done
<1> QED
  BY <1>2, <1>3, <1>4, <1>5 DEF D!Settle

\* Every step of the process is a step of Delivery or leaves it as it is.
LEMMA DeliveryStep == IInv /\ [Next]_vars => [D!Next]_(D!vars)
<1> SUFFICES ASSUME IInv, [Next]_vars PROVE D!Next
  OBVIOUS
<1>1. TypeInv
  BY DEF IInv
<1> QED
  BY <1>1, ProduceArrives, EnqueueTakes, CommitCommits, OthersSettle DEF D!Next

\* The feature engine implements Delivery: whatever fails, in whatever order
\* its two threads run and however often it restarts, an offset it commits is
\* done or held, and one it holds is given up only done or to be read again.
THEOREM ImplementsDelivery == Spec => DeliverySpec
  BY DeliveryInit, DeliveryStep, Invariance, PTL DEF Spec, DeliverySpec, D!Spec
=============================================================================
