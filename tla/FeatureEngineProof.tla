-------------------------- MODULE FeatureEngineProof --------------------------
(***************************************************************************)
(* Theorems about FeatureEngine for every value of its constants.          *)
(***************************************************************************)
EXTENDS FeatureEngine, TLAPS

\* A list of rows keeps its rows when one is appended and when it is put in
\* front of another list (enqueue and the handler of flush).
LEMMA RowSetAppend ==
  ASSUME NEW S, NEW s \in Seq(S), NEW x \in S
  PROVE  RowSet(Append(s, x)) = RowSet(s) \cup {x}
<1>1. DOMAIN Append(s, x) = 1..(Len(s) + 1)
  OBVIOUS
<1>2. \A i \in 1..Len(s) : Append(s, x)[i] = s[i]
  OBVIOUS
<1>3. Append(s, x)[Len(s) + 1] = x
  OBVIOUS
<1>4. DOMAIN s = 1..Len(s) /\ Len(s) \in Nat
  OBVIOUS
<1> QED
  BY <1>1, <1>2, <1>3, <1>4 DEF RowSet

\* Two lists put together hold the rows of both.
LEMMA RowSetConcat ==
  ASSUME NEW S, NEW s \in Seq(S), NEW t \in Seq(S)
  PROVE  RowSet(s \o t) = RowSet(s) \cup RowSet(t)
<1>1. DOMAIN (s \o t) = 1..(Len(s) + Len(t))
  OBVIOUS
<1>2. \A i \in 1..Len(s) : (s \o t)[i] = s[i]
  OBVIOUS
<1>3. \A i \in 1..Len(t) : (s \o t)[Len(s) + i] = t[i]
  OBVIOUS
<1>4. /\ DOMAIN s = 1..Len(s) /\ Len(s) \in Nat
      /\ DOMAIN t = 1..Len(t) /\ Len(t) \in Nat
  OBVIOUS
<1>5. \A x \in RowSet(s \o t) : x \in RowSet(s) \cup RowSet(t)
  <2> TAKE x \in RowSet(s \o t)
  <2>1. PICK i \in 1..(Len(s) + Len(t)) : x = (s \o t)[i]
    BY <1>1 DEF RowSet
  <2>2. CASE i <= Len(s)
    BY <2>1, <2>2, <1>2, <1>4 DEF RowSet
  <2>3. CASE i > Len(s)
    <3>1. i - Len(s) \in 1..Len(t) /\ i = Len(s) + (i - Len(s))
      BY <2>1, <2>3, <1>4
    <3>2. x = t[i - Len(s)]
      BY <3>1, <2>1, <1>3
    <3> QED
      BY <3>1, <3>2, <1>4 DEF RowSet
  <2> QED
    BY <2>1, <2>2, <2>3, <1>4
<1>6. \A x \in RowSet(s) : x \in RowSet(s \o t)
  BY <1>1, <1>2, <1>4 DEF RowSet
<1>7. \A x \in RowSet(t) : x \in RowSet(s \o t)
  <2> TAKE x \in RowSet(t)
  <2>1. PICK i \in 1..Len(t) : x = t[i]
    BY <1>4 DEF RowSet
  <2>2. Len(s) + i \in DOMAIN (s \o t)
    BY <1>1, <1>4
  <2> QED
    BY <2>1, <2>2, <1>3 DEF RowSet
<1> QED
  BY <1>5, <1>6, <1>7

\* The empty list holds no row.
LEMMA RowSetEmpty == RowSet(<<>>) = {}
  BY DEF RowSet

\* The rows of a list of rows are offsets.
LEMMA RowSetType ==
  ASSUME NEW S, NEW s \in Seq(S)
  PROVE  RowSet(s) \subseteq S
  BY DEF RowSet

-----------------------------------------------------------------------------

\* The values flush[t] takes.
LEMMA Jobs ==
  /\ Idle \in Job
  /\ [t \in Threads |-> Idle] \in [Threads -> Job]
  /\ \A st \in Stages, rows \in Seq(Row), n \in Nat :
       [stage |-> st, rows |-> rows, sent |-> n] \in Job
  /\ \A job \in Job, st \in Stages, n \in Nat :
       /\ [job EXCEPT !.stage = st] \in Job
       /\ [job EXCEPT !.sent = n] \in Job
       /\ [job EXCEPT !.stage = st, !.sent = n] \in Job
  /\ \A job \in Job :
       /\ job = [stage |-> job.stage, rows |-> job.rows, sent |-> job.sent]
       /\ job.stage \in Stages /\ job.rows \in Seq(Row) /\ job.sent \in Nat
<1>1. Idle \in Job
  BY DEF Idle, Job, Stages
<1>2. \A job \in Job, st \in Stages, n \in Nat :
       /\ [job EXCEPT !.stage = st] \in Job
       /\ [job EXCEPT !.sent = n] \in Job
       /\ [job EXCEPT !.stage = st, !.sent = n] \in Job
  BY DEF Job
<1>3. \A job \in Job :
       /\ job = [stage |-> job.stage, rows |-> job.rows, sent |-> job.sent]
       /\ job.stage \in Stages /\ job.rows \in Seq(Row) /\ job.sent \in Nat
  BY DEF Job
<1>4. \A st \in Stages, rows \in Seq(Row), n \in Nat :
       [stage |-> st, rows |-> rows, sent |-> n] \in Job
  BY DEF Job
<1>5. [t \in Threads |-> Idle] \in [Threads -> Job]
  BY <1>1
<1> QED
  BY <1>1, <1>2, <1>3, <1>4, <1>5

\* The stages by name, the empty list, and what a fault does to its counter.
LEMMA StageNames ==
  /\ {"idle", "txns", "snaps", "reconnect", "requeue", "done", "ended"} = Stages
  /\ <<>> \in Seq(Row)
  BY DEF Stages

\* A fault keeps the counter within its bound.
LEMMA FaultCounted == LoopOK /\ Fault => faults' \in 0..MaxFaults
  BY SizesAssumption DEF LoopOK, Fault

\* A fault changes the counter, so it is no stuttering step.
LEMMA FaultIsOne == LoopOK /\ Fault => faults' # faults
  BY SizesAssumption DEF LoopOK, Fault

-----------------------------------------------------------------------------
(* How each step of the writer moves the rows it holds.                    *)

\* Custody, one place at a time.
LEMMA CustodyParts ==
  Custody = RowSet(buffer) \cup RowSet(flush["main"].rows) \cup RowSet(flush["flusher"].rows)
  BY DEF Custody, Threads

\* Custody depends on the buffer and the rows of the two jobs only.
LEMMA CustodySame ==
  ASSUME buffer' = buffer, \A t \in Threads : flush'[t].rows = flush[t].rows
  PROVE  Custody' = Custody
<1>1. flush'["main"].rows = flush["main"].rows /\ flush'["flusher"].rows = flush["flusher"].rows
  BY DEF Threads
<1> QED
  BY <1>1, CustodyParts DEF Custody, Threads, RowSet
\* A process that starts or has ended holds no row.
LEMMA CustodyNone ==
  ASSUME buffer' = <<>>, flush' = [t \in Threads |-> Idle]
  PROVE  Custody' = {}
<1>1. \A t \in Threads : flush'[t].rows = <<>>
  BY DEF Idle
<1> QED
  BY <1>1, RowSetEmpty DEF Custody, RowSet

\* enqueue adds the one row to custody.
LEMMA CustodyEnqueue ==
  ASSUME WriterOK, NEW o \in Row, buffer' = Append(buffer, o), flush' = flush
  PROVE  Custody' = Custody \cup {o}
<1>1. RowSet(buffer') = RowSet(buffer) \cup {o}
  BY RowSetAppend DEF WriterOK
<1> QED
  BY <1>1 DEF Custody, Threads

\* Taking the buffer over and putting rows back only moves rows.
LEMMA CustodyTaken ==
  ASSUME WriterOK, NEW t \in Threads, buffer' = <<>>, flush[t].rows = <<>>,
         flush' = [flush EXCEPT ![t] = [stage |-> "txns", rows |-> buffer, sent |-> 0]]
  PROVE  Custody' = Custody
<1>1. flush'[t].rows = buffer
  BY DEF WriterOK
<1>2. \A u \in Threads \ {t} : flush'[u].rows = flush[u].rows
  BY DEF WriterOK
<1> QED
  BY <1>1, <1>2, RowSetEmpty DEF Custody, Threads

\* The handler of flush only moves rows too, back to the front of the buffer.
LEMMA CustodyRequeued ==
  ASSUME WriterOK, NEW t \in Threads, buffer' = flush[t].rows \o buffer,
         flush' = [flush EXCEPT ![t] = [stage |-> "done", rows |-> <<>>, sent |-> 0]]
  PROVE  Custody' = Custody
<1>1. flush'[t].rows = <<>>
  BY DEF WriterOK
<1>2. \A u \in Threads \ {t} : flush'[u].rows = flush[u].rows
  BY DEF WriterOK
<1>3. flush[t].rows \in Seq(Row) /\ buffer \in Seq(Row)
  BY Jobs DEF WriterOK
<1>4. RowSet(buffer') = RowSet(flush[t].rows) \cup RowSet(buffer)
  BY <1>3, RowSetConcat
<1> QED
  BY <1>1, <1>2, <1>4, RowSetEmpty DEF Custody, Threads

\* Rows given up by a thread leave custody, and no others do.
LEMMA CustodyReleased ==
  ASSUME WriterOK, NEW t \in Threads, buffer' = buffer,
         flush' = [flush EXCEPT ![t] = [stage |-> "done", rows |-> <<>>, sent |-> 0]]
  PROVE  /\ Custody' \subseteq Custody
         /\ Custody \subseteq Custody' \cup RowSet(flush[t].rows)
<1>1. flush'[t].rows = <<>>
  BY DEF WriterOK
<1>2. \A u \in Threads \ {t} : flush'[u].rows = flush[u].rows
  BY DEF WriterOK
<1> QED
  BY <1>1, <1>2, RowSetEmpty DEF Custody, Threads
-----------------------------------------------------------------------------
(* Types, the cursors along the log, and the rows the writer may hold.     *)

\* The process that has not started satisfies the type invariant.
LEMMA TypeInvInit == Init => TypeInv
<1> SUFFICES ASSUME Init PROVE TypeInv
  OBVIOUS
<1>1. StoresOK
  BY DEF Init, StoresOK
<1>2. LoopOK
  <2>1. faults \in 0..MaxFaults /\ stops \in 0..MaxStops
    BY SizesAssumption DEF Init
  <2>2. pc \in Places /\ fetched \in Nat /\ handled \in Nat /\ stopFlag \in BOOLEAN
    BY DEF Init, Places
  <2>3. skipped \subseteq Nat /\ dropped \subseteq Nat
    BY DEF Init
  <2> QED
    BY <2>1, <2>2, <2>3 DEF LoopOK
<1>3. WriterOK
  <2>1. flush \in [Threads -> Job]
    BY Jobs DEF Init
  <2>2. buffer \in Seq(Row) /\ conn \in {"ok", "broken"} /\ stop \in BOOLEAN
    BY StageNames DEF Init
  <2> QED
    BY <2>1, <2>2 DEF WriterOK
<1>4. Custody = {}
  BY RowSetEmpty DEF Init, Custody, Idle
<1>5. CursorsOK
  BY DEF Init, CursorsOK
<1>6. IdleEmpty
  BY DEF Init, IdleEmpty, Idle
<1> QED
  BY <1>1, <1>2, <1>3, <1>4, <1>5, <1>6 DEF TypeInv, TypeOK, CustodyRead

\* The steps that leave the writer's rows where they are.
RowsKept == UNCHANGED <<buffer, flush>>

\* A step that leaves the buffer and the rows of the jobs alone keeps custody.
LEMMA CustodyKept == RowsKept => Custody' = Custody
  BY CustodySame DEF RowsKept

\* Such a step leaves a thread outside flush without rows.
LEMMA IdleKept == IdleEmpty /\ RowsKept => IdleEmpty'
  BY DEF IdleEmpty, RowsKept

\* A producer's append leaves the messages read before in place.
LEMMA ProduceKeeps ==
  ASSUME TypeInv, NEW m \in Msgs, log' = Append(log, m)
  PROVE  /\ log' \in Seq(Msgs) /\ Len(log') = Len(log) + 1
         /\ \A o \in 1..Len(log) : log'[o] = log[o]
  BY DEF TypeInv, TypeOK, StoresOK

\* The loop goes on with the next message, still within what was read.
LEMMA AdvanceCursors ==
  ASSUME TypeInv, Advance(Current), handled < fetched, UNCHANGED <<log, committed, fetched>>
  PROVE  CursorsOK' /\ handled' \in Nat /\ pc' \in Places /\ handled' = handled + 1
<1>1. handled' = handled + 1 /\ handled \in Nat /\ fetched \in Nat /\ committed \in Nat
  BY DEF TypeInv, TypeOK, StoresOK, LoopOK, Advance, Current
<1>2. handled' = fetched => pc' = "commit"
  BY DEF Advance, Current
<1>3. handled' # fetched => pc' = "compute"
  BY DEF Advance, Current
<1> QED
  BY <1>1, <1>2, <1>3 DEF TypeInv, CursorsOK, Places

\* The steps of the consumer loop before enqueue keep the type invariant.
LEMMA TypeInvLoop ==
  ASSUME TypeInv,
         \/ \E n \in Offsets : ReadBatch(n)
         \/ ComputeAndStore \/ ComputeFails \/ DeadLetter \/ DeadLetterFails
         \/ Commit \/ CommitFails \/ LeaveLoop \/ Join
  PROVE  TypeInv'
<1> USE DEF TypeInv, TypeOK, kafka, redis, postgres, reader, writer, ghosts, NoFault
<1>0. IdleEmpty'
  <2>1. RowsKept
    BY DEF ReadBatch, ComputeAndStore, ComputeFails, DeadLetter, DeadLetterFails, Commit,
           CommitFails, LeaveLoop, Join, RowsKept
  <2> QED
    BY <2>1, IdleKept
<1>1. CASE \E n \in Offsets : ReadBatch(n)
  <2> PICK n \in Offsets : ReadBatch(n)
    BY <1>1
  <2>1. n \in Nat
    BY DEF Offsets
  <2>2. StoresOK' /\ WriterOK'
    BY DEF ReadBatch, StoresOK, WriterOK
  <2>3. LoopOK' /\ CursorsOK'
    BY <2>1 DEF ReadBatch, LoopOK, CursorsOK, Places
  <2>4. CustodyRead'
    BY CustodyKept DEF ReadBatch, RowsKept, CustodyRead
  <2> QED
    BY <1>0, <2>2, <2>3, <2>4
<1>2. CASE ComputeAndStore
  <2>1. StoresOK' /\ WriterOK'
    BY <1>2 DEF ComputeAndStore, StoresOK, WriterOK, Msgs
  <2>2. LoopOK' /\ CursorsOK'
    BY <1>2 DEF ComputeAndStore, LoopOK, CursorsOK, Places
  <2>3. CustodyRead'
    BY <1>2, CustodyKept DEF ComputeAndStore, RowsKept, CustodyRead
  <2> QED
    BY <1>0, <2>1, <2>2, <2>3
<1>3. CASE ComputeFails
  <2>1. StoresOK' /\ WriterOK'
    BY <1>3 DEF ComputeFails, StoresOK, WriterOK, Msgs
  <2>2. CursorsOK' /\ handled' \in Nat /\ pc' \in Places /\ handled' = handled + 1
    BY <1>3, AdvanceCursors DEF ComputeFails, CursorsOK
  <2>3. LoopOK'
    BY <1>3, <2>2, FaultCounted DEF ComputeFails, LoopOK, Current
  <2>4. CustodyRead'
    <3>1. Custody' = Custody
      BY <1>3, CustodyKept DEF ComputeFails, RowsKept
    <3> QED
      BY <2>2, <3>1 DEF CustodyRead, LoopOK
  <2> QED
    BY <1>0, <2>1, <2>2, <2>3, <2>4
<1>4. CASE DeadLetter
  <2>1. StoresOK' /\ WriterOK'
    BY <1>4 DEF DeadLetter, StoresOK, WriterOK, Current, LoopOK
  <2>2. CursorsOK' /\ handled' \in Nat /\ pc' \in Places /\ handled' = handled + 1
    BY <1>4, AdvanceCursors DEF DeadLetter, Refused, CursorsOK
  <2>3. LoopOK'
    BY <1>4, <2>2 DEF DeadLetter, LoopOK
  <2>4. CustodyRead'
    <3>1. Custody' = Custody
      BY <1>4, CustodyKept DEF DeadLetter, RowsKept
    <3> QED
      BY <2>2, <3>1 DEF CustodyRead, LoopOK
  <2> QED
    BY <1>0, <2>1, <2>2, <2>3, <2>4
<1>5. CASE DeadLetterFails
  <2>1. StoresOK' /\ WriterOK'
    BY <1>5 DEF DeadLetterFails, StoresOK, WriterOK, Current, LoopOK
  <2>2. LoopOK' /\ CursorsOK'
    BY <1>5, FaultCounted DEF DeadLetterFails, LoopOK, CursorsOK, Places
  <2>3. CustodyRead'
    BY <1>5, CustodyKept DEF DeadLetterFails, RowsKept, CustodyRead
  <2> QED
    BY <1>0, <2>1, <2>2, <2>3
<1>6. CASE Commit \/ CommitFails
  <2>1. StoresOK' /\ WriterOK'
    BY <1>6 DEF Commit, CommitFails, StoresOK, WriterOK, LoopOK
  <2>2. LoopOK'
    BY <1>6, FaultCounted DEF Commit, CommitFails, LoopOK, Places
  <2>3. CursorsOK'
    BY <1>6 DEF Commit, CommitFails, LoopOK, CursorsOK, StoresOK
  <2>4. CustodyRead'
    BY <1>6, CustodyKept DEF Commit, CommitFails, RowsKept, CustodyRead
  <2> QED
    BY <1>0, <2>1, <2>2, <2>3, <2>4
<1>7. CASE LeaveLoop \/ Join
  <2>1. StoresOK' /\ WriterOK'
    BY <1>7 DEF LeaveLoop, Join, StoresOK, WriterOK
  <2>2. LoopOK'
    BY <1>7, FaultCounted DEF LeaveLoop, Join, LoopOK, Places
  <2>3. CursorsOK'
    BY <1>7 DEF LeaveLoop, Join, CursorsOK
  <2>4. CustodyRead'
    BY <1>7, CustodyKept DEF LeaveLoop, Join, RowsKept, CustodyRead
  <2> QED
    BY <1>0, <2>1, <2>2, <2>3, <2>4
<1> QED
  BY <1>1, <1>2, <1>3, <1>4, <1>5, <1>6, <1>7

\* enqueue keeps the type invariant.
LEMMA TypeInvEnqueue == TypeInv /\ Enqueue => TypeInv'
<1> SUFFICES ASSUME TypeInv, Enqueue PROVE TypeInv'
  OBVIOUS
<1> USE DEF TypeInv, TypeOK, kafka, redis, postgres, reader, writer, ghosts
<1>1. Current \in Row /\ handled < fetched /\ handled \in Nat
  BY DEF Enqueue, Current, Row, LoopOK, CursorsOK
<1>2. StoresOK'
  BY DEF Enqueue, StoresOK
<1>3. WriterOK'
  BY <1>1 DEF Enqueue, WriterOK
<1>4. CursorsOK' /\ handled' = handled + 1 /\ pc' \in Places
  <2>1. CASE Len(buffer') >= FlushSize
    BY <1>1, <2>1 DEF Enqueue, CursorsOK, Places, Current, LoopOK, StoresOK
  <2>2. CASE ~(Len(buffer') >= FlushSize)
    BY <1>1, <2>2, AdvanceCursors DEF Enqueue
  <2> QED
    BY <2>1, <2>2
<1>5. LoopOK'
  BY <1>1, <1>4 DEF Enqueue, LoopOK
<1>6. Custody' = Custody \cup {Current}
  BY <1>1, CustodyEnqueue DEF Enqueue
<1>7. CustodyRead'
  BY <1>1, <1>4, <1>6 DEF CustodyRead, Current
<1>8. IdleEmpty'
  BY DEF Enqueue, IdleEmpty
<1> QED
  BY <1>2, <1>3, <1>4, <1>5, <1>7, <1>8

\* The steps by which the process starts, stops and dies keep the type invariant.
LEMMA TypeInvProcess ==
  ASSUME TypeInv, Crash \/ Exit
  PROVE  TypeInv'
<1> USE DEF TypeInv, TypeOK, kafka, redis, postgres, reader, writer, ghosts
<1>1. /\ buffer' = <<>> /\ flush' = [t \in Threads |-> Idle]
      /\ handled' = committed /\ fetched' = committed
      /\ pc' = "down"
      /\ UNCHANGED <<log, committed>>
  BY DEF Crash, Exit, Die
<1>2. StoresOK'
  BY DEF Crash, Exit, Die, StoresOK
<1>3. WriterOK'
  <2>1. flush' \in [Threads -> Job]
    BY <1>1, Jobs
  <2>2. buffer' \in Seq(Row)
    BY <1>1, StageNames
  <2>3. conn' \in {"ok", "broken"} /\ stop' \in BOOLEAN
    BY DEF Crash, Exit, Die, WriterOK
  <2> QED
    BY <2>1, <2>2, <2>3 DEF WriterOK
<1>4. LoopOK'
  <2>1. faults' \in 0..MaxFaults /\ stops' \in 0..MaxStops
    BY FaultCounted DEF Crash, Exit, LoopOK
  <2>2. skipped' \subseteq Nat /\ dropped' \subseteq Nat
    <3>1. Custody \subseteq Nat
      BY DEF CustodyRead, LoopOK
    <3>2. UNCHANGED skipped /\ dropped' \subseteq dropped \cup Custody
      BY DEF Crash, Exit, Die
    <3> QED
      BY <3>1, <3>2 DEF LoopOK
  <2>3. stopFlag' \in BOOLEAN
    BY DEF Crash, Exit, Die, LoopOK
  <2> QED
    BY <1>1, <2>1, <2>2, <2>3 DEF LoopOK, Places, StoresOK
<1>5. CursorsOK'
  BY <1>1 DEF CursorsOK, StoresOK, LoopOK
<1>6. CustodyRead'
  BY <1>1, CustodyNone DEF CustodyRead
<1>7. IdleEmpty'
  BY <1>1 DEF IdleEmpty, Idle
<1> QED
  BY <1>2, <1>3, <1>4, <1>5, <1>6, <1>7

\* Producers, signals and Postgres keep the type invariant.
LEMMA TypeInvEnvironment ==
  ASSUME TypeInv,
         \/ \E m \in Msgs : Produce(m)
         \/ Sigterm \/ PostgresDown \/ PostgresUp \/ Start
  PROVE  TypeInv'
<1> USE DEF TypeInv, TypeOK, kafka, redis, postgres, reader, writer, ghosts
<1>0. IdleEmpty'
  <2>1. RowsKept
    BY DEF Produce, Sigterm, PostgresDown, PostgresUp, Start, RowsKept
  <2> QED
    BY <2>1, IdleKept
<1>1. CASE \E m \in Msgs : Produce(m)
  <2> PICK m \in Msgs : Produce(m)
    BY <1>1
  <2>1. log' \in Seq(Msgs) /\ Len(log') = Len(log) + 1
    BY ProduceKeeps DEF Produce
  <2>2. StoresOK' /\ LoopOK' /\ WriterOK'
    BY <2>1 DEF Produce, StoresOK, LoopOK, WriterOK
  <2>3. CursorsOK'
    BY <2>1 DEF Produce, CursorsOK, StoresOK, LoopOK
  <2>4. CustodyRead'
    BY CustodyKept DEF Produce, RowsKept, CustodyRead
  <2> QED
    BY <1>0, <2>2, <2>3, <2>4
<1>2. CASE Sigterm
  <2>1. stops' \in 0..MaxStops
    BY <1>2, SizesAssumption DEF Sigterm, LoopOK
  <2>2. StoresOK' /\ LoopOK' /\ WriterOK' /\ CursorsOK'
    BY <1>2, <2>1 DEF Sigterm, StoresOK, LoopOK, WriterOK, CursorsOK
  <2>3. CustodyRead'
    BY <1>2, CustodyKept DEF Sigterm, RowsKept, CustodyRead
  <2> QED
    BY <1>0, <2>2, <2>3
<1>3. CASE PostgresDown \/ PostgresUp
  <2>1. StoresOK' /\ WriterOK' /\ CursorsOK'
    BY <1>3 DEF PostgresDown, PostgresUp, StoresOK, WriterOK, CursorsOK
  <2>2. LoopOK'
    BY <1>3, FaultCounted DEF PostgresDown, PostgresUp, LoopOK
  <2>3. CustodyRead'
    BY <1>3, CustodyKept DEF PostgresDown, PostgresUp, RowsKept, CustodyRead
  <2> QED
    BY <1>0, <2>1, <2>2, <2>3
<1>4. CASE Start
  <2>1. StoresOK' /\ WriterOK' /\ CursorsOK'
    BY <1>4 DEF Start, StoresOK, WriterOK, CursorsOK
  <2>2. LoopOK'
    BY <1>4 DEF Start, LoopOK, Places
  <2>3. CustodyRead'
    BY <1>4, CustodyKept DEF Start, RowsKept, CustodyRead
  <2> QED
    BY <1>0, <2>1, <2>2, <2>3
<1> QED
  BY <1>1, <1>2, <1>3, <1>4
\* The flush of a thread that inserts keeps to messages of the log.
LEMMA PageInLog ==
  ASSUME TypeInv, NEW t \in Threads, PageStored(t)
  PROVE  transactions' \subseteq Msgs /\ snapshots' \subseteq Msgs
<1>1. Page(t) \subseteq RowSet(flush[t].rows)
  BY DEF Page, RowSet
<1>2. RowSet(flush[t].rows) \subseteq Custody
  BY DEF Custody
<1>3. \A o \in Page(t) : o \in 1..Len(log)
  <2>1. 1..handled \subseteq 1..Len(log)
    BY DEF TypeInv, TypeOK, StoresOK, LoopOK, CursorsOK
  <2> QED
    BY <1>1, <1>2, <2>1 DEF TypeInv, CustodyRead
<1>4. \A o \in Page(t) : log[o] \in Msgs
  BY <1>3 DEF TypeInv, TypeOK, StoresOK
<1> QED
  BY <1>4 DEF PageStored, TypeInv, TypeOK, StoresOK

\* A step of flush keeps every row held, but for the last page of snapshots: it
\* gives up the rows of that flush.
GivesUp(t) ==
  /\ InsertPage(t) /\ flush[t].stage = "snaps"
  /\ ~(flush[t].sent + PageSize < Len(flush[t].rows))

\* The steps of flush keep the parts of the type invariant they can disturb.
LEMMA FlushMoves ==
  ASSUME TypeInv, NEW t \in Threads, Flush(t)
  PROVE  /\ flush' \in [Threads -> Job] /\ buffer' \in Seq(Row) /\ IdleEmpty'
         /\ Custody' \subseteq Custody
         /\ ~GivesUp(t) => Custody' = Custody
         /\ GivesUp(t) => Custody \subseteq Custody' \cup RowSet(flush[t].rows)
<1> USE DEF TypeInv, TypeOK, WriterOK
<1>1. /\ flush[t] \in Job /\ flush[t].sent \in Nat
      /\ flush[t].stage \in Stages /\ flush[t].rows \in Seq(Row)
  BY Jobs
<1> DEFINE taken == [stage |-> "txns", rows |-> buffer, sent |-> 0]
           ended == [stage |-> "done", rows |-> <<>>, sent |-> 0]
<1>2. taken \in Job /\ ended \in Job
  BY Jobs, StageNames
<1>3. CASE FlushBegin(t)
  <2>1. CASE buffer = <<>>
    <3>1. flush' = [flush EXCEPT ![t].stage = "done"] /\ buffer' = buffer
      BY <1>3, <2>1 DEF FlushBegin
    <3>2. flush[t].rows = <<>>
      BY <1>3 DEF FlushBegin, Calls, IdleEmpty
    <3>3. [flush[t] EXCEPT !.stage = "done"] \in Job
      BY <1>1, Jobs, StageNames
    <3>4. flush' \in [Threads -> Job]
      BY <3>1, <3>3
    <3>5. \A u \in Threads : flush'[u].rows = flush[u].rows
      BY <3>1, Jobs DEF Job
    <3>6. IdleEmpty'
      BY <3>1, <3>2, <3>5 DEF IdleEmpty
    <3> QED
      BY <1>3, <3>1, <3>4, <3>5, <3>6, CustodySame DEF GivesUp, FlushBegin, InsertPage, Inserting, Calls
  <2>2. CASE buffer # <<>>
    <3>1. flush' = [flush EXCEPT ![t] = taken] /\ buffer' = <<>>
      BY <1>3, <2>2 DEF FlushBegin
    <3>2. flush[t].rows = <<>>
      BY <1>3 DEF FlushBegin, Calls, IdleEmpty
    <3>3. Custody' = Custody
      BY <3>1, <3>2, CustodyTaken
    <3>4. flush' \in [Threads -> Job] /\ buffer' \in Seq(Row)
      BY <3>1, <1>2, StageNames
    <3>5. IdleEmpty'
      BY <3>1 DEF IdleEmpty
    <3> QED
      BY <1>3, <3>3, <3>4, <3>5 DEF GivesUp, FlushBegin, InsertPage, Inserting, Calls
  <2> QED
    BY <2>1, <2>2
<1>4. ASSUME NEW st \in {"txns", "snaps", "reconnect", "requeue"}, NEW n \in Nat,
             flush' = [flush EXCEPT ![t] = [flush[t] EXCEPT !.stage = st, !.sent = n]],
             buffer' = buffer, ~GivesUp(t)
      PROVE  /\ flush' \in [Threads -> Job] /\ buffer' \in Seq(Row) /\ IdleEmpty'
             /\ Custody' = Custody
  <2>1. [flush[t] EXCEPT !.stage = st, !.sent = n] \in Job
    BY <1>1, <1>4, Jobs, StageNames
  <2>2. flush' \in [Threads -> Job]
    BY <1>4, <2>1
  <2>3. \A u \in Threads : flush'[u].rows = flush[u].rows
    BY <1>4, Jobs DEF Job
  <2>4. IdleEmpty'
    BY <1>4, <2>3 DEF IdleEmpty
  <2> QED
    BY <1>4, <2>2, <2>3, <2>4, CustodySame
<1>5. ASSUME NEW st \in {"txns", "snaps", "reconnect", "requeue"},
             flush' = [flush EXCEPT ![t].stage = st], buffer' = buffer, ~GivesUp(t)
      PROVE  /\ flush' \in [Threads -> Job] /\ buffer' \in Seq(Row) /\ IdleEmpty'
             /\ Custody' = Custody
  <2>1. [flush[t] EXCEPT !.stage = st] =
          [flush[t] EXCEPT !.stage = st, !.sent = flush[t].sent]
    BY <1>1 DEF Job
  <2>2. flush' = [flush EXCEPT ![t] = [flush[t] EXCEPT !.stage = st, !.sent = flush[t].sent]]
    BY <1>5, <2>1
  <2> QED
    BY <1>1, <1>4, <1>5, <2>2
<1>6. ASSUME flush' = [flush EXCEPT ![t] = ended]
      PROVE  flush' \in [Threads -> Job] /\ IdleEmpty'
  <2>1. \A u \in Threads : flush'[u] = IF u = t THEN ended ELSE flush[u]
    BY <1>6
  <2> QED
    BY <1>2, <1>6, <2>1 DEF IdleEmpty
<1>7. CASE InsertPage(t)
  <2> DEFINE sent == flush[t].sent + PageSize
  <2>1. sent \in Nat /\ buffer' = buffer
    BY <1>1, <1>7, SizesAssumption DEF InsertPage
  <2>2. CASE sent < Len(flush[t].rows)
    <3>1. ~GivesUp(t)
      BY <2>2 DEF GivesUp
    <3>2. [flush[t] EXCEPT !.sent = sent] =
            [flush[t] EXCEPT !.stage = flush[t].stage, !.sent = sent]
      BY <1>1 DEF Job
    <3>3. flush' = [flush EXCEPT ![t] = [flush[t] EXCEPT !.stage = flush[t].stage, !.sent = sent]]
      BY <1>7, <2>2, <3>2 DEF InsertPage
    <3>4. flush[t].stage \in {"txns", "snaps", "reconnect", "requeue"}
      BY <1>7 DEF InsertPage, Inserting
    <3> QED
      BY <1>4, <2>1, <3>1, <3>3, <3>4
  <2>3. CASE ~(sent < Len(flush[t].rows)) /\ flush[t].stage = "txns"
    <3>1. ~GivesUp(t)
      BY <2>3 DEF GivesUp
    <3>2. flush' = [flush EXCEPT ![t] = [flush[t] EXCEPT !.stage = "snaps", !.sent = 0]]
      BY <1>7, <2>3 DEF InsertPage
    <3> QED
      BY <1>4, <2>1, <3>1, <3>2
  <2>4. CASE ~(sent < Len(flush[t].rows)) /\ flush[t].stage # "txns"
    <3>1. GivesUp(t)
      BY <1>7, <2>4 DEF GivesUp, InsertPage, Inserting
    <3>2. flush' = [flush EXCEPT ![t] = ended]
      BY <1>7, <2>4 DEF InsertPage
    <3> QED
      BY <1>6, <2>1, <3>1, <3>2, CustodyReleased
  <2> QED
    BY <2>2, <2>3, <2>4
<1>8. CASE InsertFails(t)
  <2>1. ~GivesUp(t)
    BY <1>8 DEF InsertFails, GivesUp, InsertPage
  <2> QED
    BY <1>5, <1>8, <2>1 DEF InsertFails
<1>9. CASE ReplyLost(t)
  <2>1. ~GivesUp(t)
    BY <1>9, FaultIsOne DEF ReplyLost, GivesUp, InsertPage
  <2> QED
    BY <1>5, <1>9, <2>1 DEF ReplyLost
<1>10. CASE Reconnect(t)
  <2>1. ~GivesUp(t)
    BY <1>10 DEF Reconnect, GivesUp
  <2> QED
    BY <1>5, <1>10, <2>1 DEF Reconnect
<1>11. CASE Requeue(t)
  <2>1. ~GivesUp(t)
    BY <1>11 DEF Requeue, GivesUp
  <2>2. Custody' = Custody
    BY <1>11, CustodyRequeued DEF Requeue
  <2>3. flush' \in [Threads -> Job] /\ IdleEmpty'
    BY <1>6, <1>11 DEF Requeue
  <2>4. buffer' \in Seq(Row)
    BY <1>1, <1>11 DEF Requeue
  <2> QED
    BY <2>1, <2>2, <2>3, <2>4
<1> QED
  BY <1>3, <1>7, <1>8, <1>9, <1>10, <1>11 DEF Flush

\* The steps of flush keep the type invariant.
LEMMA TypeInvFlush ==
  ASSUME TypeInv, NEW t \in Threads, Flush(t)
  PROVE  TypeInv'
<1> USE DEF TypeInv, TypeOK, kafka, redis, postgres, reader, writer, ghosts, NoFault, FlushRest
<1>1. flush' \in [Threads -> Job] /\ buffer' \in Seq(Row) /\ IdleEmpty' /\ Custody' \subseteq Custody
  BY FlushMoves
<1>2. UNCHANGED <<log, committed, history, dlq, pgUp, pc, fetched, handled, stopFlag, stop,
                  skipped, dropped, stops>>
  BY DEF Flush, FlushBegin, InsertPage, InsertFails, ReplyLost, Reconnect, Requeue
<1>3. conn' \in {"ok", "broken"}
  BY DEF Flush, FlushBegin, InsertPage, InsertFails, ReplyLost, Reconnect, Requeue, WriterOK
<1>4. faults' \in 0..MaxFaults
  BY FaultCounted DEF Flush, FlushBegin, InsertPage, InsertFails, ReplyLost, Reconnect, Requeue, LoopOK
<1>5. transactions' \subseteq Msgs /\ snapshots' \subseteq Msgs
  <2>1. CASE PageStored(t)
    BY <2>1, PageInLog
  <2>2. CASE UNCHANGED postgres
    BY <2>2 DEF StoresOK
  <2> QED
    BY <2>1, <2>2 DEF Flush, FlushBegin, InsertPage, InsertFails, ReplyLost, Reconnect, Requeue
<1>6. StoresOK' /\ LoopOK' /\ WriterOK'
  BY <1>1, <1>2, <1>3, <1>4, <1>5 DEF StoresOK, LoopOK, WriterOK
<1>7. CursorsOK' /\ CustodyRead'
  BY <1>1, <1>2 DEF CursorsOK, CustodyRead
<1> QED
  BY <1>1, <1>6, <1>7

\* A flush that returns holds no rows any more.
LEMMA ReturnMoves ==
  ASSUME TypeInv, MainReturns \/ FlusherReturns
  PROVE  /\ flush' \in [Threads -> Job] /\ IdleEmpty' /\ Custody' = Custody
         /\ \A t \in Threads : flush'[t].rows = flush[t].rows
<1> USE DEF TypeInv, TypeOK, WriterOK
<1>1. CASE MainReturns
  <2>1. flush["main"].rows = <<>> /\ Idle.rows = <<>> /\ "main" \in Threads
    BY <1>1 DEF MainReturns, IdleEmpty, Threads, Idle
  <2>2. flush' = [flush EXCEPT !["main"] = Idle] /\ buffer' = buffer
    BY <1>1 DEF MainReturns
  <2>3. \A u \in Threads : flush'[u].rows = flush[u].rows
    BY <2>1, <2>2
  <2> QED
    BY <2>1, <2>2, <2>3, Jobs, CustodySame DEF IdleEmpty
<1>2. CASE FlusherReturns
  <2>1. flush["flusher"].rows = <<>> /\ "flusher" \in Threads
    BY <1>2 DEF FlusherReturns, IdleEmpty, Threads
  <2>2. PICK job : /\ flush' = [flush EXCEPT !["flusher"] = job]
                   /\ job \in {Idle, [flush["flusher"] EXCEPT !.stage = "ended"]}
    BY <1>2 DEF FlusherReturns
  <2>3. job \in Job /\ job.rows = <<>>
    <3>1. Idle \in Job /\ Idle.rows = <<>>
      BY Jobs DEF Idle
    <3>2. LET ended == [flush["flusher"] EXCEPT !.stage = "ended"]
          IN  ended \in Job /\ ended.rows = flush["flusher"].rows
      BY <2>1 DEF Job, Stages
    <3> QED
      BY <2>1, <2>2, <3>1, <3>2
  <2>4. flush' \in [Threads -> Job]
    BY <2>2, <2>3
  <2>5. \A u \in Threads : flush'[u].rows = flush[u].rows
    BY <2>1, <2>2, <2>3
  <2>6. IdleEmpty'
    BY <2>1, <2>2, <2>3 DEF IdleEmpty
  <2> QED
    BY <1>2, <2>4, <2>5, <2>6, CustodySame DEF FlusherReturns
<1> QED
  BY <1>1, <1>2

\* The return of a flush keeps the type invariant.
LEMMA TypeInvReturns ==
  ASSUME TypeInv, MainReturns \/ FlusherReturns
  PROVE  TypeInv'
<1> USE DEF TypeInv, TypeOK, kafka, redis, postgres, reader, writer, ghosts
<1>1. flush' \in [Threads -> Job] /\ IdleEmpty' /\ Custody' = Custody
  BY ReturnMoves
<1>2. StoresOK' /\ WriterOK'
  BY <1>1 DEF MainReturns, FlusherReturns, StoresOK, WriterOK
<1>3. pc' \in Places
  BY DEF MainReturns, FlusherReturns, LoopOK, Places
<1>4. LoopOK'
  BY <1>3 DEF MainReturns, FlusherReturns, LoopOK
<1>5. CursorsOK'
  BY DEF MainReturns, FlusherReturns, CursorsOK, LoopOK
<1>6. CustodyRead'
  BY <1>1 DEF MainReturns, FlusherReturns, CustodyRead
<1> QED
  BY <1>1, <1>2, <1>4, <1>5, <1>6

\* The type invariant is inductive.
LEMMA TypeInvStep == TypeInv /\ [Next]_vars => TypeInv'
<1> SUFFICES ASSUME TypeInv, [Next]_vars PROVE TypeInv'
  OBVIOUS
<1>1. CASE UNCHANGED vars
  <2>1. RowsKept
    BY <1>1 DEF vars, RowsKept
  <2> QED
    BY <1>1, <2>1, CustodyKept, IdleKept
       DEF vars, TypeInv, TypeOK, StoresOK, LoopOK, WriterOK, CursorsOK, CustodyRead
<1>2. CASE \E t \in Threads : Flush(t)
  BY <1>2, TypeInvFlush
<1> QED
  BY <1>1, <1>2, TypeInvLoop, TypeInvEnqueue, TypeInvProcess, TypeInvEnvironment,
     TypeInvReturns DEF Next, Main, Flusher, Environment, Threads

\* Every state has its types; the cursors follow each other along the log, and
\* the writer holds rows of messages that were read, none outside a flush.
THEOREM TypeCorrect == Spec => []TypeInv
  BY TypeInvInit, TypeInvStep, PTL DEF Spec
-----------------------------------------------------------------------------
(* No message is lost track of.                                             *)

\* The type invariant the runs check, as a theorem.
THEOREM TypeOKAlways == Spec => []TypeOK
<1>1. TypeInv => TypeOK
  BY DEF TypeInv
<1>2. QED
  BY <1>1, TypeCorrect, PTL

\* What keeps a message settled.
LEMMA SettledKept ==
  ASSUME NEW o, log'[o] = log[o], snapshots \subseteq snapshots', dlq \subseteq dlq',
         skipped \subseteq skipped', dropped \subseteq dropped', Settled(o)
  PROVE  Settled(o)'
  BY DEF Settled

\* The history variables and the stores only grow.
LEMMA StoresGrow ==
  ASSUME TypeInv, [Next]_vars
  PROVE  /\ snapshots \subseteq snapshots' /\ dlq \subseteq dlq'
         /\ skipped \subseteq skipped' /\ dropped \subseteq dropped'
         /\ Len(log) <= Len(log') /\ \A o \in 1..Len(log) : log'[o] = log[o]
<1> USE DEF kafka, redis, postgres, reader, writer, ghosts, FlushRest
<1>1. CASE \E m \in Msgs : Produce(m)
  <2> PICK m \in Msgs : Produce(m)
    BY <1>1
  <2>1. Len(log) \in Nat
    BY DEF TypeInv, TypeOK, StoresOK
  <2> QED
    BY <2>1, ProduceKeeps DEF Produce
<1>2. CASE ~\E m \in Msgs : Produce(m)
  <2>1. log' = log
    BY <1>2 DEF Next, Main, Flusher, Environment, vars, Start, ReadBatch, ComputeAndStore,
           ComputeFails, DeadLetter, DeadLetterFails, Enqueue, Commit, CommitFails, LeaveLoop,
           Join, Exit, Crash, Die, Flush, FlushBegin, InsertPage, InsertFails, ReplyLost,
           Reconnect, Requeue, MainReturns, FlusherReturns, Sigterm, PostgresDown, PostgresUp
  <2>2. snapshots \subseteq snapshots'
    BY <1>2 DEF Next, Main, Flusher, Environment, vars, Start, ReadBatch, ComputeAndStore,
           ComputeFails, DeadLetter, DeadLetterFails, Enqueue, Commit, CommitFails, LeaveLoop,
           Join, Exit, Crash, Die, Flush, FlushBegin, InsertPage, InsertFails, ReplyLost,
           Reconnect, Requeue, MainReturns, FlusherReturns, Sigterm, PostgresDown, PostgresUp,
           PageStored
  <2>3. dlq \subseteq dlq' /\ skipped \subseteq skipped' /\ dropped \subseteq dropped'
    BY <1>2 DEF Next, Main, Flusher, Environment, vars, Start, ReadBatch, ComputeAndStore,
           ComputeFails, DeadLetter, DeadLetterFails, Enqueue, Commit, CommitFails, LeaveLoop,
           Join, Exit, Crash, Die, Flush, FlushBegin, InsertPage, InsertFails, ReplyLost,
           Reconnect, Requeue, MainReturns, FlusherReturns, Sigterm, PostgresDown, PostgresUp
  <2>4. Len(log) \in Nat
    BY DEF TypeInv, TypeOK, StoresOK
  <2> QED
    BY <2>1, <2>2, <2>3, <2>4
<1> QED
  BY <1>1, <1>2
\* The rows a flush gives up have their snapshots stored.
LEMMA GivenUpStored ==
  ASSUME IInv, [Next]_vars, NEW t \in Threads, GivesUp(t)
  PROVE  \A o \in RowSet(flush[t].rows) : log[o] \in snapshots'
<1> SUFFICES ASSUME NEW i \in DOMAIN flush[t].rows
             PROVE  log[flush[t].rows[i]] \in snapshots'
  BY DEF RowSet
<1>0. TypeInv /\ flush[t].sent \in Nat /\ flush[t].rows \in Seq(Row)
  BY Jobs DEF IInv, TypeInv, TypeOK, WriterOK
<1>1. /\ flush[t].sent \in Nat /\ i \in Nat /\ i <= Len(flush[t].rows)
      /\ PageSize \in Nat /\ Len(flush[t].rows) \in Nat
  BY <1>0, SizesAssumption
<1>2. CASE i <= flush[t].sent
  <2>1. log[flush[t].rows[i]] \in snapshots
    BY <1>2 DEF IInv, SentStored, GivesUp
  <2> QED
    BY <1>0, <2>1, StoresGrow
<1>3. CASE i > flush[t].sent
  <2>1. i <= flush[t].sent + PageSize
    BY <1>1 DEF GivesUp
  <2>2. flush[t].rows[i] \in Page(t)
    BY <1>3, <2>1 DEF Page
  <2> QED
    BY <2>2 DEF GivesUp, InsertPage, PageStored
<1> QED
  BY <1>1, <1>2, <1>3

\* What a step does to custody, seen from the message that is settled or held.
LEMMA AccountedStep ==
  ASSUME IInv, [Next]_vars
  PROVE  HandledAccounted'
<1> USE DEF kafka, redis, postgres, reader, writer, ghosts, FlushRest
<1>0. TypeInv /\ HandledAccounted /\ handled \in Nat /\ committed \in Nat
        /\ handled <= Len(log) /\ Len(log) \in Nat /\ committed <= handled
  BY DEF IInv, TypeInv, TypeOK, StoresOK, LoopOK, CursorsOK
<1>1. \A o \in 1..handled : Settled(o) => Settled(o)'
  BY <1>0, StoresGrow, SettledKept
<1>2. ASSUME handled' = handled,
             \A o \in Custody : o \in Custody' \/ (o \in 1..handled => Settled(o)')
      PROVE  HandledAccounted'
  BY <1>0, <1>1, <1>2 DEF HandledAccounted
<1>3. ASSUME NEW c, c = Current, handled' = c, Custody \subseteq Custody',
             Settled(c)' \/ c \in Custody'
      PROVE  HandledAccounted'
  <2>1. c = handled + 1
    BY <1>3 DEF Current
  <2>2. \A o \in 1..handled : Settled(o)' \/ o \in Custody'
    BY <1>0, <1>1, <1>3 DEF HandledAccounted
  <2> QED
    BY <1>0, <1>3, <2>1, <2>2 DEF HandledAccounted
<1>4. ASSUME RowsKept, handled' = handled
      PROVE  HandledAccounted'
  BY <1>2, <1>4, CustodyKept
<1>5. CASE \E n \in Offsets : ReadBatch(n)
  BY <1>4, <1>5 DEF ReadBatch, RowsKept
<1>6. CASE ComputeAndStore \/ DeadLetterFails \/ Commit \/ CommitFails \/ LeaveLoop \/ Join
  BY <1>4, <1>6 DEF ComputeAndStore, DeadLetterFails, Commit, CommitFails, LeaveLoop, Join, RowsKept
<1>7. CASE Start \/ Sigterm \/ PostgresDown \/ PostgresUp \/ UNCHANGED vars
  BY <1>4, <1>7 DEF Start, Sigterm, PostgresDown, PostgresUp, RowsKept, vars
<1>8. CASE \E m \in Msgs : Produce(m)
  BY <1>4, <1>8 DEF Produce, RowsKept
<1>9. CASE ComputeFails
  <2> PICK c : c = Current
    OBVIOUS
  <2>1. Custody' = Custody /\ handled' = c
    BY <1>9, CustodyKept DEF ComputeFails, RowsKept, Advance
  <2>2. Settled(c)'
    BY <1>9 DEF ComputeFails, Settled
  <2> QED
    BY <1>3, <2>1, <2>2
<1>10. CASE DeadLetter
  <2> PICK c : c = Current
    OBVIOUS
  <2>1. Custody' = Custody /\ handled' = c
    BY <1>10, CustodyKept DEF DeadLetter, RowsKept, Advance
  <2>2. Settled(c)'
    BY <1>10 DEF DeadLetter, Settled
  <2> QED
    BY <1>3, <2>1, <2>2
<1>11. CASE Enqueue
  <2> PICK c : c = Current
    OBVIOUS
  <2>1. handled' = c
    BY <1>11 DEF Enqueue, Advance
  <2>2. c \in Row
    BY <1>0 DEF Current, Row
  <2>3. Custody' = Custody \cup {c}
    BY <1>0, <1>11, <2>2, CustodyEnqueue DEF Enqueue, TypeInv, TypeOK
  <2> QED
    BY <1>3, <2>1, <2>3
<1>12. CASE Crash \/ Exit
  <2>1. handled' = committed /\ dropped' = dropped \cup {o \in Custody : o <= committed}
    BY <1>12 DEF Crash, Exit, Die
  <2>2. \A o \in 1..committed : Settled(o)'
    <3> TAKE o \in 1..committed
    <3>1. o \in 1..handled
      BY <1>0
    <3>2. Settled(o) \/ o \in Custody
      BY <1>0, <3>1 DEF HandledAccounted
    <3>3. CASE o \in Custody
      BY <2>1, <3>3 DEF Settled
    <3> QED
      BY <1>1, <3>1, <3>2, <3>3
  <2> QED
    BY <2>1, <2>2 DEF HandledAccounted
<1>13. ASSUME NEW t \in Threads, Flush(t)
       PROVE  HandledAccounted'
  <2>1. handled' = handled /\ log' = log
    BY <1>13 DEF Flush, FlushBegin, InsertPage, InsertFails, ReplyLost, Reconnect, Requeue
  <2>2. CASE ~GivesUp(t)
    BY <1>0, <1>2, <1>13, <2>1, <2>2, FlushMoves
  <2>3. CASE GivesUp(t)
    <3>1. \A o \in RowSet(flush[t].rows) : log[o] \in snapshots'
      BY <2>3, GivenUpStored
    <3>2. Custody \subseteq Custody' \cup RowSet(flush[t].rows)
      BY <1>0, <1>13, <2>3, FlushMoves
    <3>3. \A o \in RowSet(flush[t].rows) : Settled(o)'
      BY <2>1, <3>1 DEF Settled
    <3> QED
      BY <1>2, <2>1, <3>2, <3>3
  <2> QED
    BY <2>2, <2>3
<1>14. CASE MainReturns \/ FlusherReturns
  <2>1. Custody' = Custody /\ handled' = handled
    BY <1>0, <1>14, ReturnMoves DEF MainReturns, FlusherReturns
  <2> QED
    BY <1>2, <2>1
<1> QED
  BY <1>5, <1>6, <1>7, <1>8, <1>9, <1>10, <1>11, <1>12, <1>13, <1>14
     DEF Next, Main, Flusher, Environment, Threads
\* The offsets held, passed over and dropped are of messages read.
LEMMA HeldInLog ==
  ASSUME TypeInv
  PROVE  Custody \subseteq 1..Len(log)
<1>1. 1..handled \subseteq 1..Len(log)
  BY DEF TypeInv, TypeOK, StoresOK, LoopOK, CursorsOK
<1> QED
  BY <1>1 DEF TypeInv, CustodyRead

\* Only enqueue adds to custody.
LEMMA CustodyGrows ==
  ASSUME TypeInv, [Next]_vars
  PROVE  Custody' \subseteq Custody \/ (Enqueue /\ Custody' = Custody \cup {Current})
<1> USE DEF kafka, redis, postgres, reader, writer, ghosts, FlushRest
<1>1. CASE Enqueue
  <2>1. Current \in Row
    BY <1>1 DEF Current, Row, TypeInv, TypeOK, LoopOK
  <2> QED
    BY <1>1, <2>1, CustodyEnqueue DEF Enqueue, TypeInv, TypeOK
<1>2. CASE Crash \/ Exit
  BY <1>2, CustodyNone DEF Crash, Exit, Die
<1>3. CASE \E t \in Threads : Flush(t)
  BY <1>3, FlushMoves
<1>4. CASE MainReturns \/ FlusherReturns
  BY <1>4, ReturnMoves
<1>5. CASE RowsKept
  BY <1>5, CustodyKept
<1>6. ~(Enqueue \/ Crash \/ Exit \/ (\E t \in Threads : Flush(t)) \/ MainReturns
          \/ FlusherReturns) => RowsKept
  BY DEF Next, Main, Flusher, Environment, vars, Start, ReadBatch, ComputeAndStore,
         ComputeFails, DeadLetter, DeadLetterFails, Commit, CommitFails, LeaveLoop,
         Join, Sigterm, PostgresDown, PostgresUp, Produce, Threads, RowsKept
<1> QED
  BY <1>1, <1>2, <1>3, <1>4, <1>5, <1>6

\* Only transactions reach the writer and the two ways of being lost.
LEMMA TransactionsStep ==
  ASSUME IInv, [Next]_vars
  PROVE  TransactionsOnly'
<1> USE DEF kafka, redis, postgres, reader, writer, ghosts, FlushRest
<1>0. /\ TypeInv /\ TransactionsOnly /\ handled \in Nat /\ Len(log) \in Nat
      /\ Custody \subseteq 1..Len(log)
  BY HeldInLog DEF IInv, TypeInv, TypeOK, StoresOK, LoopOK
<1>1. \A o \in 1..Len(log) : Transaction(o) => o \in 1..Len(log') /\ Transaction(o)'
  <2>1. Len(log') \in Nat
    BY <1>0, TypeInvStep DEF TypeInv, TypeOK, StoresOK
  <2> QED
    BY <1>0, <2>1, StoresGrow DEF Transaction
<1>2. ASSUME NEW c, c = Current, handled < fetched
      PROVE  c \in 1..Len(log)
  BY <1>0, <1>2 DEF Current, TypeInv, TypeOK, LoopOK, CursorsOK
<1>3. \A o \in Custody' : Transaction(o)'
  <2>1. CASE Enqueue
    <3> PICK c : c = Current
      OBVIOUS
    <3>1. c \in 1..Len(log) /\ Transaction(c)
      BY <1>0, <1>2, <2>1 DEF Enqueue, TypeInv, CursorsOK, TransactionsOnly
    <3>2. Custody' \subseteq Custody \cup {c}
      BY <1>0, <2>1, CustodyGrows
    <3> QED
      BY <1>0, <1>1, <3>1, <3>2 DEF TransactionsOnly
  <2>2. CASE ~Enqueue
    BY <1>0, <1>1, <2>2, CustodyGrows DEF TransactionsOnly
  <2> QED
    BY <2>1, <2>2
<1>4. \A o \in (skipped \cup dropped)' : o \in 1..Len(log') /\ Transaction(o)'
  <2>1. CASE ComputeFails
    <3> PICK c : c = Current
      OBVIOUS
    <3>1. c \in 1..Len(log) /\ Transaction(c)
      BY <1>0, <1>2, <2>1 DEF ComputeFails, TypeInv, CursorsOK, Transaction
    <3>2. skipped' = skipped \cup {c} /\ dropped' = dropped
      BY <2>1 DEF ComputeFails
    <3> QED
      BY <1>0, <1>1, <3>1, <3>2 DEF TransactionsOnly
  <2>2. CASE Crash \/ Exit
    <3>1. skipped' = skipped /\ dropped' \subseteq dropped \cup Custody
      BY <2>2 DEF Crash, Exit, Die
    <3> QED
      BY <1>0, <1>1, <3>1 DEF TransactionsOnly
  <2>3. CASE ~(ComputeFails \/ Crash \/ Exit)
    <3>1. UNCHANGED <<skipped, dropped>>
      BY <2>3 DEF Next, Main, Flusher, Environment, vars, Start, ReadBatch, ComputeAndStore,
           DeadLetter, DeadLetterFails, Enqueue, Commit, CommitFails, LeaveLoop,
           Join, Flush, FlushBegin, InsertPage, InsertFails, ReplyLost, Reconnect, Requeue,
           MainReturns, FlusherReturns, Sigterm, PostgresDown, PostgresUp, Produce
    <3> QED
      BY <1>0, <1>1, <3>1 DEF TransactionsOnly
  <2> QED
    BY <2>1, <2>2, <2>3
<1>5. (pc \in {"dead", "enqueue"} => Transaction(Current))'
  <2>1. CASE ComputeAndStore
    <3>1. log' = log /\ handled' = handled /\ log[Current] \in Valid \cup Rejected
      BY <2>1 DEF ComputeAndStore
    <3> QED
      BY <3>1 DEF Transaction, Current
  <2>2. CASE ~ComputeAndStore /\ pc' \in {"dead", "enqueue"}
    <3>1. pc' = pc /\ handled' = handled
      BY <2>2 DEF Next, Main, Flusher, Environment, vars, Start, ReadBatch, Advance,
           ComputeFails, DeadLetter, DeadLetterFails, Enqueue, Commit, CommitFails, LeaveLoop,
           Join, Exit, Crash, Die, Flush, FlushBegin, InsertPage, InsertFails, ReplyLost,
           Reconnect, Requeue, MainReturns, FlusherReturns, Sigterm, PostgresDown, PostgresUp,
           Produce
    <3>2. PICK c : c = Current
      OBVIOUS
    <3>3. c \in 1..Len(log) /\ Transaction(c)
      BY <1>0, <1>2, <2>2, <3>1, <3>2 DEF TypeInv, CursorsOK, TransactionsOnly
    <3>4. Transaction(c)' /\ Current' = c
      BY <1>1, <3>1, <3>2, <3>3 DEF Current
    <3> QED
      BY <3>4
  <2> QED
    BY <2>1, <2>2
<1> QED
  BY <1>3, <1>4, <1>5 DEF TransactionsOnly

\* What a thread counts as sent stays stored.
LEMMA SentStep ==
  ASSUME IInv, [Next]_vars
  PROVE  SentStored'
<1> USE DEF kafka, redis, postgres, reader, writer, ghosts, FlushRest
<1>0. /\ TypeInv /\ SentStored /\ flush \in [Threads -> Job] /\ PageSize \in Nat
      /\ \A t \in Threads : flush[t].sent \in Nat /\ flush[t].rows \in Seq(Row)
  BY Jobs, SizesAssumption DEF IInv, TypeInv, TypeOK, WriterOK
<1>1. \A t \in Threads : \A i \in DOMAIN flush[t].rows :
        log[flush[t].rows[i]] \in snapshots => log'[flush[t].rows[i]] \in snapshots'
  <2> TAKE t \in Threads
  <2> TAKE i \in DOMAIN flush[t].rows
  <2>1. flush[t].rows[i] \in 1..Len(log)
    BY <1>0, HeldInLog DEF Custody, RowSet
  <2> QED
    BY <1>0, <2>1, StoresGrow
<1>2. ASSUME NEW u \in Threads, flush'[u] = flush[u], flush'[u].stage = "snaps",
             NEW i \in DOMAIN flush'[u].rows, i <= flush'[u].sent
      PROVE  log'[flush'[u].rows[i]] \in snapshots'
  BY <1>0, <1>1, <1>2 DEF SentStored
<1>3. ASSUME NEW t \in Threads, NEW job, flush' = [flush EXCEPT ![t] = job],
             job.stage = "snaps" =>
               \A i \in DOMAIN job.rows : i <= job.sent => log'[job.rows[i]] \in snapshots'
      PROVE  SentStored'
  <2> SUFFICES ASSUME NEW u \in Threads, flush'[u].stage = "snaps",
                      NEW i \in DOMAIN flush'[u].rows, i <= flush'[u].sent
               PROVE  log'[flush'[u].rows[i]] \in snapshots'
    BY DEF SentStored
  <2>1. CASE u = t
    BY <1>0, <1>3, <2>1
  <2>2. CASE u # t
    BY <1>0, <1>2, <1>3, <2>2
  <2> QED
    BY <2>1, <2>2
<1>4. CASE flush' = flush
  BY <1>2, <1>4 DEF SentStored
<1>5. CASE Crash \/ Exit
  BY <1>5 DEF Crash, Exit, Die, Idle, SentStored
<1>6. CASE MainReturns
  BY <1>3, <1>6 DEF MainReturns, Threads, Idle
<1>7. CASE FlusherReturns
  <2>1. PICK job : /\ flush' = [flush EXCEPT !["flusher"] = job]
                   /\ job \in {Idle, [flush["flusher"] EXCEPT !.stage = "ended"]}
    BY <1>7 DEF FlusherReturns
  <2>2. job.stage # "snaps"
    BY <1>0, <2>1 DEF Idle, Job, Threads
  <2> QED
    BY <1>3, <2>1, <2>2 DEF Threads
<1>8. ASSUME NEW t \in Threads, Flush(t)
      PROVE  SentStored'
  <2>0. flush[t] \in Job
    BY <1>0
  <2>1. ASSUME NEW st \in Stages \ {"snaps"}, flush' = [flush EXCEPT ![t].stage = st]
        PROVE  SentStored'
    <3>1. [flush[t] EXCEPT !.stage = st].stage = st
      BY <2>0 DEF Job
    <3> QED
      BY <1>3, <2>1, <3>1
  <2>2. CASE FlushBegin(t)
    <3>1. CASE buffer = <<>>
      BY <2>1, <2>2, <3>1, StageNames DEF FlushBegin
    <3>2. CASE buffer # <<>>
      BY <1>3, <2>2, <3>2 DEF FlushBegin
    <3> QED
      BY <3>1, <3>2
  <2>4. CASE Requeue(t)
    BY <1>3, <2>4 DEF Requeue
  <2>5. CASE InsertFails(t) \/ ReplyLost(t) \/ Reconnect(t)
    BY <2>1, <2>5, StageNames DEF InsertFails, ReplyLost, Reconnect
  <2>3. CASE InsertPage(t)
    <3> DEFINE sent == flush[t].sent + PageSize
    <3>1. CASE flush[t].stage = "txns"
      <4> DEFINE next == [flush[t] EXCEPT !.sent = sent]
                 first == [flush[t] EXCEPT !.stage = "snaps", !.sent = 0]
                 job == IF sent < Len(flush[t].rows) THEN next ELSE first
      <4>0. /\ next.stage = "txns"
            /\ first.sent = 0 /\ first.rows = flush[t].rows
        BY <2>0, <3>1 DEF Job
      <4>1. /\ flush' = [flush EXCEPT ![t] = job]
            /\ job.stage = "snaps" => job.sent = 0 /\ job.rows = flush[t].rows
        BY <2>3, <3>1, <4>0 DEF InsertPage
      <4> HIDE DEF job
      <4>2. \A i \in DOMAIN flush[t].rows : ~(i <= 0)
        BY <1>0
      <4> QED
        BY <1>3, <4>1, <4>2
    <3>2. CASE flush[t].stage = "snaps"
      <4> DEFINE next == [flush[t] EXCEPT !.sent = sent]
                 ended == [stage |-> "done", rows |-> <<>>, sent |-> 0]
                 job == IF sent < Len(flush[t].rows) THEN next ELSE ended
      <4>0. next.sent = sent /\ next.rows = flush[t].rows
        BY <2>0 DEF Job
      <4>1. /\ flush' = [flush EXCEPT ![t] = job]
            /\ job.stage = "snaps" => job.sent = sent /\ job.rows = flush[t].rows
        BY <2>3, <3>2, <4>0 DEF InsertPage
      <4> HIDE DEF job
      <4>2. ASSUME NEW i \in DOMAIN flush[t].rows, i <= sent
            PROVE  log'[flush[t].rows[i]] \in snapshots'
        <5>1. CASE i <= flush[t].sent
          BY <1>0, <1>1, <3>2, <5>1 DEF SentStored
        <5>2. CASE i > flush[t].sent
          <6>1. flush[t].rows[i] \in Page(t)
            BY <4>2, <5>2 DEF Page
          <6>2. log' = log /\ log[flush[t].rows[i]] \in snapshots'
            BY <2>3, <3>2, <6>1 DEF InsertPage, PageStored
          <6> QED
            BY <6>2
        <5> QED
          BY <1>0, <5>1, <5>2
      <4> QED
        BY <1>3, <4>1, <4>2
    <3> QED
      BY <2>3, <3>1, <3>2 DEF InsertPage, Inserting
  <2> QED
    BY <1>8, <2>2, <2>3, <2>4, <2>5 DEF Flush
<1>9. ~(Crash \/ Exit \/ MainReturns \/ FlusherReturns \/ \E t \in Threads : Flush(t))
        => flush' = flush
  BY DEF Next, Main, Flusher, Environment, vars, Start, ReadBatch, ComputeAndStore,
         ComputeFails, DeadLetter, DeadLetterFails, Enqueue, Commit, CommitFails, LeaveLoop,
         Join, Sigterm, PostgresDown, PostgresUp, Produce, Threads
<1> QED
  BY <1>4, <1>5, <1>6, <1>7, <1>8, <1>9

\* The loop is not done with a malformed message before its LPUSH.
LEMMA MalformedStep ==
  ASSUME IInv, [Next]_vars
  PROVE  HandledMalformed'
<1> USE DEF kafka, redis, postgres, reader, writer, ghosts, FlushRest
<1>0. /\ TypeInv /\ HandledMalformed /\ handled \in Nat /\ committed \in Nat
      /\ handled <= Len(log) /\ Len(log) \in Nat /\ committed <= handled
  BY DEF IInv, TypeInv, TypeOK, StoresOK, LoopOK, CursorsOK
<1>1. \A o \in 1..handled : log'[o] \in Malformed => o \in dlq'
  BY <1>0, StoresGrow DEF HandledMalformed
<1>2. CASE handled' \in Nat /\ handled' <= handled
  BY <1>0, <1>1, <1>2 DEF HandledMalformed
<1>3. ASSUME NEW c, c = Current, handled' = c, log'[c] \in Malformed => c \in dlq'
      PROVE  HandledMalformed'
  BY <1>0, <1>1, <1>3 DEF HandledMalformed, Current
<1>4. CASE DeadLetter
  BY <1>3, <1>4 DEF DeadLetter, Advance
<1>5. CASE ComputeFails \/ Enqueue
  <2> PICK c : c = Current
    OBVIOUS
  <2>1. log' = log /\ handled' = c
    BY <1>5 DEF ComputeFails, Enqueue, Advance
  <2>2. Transaction(c)
    BY <1>5 DEF ComputeFails, Enqueue, Transaction, IInv, TransactionsOnly
  <2>3. log[c] \notin Malformed
    BY <2>2, KindsAssumption DEF Transaction
  <2> QED
    BY <1>3, <2>1, <2>3
<1>6. ~(DeadLetter \/ ComputeFails \/ Enqueue) => handled' \in {handled, committed}
  BY DEF Next, Main, Flusher, Environment, vars, Start, ReadBatch, ComputeAndStore,
         DeadLetterFails, Commit, CommitFails, LeaveLoop, Join, Exit, Crash, Die, Flush,
         FlushBegin, InsertPage, InsertFails, ReplyLost, Reconnect, Requeue, MainReturns,
         FlusherReturns, Sigterm, PostgresDown, PostgresUp, Produce
<1> QED
  BY <1>0, <1>2, <1>4, <1>5, <1>6

\* The strengthened invariant holds initially.
LEMMA IInvInit == Init => IInv
<1> SUFFICES ASSUME Init PROVE IInv
  OBVIOUS
<1>1. Custody = {}
  BY RowSetEmpty DEF Init, Custody, Idle
<1>2. TransactionsOnly /\ SentStored
  BY <1>1 DEF Init, TransactionsOnly, SentStored, Idle
<1>3. 1..handled = {}
  BY DEF Init
<1> QED
  BY <1>2, <1>3, TypeInvInit DEF IInv, HandledAccounted, HandledMalformed

\* The strengthened invariant is inductive.
LEMMA IInvStep == IInv /\ [Next]_vars => IInv'
  BY TypeInvStep, TransactionsStep, SentStep, AccountedStep, MalformedStep DEF IInv

\* The inductive invariant.
THEOREM Invariance == Spec => []IInv
  BY IInvInit, IInvStep, PTL DEF Spec

\* Of the messages Kafka will not deliver again, none is lost track of: each is
\* in feature_snapshots, in the dead letter queue, still held by the writer, or
\* lost in one of the two ways the code has.
THEOREM NothingUntracked == Spec => []Accounted
<1>1. IInv => Accounted
  <2> SUFFICES ASSUME IInv, NEW o \in 1..committed PROVE Settled(o) \/ o \in Custody
    BY DEF Accounted
  <2>1. o \in 1..handled
    BY DEF IInv, TypeInv, TypeOK, StoresOK, LoopOK, CursorsOK
  <2> QED
    BY <2>1 DEF IInv, HandledAccounted
<1> QED
  BY <1>1, Invariance, PTL

\* A malformed message is in the dead letter queue before its offset is
\* committed, whatever fails and however often the process restarts.
THEOREM DeadLetterComplete == Spec => []MalformedNeverLost
<1>1. IInv => MalformedNeverLost
  <2> SUFFICES ASSUME IInv, NEW o \in 1..committed, log[o] \in Malformed
               PROVE  o \in dlq /\ o \notin skipped \cup dropped
    BY DEF MalformedNeverLost
  <2>1. o \in 1..handled
    BY DEF IInv, TypeInv, TypeOK, StoresOK, LoopOK, CursorsOK
  <2>2. o \in dlq
    BY <2>1 DEF IInv, HandledMalformed
  <2>3. o \notin skipped \cup dropped
    BY KindsAssumption DEF IInv, TransactionsOnly, Transaction
  <2> QED
    BY <2>2, <2>3
<1> QED
  BY <1>1, Invariance, PTL
\* No flush loses a row, failed or not: a row the writer holds leaves it when
\* its snapshot is stored or when the process ends.
THEOREM FlushLosesNothing == Spec => RowsLeaveOnlyStored
<1>1. IInv /\ [Next]_vars => [KeepsRows]_vars
  <2> SUFFICES ASSUME IInv, [Next]_vars, pc' # "down", NEW o \in Custody
               PROVE  o \in Custody' \/ log[o] \in snapshots'
    BY DEF KeepsRows
  <2> USE DEF kafka, redis, postgres, reader, writer, ghosts
  <2>0. TypeInv
    BY DEF IInv
  <2>1. CASE RowsKept
    BY <2>1, CustodyKept
  <2>2. CASE Enqueue
    <3>1. Current \in Row
      BY <2>0, <2>2 DEF Current, Row, TypeInv, TypeOK, LoopOK
    <3> QED
      BY <2>0, <2>2, <3>1, CustodyEnqueue DEF Enqueue, TypeInv, TypeOK
  <2>3. CASE MainReturns \/ FlusherReturns
    BY <2>0, <2>3, ReturnMoves
  <2>4. ASSUME NEW t \in Threads, Flush(t)
        PROVE  o \in Custody' \/ log[o] \in snapshots'
    <3>1. CASE GivesUp(t)
      BY <2>0, <2>4, <3>1, FlushMoves, GivenUpStored
    <3>2. CASE ~GivesUp(t)
      BY <2>0, <2>4, <3>2, FlushMoves
    <3> QED
      BY <3>1, <3>2
  <2>5. ~(Enqueue \/ (\E t \in Threads : Flush(t)) \/ MainReturns \/ FlusherReturns) => RowsKept
    BY DEF Next, Main, Flusher, Environment, vars, Start, ReadBatch, ComputeAndStore,
           ComputeFails, DeadLetter, DeadLetterFails, Commit, CommitFails, LeaveLoop,
           Join, Crash, Exit, Die, Sigterm, PostgresDown, PostgresUp, Produce, Threads, RowsKept
  <2> QED
    BY <2>1, <2>2, <2>3, <2>4, <2>5
<1> QED
  BY <1>1, Invariance, PTL DEF Spec, RowsLeaveOnlyStored

\* The committed offset never moves back.
THEOREM CommitsAdvance == Spec => CommittedNeverFalls
<1>1. TypeInv /\ [Next]_vars => [committed' >= committed]_vars
  <2> SUFFICES ASSUME TypeInv, [Next]_vars PROVE committed' >= committed
    OBVIOUS
  <2>1. committed \in Nat /\ fetched \in Nat /\ committed <= fetched
    BY DEF TypeInv, TypeOK, StoresOK, LoopOK, CursorsOK
  <2>2. committed' \in {committed, fetched}
    BY DEF Next, Main, Flusher, Environment, vars, Start, ReadBatch, ComputeAndStore,
           ComputeFails, DeadLetter, DeadLetterFails, Enqueue, Commit, CommitFails, LeaveLoop,
           Join, Exit, Crash, Die, Flush, FlushBegin, InsertPage, InsertFails, ReplyLost,
           Reconnect, Requeue, MainReturns, FlusherReturns, Sigterm, PostgresDown, PostgresUp,
           Produce, FlushRest, kafka
  <2> QED
    BY <2>1, <2>2
<1> QED
  BY <1>1, TypeCorrect, PTL DEF Spec, CommittedNeverFalls

-----------------------------------------------------------------------------
(* The writer holds a row once.                                            *)

\* No row is twice in a list of rows.
Distinct(s) == \A i, j \in DOMAIN s : s[i] = s[j] => i = j

\* A list with a new row at its end.
LEMMA DistinctAppend ==
  ASSUME NEW S, NEW s \in Seq(S), NEW x \in S, Distinct(s), x \notin RowSet(s)
  PROVE  Distinct(Append(s, x))
<1>1. DOMAIN Append(s, x) = 1..(Len(s) + 1) /\ DOMAIN s = 1..Len(s)
  OBVIOUS
<1>2. \A i \in 1..Len(s) : Append(s, x)[i] = s[i] /\ s[i] # x
  BY <1>1 DEF RowSet
<1>3. Append(s, x)[Len(s) + 1] = x
  OBVIOUS
<1>4. \A i \in 1..(Len(s) + 1) : i \in 1..Len(s) \/ i = Len(s) + 1
  OBVIOUS
<1>5. \A i, j \in 1..Len(s) : s[i] = s[j] => i = j
  BY <1>1 DEF Distinct
<1> QED
  BY <1>1, <1>2, <1>3, <1>4, <1>5 DEF Distinct

\* Two lists that share no row, put together.
LEMMA DistinctConcat ==
  ASSUME NEW S, NEW s \in Seq(S), NEW t \in Seq(S),
         Distinct(s), Distinct(t), RowSet(s) \cap RowSet(t) = {}
  PROVE  Distinct(s \o t)
<1>1. /\ DOMAIN (s \o t) = 1..(Len(s) + Len(t)) /\ Len(s) \in Nat /\ Len(t) \in Nat
      /\ DOMAIN s = 1..Len(s) /\ DOMAIN t = 1..Len(t)
  OBVIOUS
<1>2. \A i \in 1..Len(s) : (s \o t)[i] = s[i]
  OBVIOUS
<1>3. ASSUME NEW i \in 1..(Len(s) + Len(t)), i > Len(s)
      PROVE  i - Len(s) \in 1..Len(t) /\ (s \o t)[i] = t[i - Len(s)]
  BY <1>3
<1>4. \A i \in 1..Len(s) : \A j \in 1..Len(t) : s[i] # t[j]
  BY <1>1 DEF RowSet
<1>5. ASSUME NEW i \in 1..(Len(s) + Len(t)), NEW j \in 1..(Len(s) + Len(t)), i < j
      PROVE  (s \o t)[i] # (s \o t)[j]
  <2>1. CASE j <= Len(s)
    <3>1. i \in 1..Len(s) /\ j \in 1..Len(s) /\ i # j
      BY <1>1, <1>5, <2>1
    <3> QED
      BY <1>1, <1>2, <3>1 DEF Distinct
  <2>2. CASE i > Len(s)
    <3>1. j > Len(s)
      BY <1>1, <1>5, <2>2
    <3>2. /\ i - Len(s) \in 1..Len(t) /\ (s \o t)[i] = t[i - Len(s)]
          /\ j - Len(s) \in 1..Len(t) /\ (s \o t)[j] = t[j - Len(s)]
      BY <1>3, <2>2, <3>1
    <3>3. i - Len(s) # j - Len(s)
      BY <1>1, <1>5
    <3> QED
      BY <1>1, <3>2, <3>3 DEF Distinct
  <2>3. CASE i <= Len(s) /\ j > Len(s)
    <3>1. i \in 1..Len(s)
      BY <1>1, <2>3
    <3>2. j - Len(s) \in 1..Len(t) /\ (s \o t)[j] = t[j - Len(s)]
      BY <1>3, <2>3
    <3> QED
      BY <1>2, <1>4, <3>1, <3>2
  <2> QED
    BY <1>1, <2>1, <2>2, <2>3
<1>6. ASSUME NEW i \in 1..(Len(s) + Len(t)), NEW j \in 1..(Len(s) + Len(t)), i # j
      PROVE  (s \o t)[i] # (s \o t)[j]
  BY <1>1, <1>5, <1>6
<1> QED
  BY <1>1, <1>6 DEF Distinct

\* No list of the writer has a row twice, and no two share one.
HeldApart ==
  /\ Distinct(buffer)
  /\ \A t \in Threads : /\ Distinct(flush[t].rows)
                        /\ RowSet(flush[t].rows) \cap RowSet(buffer) = {}
  /\ \A t, u \in Threads : t # u => RowSet(flush[t].rows) \cap RowSet(flush[u].rows) = {}

\* What a step of flush does to the lists: nothing, the buffer is taken over, the
\* rows are put back, or they are given up.
RowsTaken(t) == buffer' = <<>> /\ flush'[t].rows = buffer /\ flush[t].rows = <<>>
RowsBack(t) == buffer' = flush[t].rows \o buffer /\ flush'[t].rows = <<>>
RowsGone(t) == buffer' = buffer /\ flush'[t].rows = <<>>

LEMMA FlushLists ==
  ASSUME TypeInv, NEW t \in Threads, Flush(t)
  PROVE  /\ \A u \in Threads : u # t => flush'[u] = flush[u]
         /\ \/ buffer' = buffer /\ flush'[t].rows = flush[t].rows
            \/ RowsTaken(t) \/ RowsBack(t) \/ RowsGone(t)
<1>1. flush \in [Threads -> Job] /\ flush[t] \in Job
  BY DEF TypeInv, TypeOK, WriterOK
<1>2. ASSUME NEW job, flush' = [flush EXCEPT ![t] = job]
      PROVE  flush'[t] = job /\ \A u \in Threads : u # t => flush'[u] = flush[u]
  BY <1>1, <1>2
<1>3. ASSUME NEW st, flush' = [flush EXCEPT ![t].stage = st]
      PROVE  /\ flush'[t].rows = flush[t].rows
             /\ \A u \in Threads : u # t => flush'[u] = flush[u]
  BY <1>1, <1>3 DEF Job
<1>4. CASE FlushBegin(t)
  <2>1. flush[t].rows = <<>>
    BY <1>4 DEF FlushBegin, Calls, TypeInv, IdleEmpty
  <2>2. CASE buffer = <<>>
    BY <1>3, <1>4, <2>2 DEF FlushBegin
  <2>3. CASE buffer # <<>>
    BY <1>2, <1>4, <2>1, <2>3 DEF FlushBegin, RowsTaken
  <2> QED
    BY <2>2, <2>3
<1>5. CASE InsertPage(t)
  <2> DEFINE sent == flush[t].sent + PageSize
             next == [flush[t] EXCEPT !.sent = sent]
             first == [flush[t] EXCEPT !.stage = "snaps", !.sent = 0]
             ended == [stage |-> "done", rows |-> <<>>, sent |-> 0]
             job == IF sent < Len(flush[t].rows) THEN next
                    ELSE IF flush[t].stage = "txns" THEN first ELSE ended
  <2>1. flush' = [flush EXCEPT ![t] = job] /\ buffer' = buffer
    BY <1>5 DEF InsertPage
  <2>2. job.rows \in {flush[t].rows, <<>>}
    <3>1. next.rows = flush[t].rows /\ first.rows = flush[t].rows /\ ended.rows = <<>>
      BY <1>1 DEF Job
    <3> HIDE DEF next, first, ended
    <3> QED
      BY <3>1
  <2> HIDE DEF job
  <2> QED
    BY <1>2, <2>1, <2>2 DEF RowsGone
<1>6. CASE InsertFails(t) \/ ReplyLost(t) \/ Reconnect(t)
  BY <1>3, <1>6 DEF InsertFails, ReplyLost, Reconnect
<1>7. CASE Requeue(t)
  BY <1>2, <1>7 DEF Requeue, RowsBack
<1> QED
  BY <1>4, <1>5, <1>6, <1>7 DEF Flush

\* The lists of the next state, written out.
LEMMA HeldApartNext ==
  ASSUME Distinct(buffer'),
         \A t \in Threads : /\ Distinct(flush'[t].rows)
                            /\ RowSet(flush'[t].rows) \cap RowSet(buffer') = {},
         \A t, u \in Threads : t # u => RowSet(flush'[t].rows) \cap RowSet(flush'[u].rows) = {}
  PROVE  HeldApart'
<1>1. Distinct(buffer)'
  BY DEF Distinct
<1>2. \A t \in Threads : Distinct(flush[t].rows)'
  BY DEF Distinct
<1>3. \A t \in Threads : (RowSet(flush[t].rows) \cap RowSet(buffer) = {})'
  BY DEF RowSet
<1>4. \A t, u \in Threads : t # u => (RowSet(flush[t].rows) \cap RowSet(flush[u].rows) = {})'
  BY DEF RowSet
<1> QED
  BY <1>1, <1>2, <1>3, <1>4 DEF HeldApart

\* A flush leaves the lists apart.
LEMMA HeldApartFlush ==
  ASSUME TypeInv, HeldApart, NEW t \in Threads, Flush(t)
  PROVE  HeldApart'
<1>1. /\ flush \in [Threads -> Job] /\ buffer \in Seq(Row)
      /\ \A u \in Threads : flush[u].rows \in Seq(Row)
  BY Jobs DEF TypeInv, TypeOK, WriterOK
<1>2. \A u \in Threads : u # t => flush'[u].rows = flush[u].rows
  BY FlushLists
<1>3. ASSUME Distinct(buffer'), Distinct(flush'[t].rows),
             RowSet(flush'[t].rows) \cap RowSet(buffer') = {},
             \A u \in Threads : u # t => /\ RowSet(flush[u].rows) \cap RowSet(buffer') = {}
                                         /\ RowSet(flush[u].rows) \cap RowSet(flush'[t].rows) = {}
      PROVE  HeldApart'
  <2>1. ASSUME NEW u \in Threads
        PROVE  Distinct(flush'[u].rows) /\ RowSet(flush'[u].rows) \cap RowSet(buffer') = {}
    BY <1>2, <1>3 DEF HeldApart
  <2>2. ASSUME NEW u \in Threads, NEW v \in Threads, u # v
        PROVE  RowSet(flush'[u].rows) \cap RowSet(flush'[v].rows) = {}
    <3>1. CASE u = t
      BY <1>2, <1>3, <2>2, <3>1
    <3>2. CASE v = t
      BY <1>2, <1>3, <2>2, <3>2
    <3>3. CASE u # t /\ v # t
      BY <1>2, <2>2, <3>3 DEF HeldApart
    <3> QED
      BY <3>1, <3>2, <3>3
  <2> QED
    BY <1>3, <2>1, <2>2, HeldApartNext
<1>4. CASE buffer' = buffer /\ flush'[t].rows = flush[t].rows
  BY <1>3, <1>4 DEF HeldApart
<1>5. Distinct(<<>>) /\ RowSet(<<>>) = {}
  BY RowSetEmpty DEF Distinct
<1>6. CASE RowsTaken(t)
  BY <1>3, <1>5, <1>6 DEF HeldApart, RowsTaken
<1>7. CASE RowsGone(t)
  BY <1>3, <1>5, <1>7 DEF HeldApart, RowsGone
<1>8. CASE RowsBack(t)
  <2>1. buffer' = flush[t].rows \o buffer /\ flush'[t].rows = <<>>
    BY <1>8 DEF RowsBack
  <2>2. RowSet(buffer') = RowSet(flush[t].rows) \cup RowSet(buffer)
    BY <1>1, <2>1, RowSetConcat
  <2>3. Distinct(buffer')
    BY <1>1, <2>1, DistinctConcat DEF HeldApart
  <2>4. \A u \in Threads : u # t => RowSet(flush[u].rows) \cap RowSet(buffer') = {}
    BY <2>2 DEF HeldApart
  <2> QED
    BY <1>3, <1>5, <2>1, <2>3, <2>4
<1> QED
  BY <1>4, <1>6, <1>7, <1>8, FlushLists

\* The lists stay apart.
LEMMA HeldApartStep == TypeInv /\ HeldApart /\ [Next]_vars => HeldApart'
<1> SUFFICES ASSUME TypeInv, HeldApart, [Next]_vars PROVE HeldApart'
  OBVIOUS
<1> USE DEF kafka, redis, postgres, reader, writer, ghosts
<1>1. CASE buffer' = buffer /\ \A t \in Threads : flush'[t].rows = flush[t].rows
  BY <1>1, HeldApartNext DEF HeldApart
<1>2. CASE Enqueue
  <2>1. PICK c : c = Current
    OBVIOUS
  <2>2. c \in Row /\ c \notin Custody
    BY <2>1 DEF TypeInv, CustodyRead, TypeOK, LoopOK, Current, Row
  <2>3. /\ buffer' = Append(buffer, c) /\ flush' = flush /\ buffer \in Seq(Row)
    BY <1>2, <2>1 DEF Enqueue, TypeInv, TypeOK, WriterOK
  <2>4. c \notin RowSet(buffer) /\ \A t \in Threads : c \notin RowSet(flush[t].rows)
    BY <2>2 DEF Custody
  <2>5. RowSet(buffer') = RowSet(buffer) \cup {c} /\ Distinct(buffer')
    BY <2>2, <2>3, <2>4, RowSetAppend, DistinctAppend DEF HeldApart
  <2> QED
    BY <2>3, <2>4, <2>5, HeldApartNext DEF HeldApart
<1>3. CASE Crash \/ Exit
  <2>1. buffer' = <<>> /\ flush' = [t \in Threads |-> Idle]
    BY <1>3 DEF Crash, Exit, Die
  <2>2. buffer' = <<>> /\ \A t \in Threads : flush'[t].rows = <<>>
    BY <2>1 DEF Idle
  <2> QED
    BY <2>2, RowSetEmpty DEF HeldApart, Distinct
<1>4. CASE MainReturns \/ FlusherReturns
  <2>1. \A t \in Threads : flush'[t].rows = flush[t].rows
    BY <1>4, ReturnMoves
  <2>2. buffer' = buffer
    BY <1>4 DEF MainReturns, FlusherReturns
  <2> QED
    BY <1>1, <2>1, <2>2
<1>5. ~(Enqueue \/ Crash \/ Exit \/ (\E t \in Threads : Flush(t)) \/ MainReturns
          \/ FlusherReturns) => RowsKept
  BY DEF Next, Main, Flusher, Environment, vars, Start, ReadBatch, ComputeAndStore,
         ComputeFails, DeadLetter, DeadLetterFails, Commit, CommitFails, LeaveLoop,
         Join, Sigterm, PostgresDown, PostgresUp, Produce, Threads, RowsKept
<1> QED
  BY <1>1, <1>2, <1>3, <1>4, <1>5, HeldApartFlush DEF RowsKept

\* The writer never holds a row twice, though two threads take the buffer over
\* and put rows back into it.
THEOREM AlwaysHeldOnce == Spec => []RowsHeldOnce
<1>1. Init => HeldApart
  <2> SUFFICES ASSUME Init PROVE HeldApart
    OBVIOUS
  <2>1. buffer = <<>> /\ \A t \in Threads : flush[t].rows = <<>>
    BY DEF Init, Idle
  <2> QED
    BY <2>1, RowSetEmpty DEF HeldApart, Distinct
<1>2. TypeInv /\ HeldApart => RowsHeldOnce
  <2> SUFFICES ASSUME TypeInv, HeldApart PROVE Distinct(Held)
    BY DEF RowsHeldOnce, Distinct
  <2> DEFINE m == flush["main"].rows
             f == flush["flusher"].rows
             b == buffer
  <2>1. /\ b \in Seq(Row) /\ m \in Seq(Row) /\ f \in Seq(Row)
        /\ Distinct(b) /\ Distinct(m) /\ Distinct(f)
        /\ RowSet(b) \cap RowSet(m) = {} /\ RowSet(b) \cap RowSet(f) = {}
        /\ RowSet(m) \cap RowSet(f) = {}
    <3>1. "main" \in Threads /\ "flusher" \in Threads
      BY DEF Threads
    <3>2. b \in Seq(Row) /\ m \in Seq(Row) /\ f \in Seq(Row)
      BY <3>1, Jobs DEF TypeInv, TypeOK, WriterOK
    <3> QED
      BY <3>1, <3>2 DEF HeldApart
  <2>2. Held = b \o m \o f
    BY DEF Held
  <2> HIDE DEF b, m, f
  <2>3. b \o m \in Seq(Row) /\ Distinct(b \o m) /\ RowSet(b \o m) = RowSet(b) \cup RowSet(m)
    BY <2>1, DistinctConcat, RowSetConcat
  <2>4. RowSet(b \o m) \cap RowSet(f) = {}
    BY <2>1, <2>3
  <2>5. Distinct((b \o m) \o f)
    <3> DEFINE h == b \o m
    <3>1. h \in Seq(Row) /\ Distinct(h) /\ RowSet(h) \cap RowSet(f) = {}
      BY <2>3, <2>4
    <3> HIDE DEF h
    <3>2. Distinct(h \o f)
      BY <2>1, <3>1, DistinctConcat
    <3> QED
      BY <3>2 DEF h
  <2> QED
    BY <2>2, <2>5
<1> QED
  BY <1>1, <1>2, HeldApartStep, TypeCorrect, PTL DEF Spec

-----------------------------------------------------------------------------
(* What the offline store has, the online store had first.                 *)

\* The places of the rows a flush has sent.
SentPart(t) == {i \in DOMAIN flush[t].rows : i <= flush[t].sent}

\* Of a flush, the pages sent, and all once it inserts snapshots, are in transactions.
FlushBacked(t) ==
  /\ flush[t].stage = "txns" => \A i \in SentPart(t) : log[flush[t].rows[i]] \in transactions
  /\ flush[t].stage = "snaps" => \A o \in RowSet(flush[t].rows) : log[o] \in transactions

\* The messages held have been written to Redis.
Backed ==
  /\ SnapshotsAreBacked
  /\ \A o \in Custody : log[o] \in history
  /\ pc = "enqueue" => log[Current] \in history
  /\ \A t \in Threads : FlushBacked(t)

\* The other stores only grow, too.
LEMMA BackingGrows ==
  ASSUME [Next]_vars
  PROVE  history \subseteq history' /\ transactions \subseteq transactions'
<1> USE DEF kafka, redis, postgres, reader, writer, ghosts, FlushRest
<1>1. history \subseteq history'
  BY DEF Next, Main, Flusher, Environment, vars, Start, ReadBatch, ComputeAndStore,
         ComputeFails, DeadLetter, DeadLetterFails, Enqueue, Commit, CommitFails, LeaveLoop,
         Join, Exit, Crash, Die, Flush, FlushBegin, InsertPage, InsertFails, ReplyLost,
         Reconnect, Requeue, MainReturns, FlusherReturns, Sigterm, PostgresDown, PostgresUp,
         Produce
<1>2. transactions \subseteq transactions'
  BY DEF Next, Main, Flusher, Environment, vars, Start, ReadBatch, ComputeAndStore,
         ComputeFails, DeadLetter, DeadLetterFails, Enqueue, Commit, CommitFails, LeaveLoop,
         Join, Exit, Crash, Die, Flush, FlushBegin, InsertPage, InsertFails, ReplyLost,
         Reconnect, Requeue, MainReturns, FlusherReturns, Sigterm, PostgresDown, PostgresUp,
         Produce, PageStored
<1> QED
  BY <1>1, <1>2

\* What is in a store stays in it, under the same message.
LEMMA BackedStays ==
  ASSUME TypeInv, [Next]_vars, NEW o \in 1..Len(log)
  PROVE  /\ log[o] \in history => log'[o] \in history'
         /\ log[o] \in transactions => log'[o] \in transactions'
  BY StoresGrow, BackingGrows

\* A row is held only when its message has been written to Redis.
LEMMA HeldInHistory ==
  ASSUME TypeInv, Backed, [Next]_vars
  PROVE  /\ \A o \in Custody' : log'[o] \in history'
         /\ (pc = "enqueue" => log[Current] \in history)'
<1> USE DEF kafka, redis, postgres, reader, writer, ghosts
<1>1. PICK c : c = Current
  OBVIOUS
<1>2. handled < fetched => c \in 1..Len(log)
  BY <1>1 DEF Current, TypeInv, TypeOK, StoresOK, LoopOK, CursorsOK
<1>3. pc = "enqueue" => c \in 1..Len(log) /\ log[c] \in history
  BY <1>1, <1>2 DEF Backed, TypeInv, CursorsOK
<1>4. Custody' \subseteq Custody \/ (pc = "enqueue" /\ Custody' \subseteq Custody \cup {c})
  BY <1>1, CustodyGrows DEF Enqueue
<1>5. \A o \in Custody' : log'[o] \in history'
  BY <1>3, <1>4, HeldInLog, BackedStays DEF Backed
<1>6. ASSUME pc' = "enqueue" PROVE log'[Current'] \in history'
  <2>1. CASE ComputeAndStore
    BY <1>6, <2>1 DEF ComputeAndStore, Current
  <2>2. CASE ~ComputeAndStore
    <3>1. pc = "enqueue" /\ handled' = handled
      BY <1>6, <2>2 DEF Next, Main, Flusher, Environment, vars, Start, ReadBatch, Advance,
           ComputeFails, DeadLetter, DeadLetterFails, Enqueue, Commit, CommitFails, LeaveLoop,
           Join, Exit, Crash, Die, Flush, FlushBegin, InsertPage, InsertFails, ReplyLost,
           Reconnect, Requeue, MainReturns, FlusherReturns, Sigterm, PostgresDown, PostgresUp,
           Produce, FlushRest
    <3>2. Current' = c
      BY <1>1, <3>1 DEF Current
    <3> QED
      BY <1>3, <3>1, <3>2, BackedStays
  <2> QED
    BY <2>1, <2>2
<1> QED
  BY <1>5, <1>6

\* What a flush has sent stays stored.
LEMMA FlushBackedStays ==
  ASSUME TypeInv, [Next]_vars, NEW t \in Threads, FlushBacked(t),
         \/ flush'[t] = flush[t]
         \/ flush'[t].stage \notin {"txns", "snaps"}
  PROVE  FlushBacked(t)'
<1>1. RowSet(flush[t].rows) \subseteq 1..Len(log)
  BY HeldInLog DEF Custody
<1>2. ASSUME NEW o \in RowSet(flush[t].rows), log[o] \in transactions
      PROVE  log'[o] \in transactions'
  BY <1>1, <1>2, BackedStays
<1>3. \A i \in DOMAIN flush[t].rows : flush[t].rows[i] \in RowSet(flush[t].rows)
  BY DEF RowSet
<1>4. CASE flush'[t] = flush[t]
  <2>1. SentPart(t)' = SentPart(t) /\ RowSet(flush'[t].rows) = RowSet(flush[t].rows)
    BY <1>4 DEF SentPart
  <2>2. ASSUME flush'[t].stage = "txns", NEW i \in SentPart(t)
        PROVE  log'[flush'[t].rows[i]] \in transactions'
    BY <1>2, <1>3, <1>4, <2>2 DEF FlushBacked, SentPart
  <2>3. ASSUME flush'[t].stage = "snaps", NEW o \in RowSet(flush'[t].rows)
        PROVE  log'[o] \in transactions'
    BY <1>2, <1>4, <2>3 DEF FlushBacked
  <2>4. \A o : o \in RowSet(flush[t].rows)' <=> o \in RowSet(flush'[t].rows)
    BY DEF RowSet
  <2> QED
    BY <2>1, <2>2, <2>3, <2>4 DEF FlushBacked
<1>5. CASE flush'[t].stage \notin {"txns", "snaps"}
  BY <1>5 DEF FlushBacked
<1> QED
  BY <1>4, <1>5

\* What flush[t] becomes in each step of flush.
LEMMA FlushJobs ==
  ASSUME TypeInv, NEW t \in Threads, Flush(t)
  PROVE  \/ flush'[t].stage \notin {"txns", "snaps"}
         \/ FlushBegin(t) /\ flush'[t].stage = "txns" /\ flush'[t].sent = 0
         \/ /\ InsertPage(t) /\ flush'[t].rows = flush[t].rows
            /\ \/ /\ flush'[t].stage = flush[t].stage
                  /\ flush'[t].sent = flush[t].sent + PageSize
               \/ /\ flush[t].stage = "txns" /\ flush'[t].stage = "snaps" /\ flush'[t].sent = 0
                  /\ ~(flush[t].sent + PageSize < Len(flush[t].rows))
<1>1. flush \in [Threads -> Job] /\ flush[t] \in Job
  BY DEF TypeInv, TypeOK, WriterOK
<1>2. ASSUME NEW job, flush' = [flush EXCEPT ![t] = job]
      PROVE  flush'[t] = job
  BY <1>1, <1>2
<1>3. ASSUME NEW st, flush' = [flush EXCEPT ![t].stage = st]
      PROVE  flush'[t].stage = st
  BY <1>1, <1>3 DEF Job
<1>4. CASE FlushBegin(t)
  <2>1. CASE buffer = <<>>
    BY <1>3, <1>4, <2>1 DEF FlushBegin
  <2>2. CASE buffer # <<>>
    <3> DEFINE taken == [stage |-> "txns", rows |-> buffer, sent |-> 0]
    <3>1. flush' = [flush EXCEPT ![t] = taken]
      BY <1>4, <2>2 DEF FlushBegin
    <3>2. flush'[t] = taken
      BY <1>2, <3>1
    <3>3. taken.stage = "txns" /\ taken.sent = 0
      OBVIOUS
    <3> QED
      BY <1>4, <3>2, <3>3
  <2> QED
    BY <2>1, <2>2
<1>5. CASE InsertPage(t)
  <2> DEFINE sent == flush[t].sent + PageSize
             next == [flush[t] EXCEPT !.sent = sent]
             first == [flush[t] EXCEPT !.stage = "snaps", !.sent = 0]
             ended == [stage |-> "done", rows |-> <<>>, sent |-> 0]
             job == IF sent < Len(flush[t].rows) THEN next
                    ELSE IF flush[t].stage = "txns" THEN first ELSE ended
  <2>1. flush' = [flush EXCEPT ![t] = job]
    BY <1>5 DEF InsertPage
  <2>2. /\ next.rows = flush[t].rows /\ next.stage = flush[t].stage /\ next.sent = sent
        /\ first.rows = flush[t].rows /\ first.stage = "snaps" /\ first.sent = 0
        /\ ended.stage = "done"
    BY <1>1 DEF Job
  <2>3. \/ job = next \/ job = ended
        \/ job = first /\ flush[t].stage = "txns" /\ ~(sent < Len(flush[t].rows))
    OBVIOUS
  <2>4. flush'[t] = job
    BY <1>2, <2>1
  <2> HIDE DEF job, next, first, ended
  <2> QED
    BY <1>5, <2>2, <2>3, <2>4
<1>6. CASE InsertFails(t) \/ ReplyLost(t) \/ Reconnect(t)
  BY <1>3, <1>6 DEF InsertFails, ReplyLost, Reconnect
<1>7. CASE Requeue(t)
  BY <1>2, <1>7 DEF Requeue
<1> QED
  BY <1>4, <1>5, <1>6, <1>7 DEF Flush

\* A page of transactions that is inserted, and the pages before it.
LEMMA PagesStored ==
  ASSUME TypeInv, [Next]_vars, NEW t \in Threads, FlushBacked(t), InsertPage(t),
         flush[t].stage = "txns", NEW i \in DOMAIN flush[t].rows,
         i <= flush[t].sent + PageSize
  PROVE  log'[flush[t].rows[i]] \in transactions'
<1>1. flush[t].sent \in Nat /\ i \in Nat
  <2>1. flush[t].sent \in Nat /\ flush[t].rows \in Seq(Row)
    BY Jobs DEF TypeInv, TypeOK, WriterOK
  <2> QED
    BY <2>1
<1>2. flush[t].rows[i] \in RowSet(flush[t].rows)
  BY DEF RowSet
<1>3. flush[t].rows[i] \in 1..Len(log)
  BY <1>2, HeldInLog DEF Custody
<1>4. CASE i <= flush[t].sent
  BY <1>3, <1>4, BackedStays DEF FlushBacked, SentPart
<1>5. CASE i > flush[t].sent
  <2>1. flush[t].rows[i] \in Page(t)
    BY <1>5 DEF Page
  <2>2. log' = log /\ transactions' = transactions \cup {log[o] : o \in Page(t)}
    BY DEF InsertPage, PageStored, FlushRest, kafka
  <2> QED
    BY <2>1, <2>2
<1> QED
  BY <1>1, <1>4, <1>5

\* A flush inserts the snapshot of a row after its transaction.
LEMMA FlushBackedStep ==
  ASSUME TypeInv, Backed, [Next]_vars, NEW t \in Threads
  PROVE  FlushBacked(t)'
<1> USE DEF kafka, redis, postgres, reader, writer, ghosts, FlushRest
<1>1. FlushBacked(t) /\ flush \in [Threads -> Job] /\ flush[t] \in Job
  BY DEF Backed, TypeInv, TypeOK, WriterOK
<1>2. CASE Flush(t)
  <2>1. CASE flush'[t].stage \notin {"txns", "snaps"}
    BY <1>1, <2>1, FlushBackedStays
  <2>2. CASE FlushBegin(t) /\ flush'[t].stage = "txns" /\ flush'[t].sent = 0
    <3>1. flush'[t].rows \in Seq(Row)
      BY Jobs, TypeInvStep DEF TypeInv, TypeOK, WriterOK
    <3>2. \A i \in DOMAIN flush'[t].rows : ~(i <= flush'[t].sent)
      BY <2>2, <3>1
    <3> QED
      BY <2>2, <3>2 DEF FlushBacked, SentPart
  <2>3. CASE InsertPage(t) /\ flush'[t].rows = flush[t].rows /\ flush[t].stage = "txns"
    <3>1. \A i \in DOMAIN flush[t].rows : i <= flush[t].sent + PageSize =>
             log'[flush[t].rows[i]] \in transactions'
      BY <1>1, <2>3, PagesStored
    <3>2. CASE flush'[t].stage = "txns" /\ flush'[t].sent = flush[t].sent + PageSize
      BY <2>3, <3>1, <3>2 DEF FlushBacked, SentPart
    <3>3. CASE flush'[t].stage = "snaps" /\ ~(flush[t].sent + PageSize < Len(flush[t].rows))
      <4>1. flush[t].rows \in Seq(Row) /\ flush[t].sent \in Nat /\ PageSize \in Nat
        BY <1>1, Jobs, SizesAssumption
      <4>2. \A i \in DOMAIN flush[t].rows : i <= flush[t].sent + PageSize
        BY <3>3, <4>1
      <4>3. \A i \in DOMAIN flush'[t].rows : log'[flush'[t].rows[i]] \in transactions'
        BY <2>3, <3>1, <4>2
      <4> QED
        BY <3>3, <4>3 DEF FlushBacked, RowSet
    <3> QED
      BY <1>2, <2>1, <2>2, <2>3, <3>2, <3>3, FlushJobs
  <2>4. CASE /\ InsertPage(t) /\ flush'[t].rows = flush[t].rows
             /\ flush[t].stage = "snaps" /\ flush'[t].stage = "snaps"
    <3>1. \A o \in RowSet(flush[t].rows) : o \in 1..Len(log)
      BY HeldInLog DEF Custody
    <3>2. \A i \in DOMAIN flush'[t].rows : log'[flush'[t].rows[i]] \in transactions'
      BY <1>1, <2>4, <3>1, BackedStays DEF FlushBacked, RowSet
    <3> QED
      BY <2>4, <3>2 DEF FlushBacked, RowSet
  <2> QED
    BY <1>2, <2>1, <2>2, <2>3, <2>4, FlushJobs DEF InsertPage, Inserting
<1>3. CASE \E u \in Threads : u # t /\ Flush(u)
  BY <1>1, <1>3, FlushLists, FlushBackedStays
<1>4. CASE flush' = flush
  BY <1>1, <1>4, FlushBackedStays
<1>5. CASE Crash \/ Exit
  <2>1. flush'[t].stage = "idle"
    BY <1>5 DEF Crash, Exit, Die, Idle
  <2> QED
    BY <1>1, <2>1, FlushBackedStays
<1>6. CASE MainReturns \/ FlusherReturns
  <2>1. flush'[t] = flush[t] \/ flush'[t].stage \in {"idle", "ended"}
    <3>1. CASE MainReturns
      BY <1>1, <3>1 DEF MainReturns, Idle, Threads
    <3>2. CASE FlusherReturns
      <4>1. PICK job : /\ flush' = [flush EXCEPT !["flusher"] = job]
                       /\ job \in {Idle, [flush["flusher"] EXCEPT !.stage = "ended"]}
        BY <3>2 DEF FlusherReturns
      <4>2. job.stage \in {"idle", "ended"}
        BY <1>1, <4>1 DEF Idle, Job, Threads
      <4> QED
        BY <1>1, <4>1, <4>2
    <3> QED
      BY <1>6, <3>1, <3>2
  <2> QED
    BY <1>1, <2>1, FlushBackedStays
<1>7. ~(Crash \/ Exit \/ MainReturns \/ FlusherReturns \/ \E u \in Threads : Flush(u))
        => flush' = flush
  BY DEF Next, Main, Flusher, Environment, vars, Start, ReadBatch, ComputeAndStore,
         ComputeFails, DeadLetter, DeadLetterFails, Enqueue, Commit, CommitFails, LeaveLoop,
         Join, Sigterm, PostgresDown, PostgresUp, Produce, Threads
<1> QED
  BY <1>2, <1>3, <1>4, <1>5, <1>6, <1>7

\* A snapshot that is stored has its transaction and its message in Redis.
LEMMA SnapshotsBackedStep ==
  ASSUME TypeInv, Backed, [Next]_vars
  PROVE  SnapshotsAreBacked'
<1> USE DEF kafka, redis, postgres, reader, writer, ghosts, FlushRest
<1>1. CASE \E t \in Threads : Flush(t) /\ PageStored(t) /\ flush[t].stage = "snaps"
  <2>1. PICK t \in Threads : Flush(t) /\ PageStored(t) /\ flush[t].stage = "snaps"
    BY <1>1
  <2>2. snapshots' = snapshots \cup {log[o] : o \in Page(t)}
    BY <2>1 DEF PageStored
  <2>3. Page(t) \subseteq RowSet(flush[t].rows)
    BY DEF Page, RowSet
  <2>4. \A o \in Page(t) : log[o] \in transactions /\ log[o] \in history
    BY <2>1, <2>3 DEF Backed, FlushBacked, Custody
  <2> QED
    BY <2>2, <2>4, BackingGrows DEF Backed, SnapshotsAreBacked
<1>2. CASE snapshots' = snapshots
  BY <1>2, BackingGrows DEF Backed, SnapshotsAreBacked
<1>3. \/ snapshots' = snapshots
      \/ \E t \in Threads : Flush(t) /\ PageStored(t) /\ flush[t].stage = "snaps"
  <2>1. ASSUME NEW t \in Threads, Flush(t)
        PROVE  snapshots' = snapshots \/ (PageStored(t) /\ flush[t].stage = "snaps")
    BY <2>1 DEF Flush, FlushBegin, InsertPage, InsertFails, ReplyLost, Reconnect, Requeue,
           PageStored, Inserting
  <2>2. ~(\E t \in Threads : Flush(t)) => snapshots' = snapshots
    BY DEF Next, Main, Flusher, Environment, vars, Start, ReadBatch, ComputeAndStore,
           ComputeFails, DeadLetter, DeadLetterFails, Enqueue, Commit, CommitFails, LeaveLoop,
           Join, Exit, Crash, Die, MainReturns, FlusherReturns, Sigterm, PostgresDown,
           PostgresUp, Produce, Threads
  <2> QED
    BY <2>1, <2>2
<1> QED
  BY <1>1, <1>2, <1>3

\* A snapshot never refers to a transaction that is missing, and is never of a
\* message whose features Redis does not have.
THEOREM AlwaysBacked == Spec => []SnapshotsAreBacked
<1>1. Init => Backed
  <2> SUFFICES ASSUME Init PROVE Backed
    OBVIOUS
  <2>1. Custody = {} /\ \A t \in Threads : FlushBacked(t)
    BY RowSetEmpty DEF Init, Custody, Idle, FlushBacked
  <2> QED
    BY <2>1 DEF Init, Backed, SnapshotsAreBacked
<1>2. TypeInv /\ Backed /\ [Next]_vars => Backed'
  <2> SUFFICES ASSUME TypeInv, Backed, [Next]_vars PROVE Backed'
    OBVIOUS
  <2>1. SnapshotsAreBacked' /\ (pc = "enqueue" => log[Current] \in history)'
    BY SnapshotsBackedStep, HeldInHistory
  <2>2. (\A o \in Custody : log[o] \in history)'
    BY HeldInHistory
  <2>3. (\A t \in Threads : FlushBacked(t))'
    BY FlushBackedStep
  <2> QED
    BY <2>1, <2>2, <2>3 DEF Backed
<1>3. Backed => SnapshotsAreBacked
  BY DEF Backed
<1> QED
  BY <1>1, <1>2, <1>3, TypeCorrect, PTL DEF Spec

-----------------------------------------------------------------------------
(* Nothing is lost without a fault.                                        *)

\* In a clean run no flush gets to its handler; close flushes what is in the buffer,
\* and nobody fills it after that.
CleanRun ==
  /\ pc # "down" => conn = "ok"
  /\ \A t \in Threads : flush[t].stage \in {"idle", "txns", "snaps", "done", "ended"}
  /\ flush["main"].stage # "idle" => pc \in {"flush", "drain"}
  /\ pc = "down" => flush["flusher"].stage = "idle"
  /\ pc = "drain" /\ flush["main"].stage # "idle" => buffer = <<>>
  /\ pc = "exit" => buffer = <<>>

\* A run that is clean after a step was so before, and the step is no fault.
LEMMA CleanBefore ==
  ASSUME TypeInv, [Next]_vars, Clean'
  PROVE  Clean /\ ~Fault
<1>1. faults \in Nat /\ Len(log) \in Nat
  BY SizesAssumption DEF TypeInv, TypeOK, StoresOK, LoopOK
<1>2. ~Fault
  BY <1>1 DEF Fault, Clean
<1>3. faults' = faults \/ Fault
  BY DEF Next, Main, Flusher, Environment, vars, Start, ReadBatch, ComputeAndStore, NoFault,
         ComputeFails, DeadLetter, DeadLetterFails, Enqueue, Commit, CommitFails, LeaveLoop,
         Join, Exit, Crash, Flush, FlushBegin, InsertPage, InsertFails, ReplyLost,
         Reconnect, Requeue, MainReturns, FlusherReturns, Sigterm, PostgresDown, PostgresUp,
         Produce
<1>4. \A o \in 1..Len(log) : o \in 1..Len(log') /\ log'[o] = log[o]
  <2>1. Len(log') \in Nat
    BY TypeInvStep DEF TypeInv, TypeOK, StoresOK
  <2> QED
    BY <1>1, <2>1, StoresGrow
<1> QED
  BY <1>2, <1>3, <1>4 DEF Clean

\* A step of the loop between two flushes.
LEMMA CleanLoop ==
  ASSUME TypeInv, CleanRun,
         \/ \E n \in Offsets : ReadBatch(n)
         \/ ComputeAndStore \/ DeadLetter \/ Enqueue \/ Commit \/ LeaveLoop \/ Start
  PROVE  CleanRun'
<1> USE DEF kafka, redis, postgres, reader, writer, ghosts, CleanRun
<1>1. /\ pc \notin {"flush", "drain", "exit"}
      /\ pc' \in {"poll", "compute", "dead", "enqueue", "flush", "commit", "join"}
  BY DEF ReadBatch, ComputeAndStore, DeadLetter, Refused, Enqueue, Commit, LeaveLoop, Start, Advance
<1>2. flush' = flush
  BY DEF ReadBatch, ComputeAndStore, DeadLetter, Enqueue, Commit, LeaveLoop, Start
<1>3. conn' = "ok"
  BY DEF ReadBatch, ComputeAndStore, DeadLetter, Refused, Enqueue, Commit, LeaveLoop, Start
<1> QED
  BY <1>1, <1>2, <1>3

\* A flush, when the connection is there and no row is refused.
LEMMA CleanFlush ==
  ASSUME TypeInv, CleanRun, Clean, ~Fault, NEW t \in Threads, Flush(t)
  PROVE  CleanRun'
<1>1. /\ flush \in [Threads -> Job] /\ "main" \in Threads /\ "flusher" \in Threads
      /\ t \in {"main", "flusher"}
  BY DEF TypeInv, TypeOK, WriterOK, Threads
<1>2. ~Reconnect(t) /\ ~Requeue(t) /\ ~ReplyLost(t)
  BY DEF CleanRun, Reconnect, Requeue, ReplyLost
<1>3. Inserting(t) => pc # "down"
  BY <1>1 DEF Inserting, CleanRun
<1>4. ~InsertFails(t)
  <2> SUFFICES ASSUME InsertFails(t) PROVE FALSE
    OBVIOUS
  <2>1. Inserting(t) /\ conn = "ok"
    BY <1>3 DEF InsertFails, CleanRun
  <2>2. Page(t) \subseteq RowSet(flush[t].rows)
    BY DEF Page, RowSet
  <2>3. Page(t) \subseteq 1..Len(log)
    BY <2>2, HeldInLog DEF Custody
  <2> QED
    BY <2>1, <2>3 DEF InsertFails, Acceptable, Clean
<1>5. FlushBegin(t) \/ InsertPage(t)
  BY <1>2, <1>4 DEF Flush
<1>6. pc # "down" /\ (t = "main" => pc \in {"flush", "drain"})
  BY <1>1, <1>3, <1>5 DEF FlushBegin, Calls, InsertPage, Inserting, CleanRun
<1>7. /\ \A u \in Threads : u # t => flush'[u] = flush[u]
      /\ flush'[t].stage \in {"txns", "snaps", "done"}
  <2>1. CASE FlushBegin(t) /\ buffer = <<>>
    <3>1. flush' = [flush EXCEPT ![t].stage = "done"]
      BY <2>1 DEF FlushBegin
    <3>2. flush'[t].stage = "done"
      BY <1>1, <3>1 DEF Job
    <3> QED
      BY <3>2, FlushLists
  <2>2. CASE FlushBegin(t) /\ buffer # <<>>
    <3>1. flush'[t] = [stage |-> "txns", rows |-> buffer, sent |-> 0]
      BY <1>1, <2>2 DEF FlushBegin
    <3> QED
      BY <3>1, FlushLists
  <2>3. CASE InsertPage(t)
    <3> DEFINE sent == flush[t].sent + PageSize
               next == [flush[t] EXCEPT !.sent = sent]
               first == [flush[t] EXCEPT !.stage = "snaps", !.sent = 0]
               ended == [stage |-> "done", rows |-> <<>>, sent |-> 0]
               job == IF sent < Len(flush[t].rows) THEN next
                      ELSE IF flush[t].stage = "txns" THEN first ELSE ended
    <3>1. flush' = [flush EXCEPT ![t] = job]
      BY <2>3 DEF InsertPage
    <3>2. next.stage = flush[t].stage /\ first.stage = "snaps" /\ ended.stage = "done"
      BY <1>1 DEF Job
    <3>3. job \in {next, first, ended}
      OBVIOUS
    <3> HIDE DEF job, next, first, ended
    <3>4. flush'[t] = job
      BY <1>1, <3>1
    <3> QED
      BY <2>3, <3>2, <3>3, <3>4, FlushLists DEF InsertPage, Inserting
  <2> QED
    BY <1>5, <2>1, <2>2, <2>3
<1>8. UNCHANGED <<pc, conn>>
  BY <1>5 DEF FlushBegin, InsertPage, FlushRest
<1>9. /\ buffer = <<>> => buffer' = <<>>
      /\ t = "main" /\ pc = "drain" => buffer' = <<>>
  <2>1. CASE FlushBegin(t)
    BY <2>1 DEF FlushBegin
  <2>2. CASE InsertPage(t)
    BY <1>1, <1>6, <2>2 DEF InsertPage, Inserting, CleanRun
  <2> QED
    BY <1>5, <2>1, <2>2
<1> QED
  BY <1>1, <1>6, <1>7, <1>8, <1>9 DEF CleanRun

\* A flush returns; close has flushed what was left in the buffer.
LEMMA CleanReturns ==
  ASSUME TypeInv, CleanRun, MainReturns \/ FlusherReturns
  PROVE  CleanRun'
<1>1. /\ flush \in [Threads -> Job] /\ "main" \in Threads /\ "flusher" \in Threads
      /\ Threads = {"main", "flusher"}
  BY DEF TypeInv, TypeOK, WriterOK, Threads
<1>2. CASE MainReturns
  <2>1. /\ pc \in {"flush", "drain"} /\ UNCHANGED <<conn, buffer>>
        /\ pc' = IF pc = "drain" THEN "exit" ELSE IF handled = fetched THEN "commit" ELSE "compute"
    BY <1>1, <1>2 DEF MainReturns, CleanRun
  <2>2. flush'["main"].stage = "idle" /\ flush'["flusher"] = flush["flusher"]
    BY <1>1, <1>2 DEF MainReturns, Idle
  <2>3. pc = "drain" => buffer = <<>>
    BY <1>2 DEF MainReturns, CleanRun
  <2> QED
    BY <1>1, <2>1, <2>2, <2>3 DEF CleanRun
<1>3. CASE FlusherReturns
  <2>1. pc # "down" /\ UNCHANGED <<pc, conn, buffer>>
    BY <1>3 DEF FlusherReturns, CleanRun
  <2>2. flush'["main"] = flush["main"] /\ flush'["flusher"].stage \in {"idle", "ended"}
    <3>1. PICK job : /\ flush' = [flush EXCEPT !["flusher"] = job]
                     /\ job \in {Idle, [flush["flusher"] EXCEPT !.stage = "ended"]}
      BY <1>3 DEF FlusherReturns
    <3>2. job.stage \in {"idle", "ended"}
      BY <1>1, <3>1 DEF Idle, Job
    <3> QED
      BY <1>1, <3>1, <3>2
  <2> QED
    BY <1>1, <2>1, <2>2 DEF CleanRun
<1> QED
  BY <1>2, <1>3

\* A clean run stays clean, whatever the order of the two threads and wherever
\* stops and restarts fall.
LEMMA CleanRunStep == TypeInv /\ (Clean => CleanRun) /\ [Next]_vars => (Clean => CleanRun)'
<1> SUFFICES ASSUME TypeInv, Clean => CleanRun, [Next]_vars, Clean' PROVE CleanRun'
  BY DEF Clean
<1> USE DEF kafka, redis, postgres, reader, writer, ghosts
<1>0. Clean /\ CleanRun /\ ~Fault
  BY CleanBefore
<1>1. CASE Join
  <2>1. pc = "join" /\ pc' = "drain" /\ UNCHANGED <<conn, flush, buffer>>
    BY <1>0, <1>1 DEF Join
  <2> QED
    BY <1>0, <2>1 DEF CleanRun
<1>2. CASE Exit
  <2>1. pc' = "down" /\ flush' = [t \in Threads |-> Idle] /\ buffer' = <<>>
    BY <1>2 DEF Exit, Die
  <2>2. \A t \in Threads : flush'[t].stage = "idle"
    BY <2>1 DEF Idle
  <2> QED
    BY <1>0, <2>1, <2>2 DEF CleanRun, Threads
<1>3. CASE Sigterm \/ PostgresUp \/ (\E m \in Msgs : Produce(m)) \/ UNCHANGED vars
  <2>1. UNCHANGED <<pc, conn, flush, buffer>>
    BY <1>3 DEF Sigterm, PostgresUp, Produce, vars
  <2> QED
    BY <1>0, <2>1 DEF CleanRun
<1>4. ~(Crash \/ ComputeFails \/ DeadLetterFails \/ CommitFails \/ PostgresDown)
  BY <1>0 DEF Crash, ComputeFails, DeadLetterFails, CommitFails, PostgresDown
<1> QED
  BY <1>0, <1>1, <1>2, <1>3, <1>4, CleanLoop, CleanFlush, CleanReturns
     DEF Next, Main, Flusher, Environment, Threads

\* What the end of a clean run costs: the rows of a flush of the background thread.
LEMMA CleanLoss ==
  ASSUME TypeInv, Clean => CleanRun, [Next]_vars
  PROVE  LosesOnlyInFlight
<1> SUFFICES ASSUME Clean'
             PROVE  /\ skipped' = skipped
                    /\ dropped' \ dropped \subseteq RowSet(flush["flusher"].rows)
  BY DEF LosesOnlyInFlight
<1>0. Clean /\ CleanRun /\ ~Fault
  BY CleanBefore
<1>1. CASE Exit
  <2>1. skipped' = skipped /\ dropped' \ dropped \subseteq Custody
    BY <1>1 DEF Exit, Die
  <2>2. buffer = <<>> /\ flush["main"].stage = "idle"
    BY <1>0, <1>1 DEF Exit, CleanRun
  <2>3. flush["main"].rows = <<>>
    BY <2>2 DEF TypeInv, IdleEmpty, Threads
  <2>4. Custody = RowSet(flush["flusher"].rows)
    BY <2>2, <2>3, CustodyParts, RowSetEmpty
  <2> QED
    BY <2>1, <2>4
<1>2. CASE ~Exit
  <2>1. UNCHANGED <<skipped, dropped>>
    BY <1>0, <1>2 DEF Next, Main, Flusher, Environment, vars, Start, ReadBatch, ComputeAndStore,
         ComputeFails, DeadLetter, DeadLetterFails, Enqueue, Commit, CommitFails, LeaveLoop,
         Join, Crash, Flush, FlushBegin, InsertPage, InsertFails, ReplyLost, Reconnect, Requeue,
         MainReturns, FlusherReturns, Sigterm, PostgresDown, PostgresUp, Produce, FlushRest,
         ghosts
  <2> QED
    BY <2>1
<1> QED
  BY <1>1, <1>2

\* As long as no call fails and Postgres refuses no row, no message is passed over,
\* and the end of a process drops nothing but rows that the background thread is
\* still inserting (main's finally, PostgresSnapshotWriter.close).
THEOREM CleanRunsLoseOnlyInFlight == Spec => CleanRunLosesOnlyInFlight
<1>1. Init => (Clean => CleanRun)
  <2> SUFFICES ASSUME Init PROVE CleanRun
    OBVIOUS
  <2>1. \A t \in Threads : flush[t].stage = "idle"
    BY DEF Init, Idle
  <2> QED
    BY <2>1 DEF Init, CleanRun, Threads
<1>2. TypeInv /\ (Clean => CleanRun) /\ [Next]_vars => [LosesOnlyInFlight]_vars
  BY CleanLoss
<1> QED
  BY <1>1, <1>2, CleanRunStep, TypeCorrect, PTL DEF Spec, CleanRunLosesOnlyInFlight
=============================================================================
