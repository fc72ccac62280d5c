----------------------------- MODULE FeatureEngine -----------------------------
(***************************************************************************)
(* The feature_engine process: one Kafka consumer thread that turns each   *)
(* transaction into a feature vector in Redis, a background thread that    *)
(* writes snapshot rows to Postgres in batches, the dead letter queue and  *)
(* the offset commit that ends a batch (feature_engine/main.py,            *)
(* common/kafka_reader.py).                                                *)
(*                                                                         *)
(* A message is known by its offset in the one partition of                *)
(* transactions-raw and is an element of one of four sets:                 *)
(*   Valid        becomes a Transaction whose row Postgres accepts;        *)
(*   Rejected     becomes a Transaction whose row Postgres refuses, e.g. a *)
(*                currency longer than CHAR(3), which the pydantic model   *)
(*                does not bound;                                          *)
(*   Malformed    decodes, but pydantic refuses it;                        *)
(*   Undecodable  neither msgpack nor JSON, so the deserializer raises.    *)
(* Which transactions the pandera schema refuses depends on the user's     *)
(* history, so the outcome of that check is a choice.                      *)
(***************************************************************************)
EXTENDS Naturals, Sequences

CONSTANTS Valid, Rejected, Malformed, Undecodable,
          BatchSize,   \* records poll may return at once (batch_size)
          FlushSize,   \* rows that make enqueue flush inline (POSTGRES_FLUSH_BATCH_SIZE)
          PageSize,    \* rows per statement of execute_values
          MaxLog,      \* bound: messages produced
          MaxFaults,   \* bound: failures of Redis, Postgres, Kafka, the process
          MaxStops     \* bound: SIGTERMs

Msgs == Valid \cup Rejected \cup Malformed \cup Undecodable

ASSUME SizesAssumption ==
  /\ BatchSize \in Nat \ {0} /\ FlushSize \in Nat \ {0} /\ PageSize \in Nat \ {0}
  /\ MaxLog \in Nat /\ MaxFaults \in Nat /\ MaxStops \in Nat

ASSUME KindsAssumption ==
  /\ Malformed \cap (Valid \cup Rejected \cup Undecodable) = {}
  /\ Undecodable \cap (Valid \cup Rejected) = {}
  /\ Valid \cap Rejected = {}

VARIABLES
  log,          \* the partition: a sequence of messages
  committed,    \* the consumer group's committed offset
  history,      \* messages whose write pipeline Redis has executed
  dlq,          \* offsets pushed to the Redis list dlq:feature_engine
  transactions, \* messages with a row in the table transactions
  snapshots,    \* messages with a row in the table feature_snapshots
  pgUp,         \* Postgres accepts connections
  \* state of the process
  pc,           \* what the main thread does next
  fetched,      \* the consumer's position: the last offset poll returned
  handled,      \* the last offset of the batch the loop is done with
  stopFlag,     \* main's stop_flag, set by SIGTERM and SIGINT
  buffer,       \* _buffer and _txn_buffer: offsets of the rows waiting
  conn,         \* _conn: "ok" or "broken"
  stop,         \* _stop, set by close
  flush,        \* the call of flush each thread is in
  \* history variables and bounds
  skipped,      \* offsets the generic exception handler passed over
  dropped,      \* committed offsets whose row died in memory with the process
  faults, stops

kafka == <<log, committed>>
redis == <<history, dlq>>
postgres == <<transactions, snapshots>>
reader == <<fetched, handled>>
writer == <<buffer, conn, stop, flush>>
ghosts == <<skipped, dropped>>
vars == <<log, committed, history, dlq, transactions, snapshots, pgUp, pc, fetched,
          handled, stopFlag, buffer, conn, stop, flush, skipped, dropped, faults, stops>>

Threads == {"main", "flusher"}
Stages == {"idle", "txns", "snaps", "reconnect", "requeue", "done", "ended"}
Places == {"down", "poll", "compute", "dead", "enqueue", "flush", "commit",
           "join", "drain", "exit"}
Offsets == 1..MaxLog

\* The offsets in a list of rows.
RowSet(s) == {s[i] : i \in DOMAIN s}

\* Rows that exist in the process's memory only.
Custody == RowSet(buffer) \cup UNION {RowSet(flush[t].rows) : t \in Threads}

Idle == [stage |-> "idle", rows |-> <<>>, sent |-> 0]

Fault == faults < MaxFaults /\ faults' = faults + 1
NoFault == UNCHANGED faults

-----------------------------------------------------------------------------
(* The process starts, and the environment.                                *)

Init ==
  /\ log = <<>> /\ committed = 0 /\ history = {} /\ dlq = {}
  /\ transactions = {} /\ snapshots = {} /\ pgUp = TRUE
  /\ pc = "down" /\ fetched = 0 /\ handled = 0 /\ stopFlag = FALSE
  /\ buffer = <<>> /\ conn = "broken" /\ stop = FALSE
  /\ flush = [t \in Threads |-> Idle]
  /\ skipped = {} /\ dropped = {} /\ faults = 0 /\ stops = 0

\* A producer's send is appended; a retried send appends the message again.
Produce(m) ==
  /\ Len(log) < MaxLog
  /\ log' = Append(log, m)
  /\ UNCHANGED <<committed, redis, postgres, pgUp, pc, reader, stopFlag, writer,
                 ghosts, faults, stops>>

\* main(): connect to Redis, Postgres and Kafka. A start that cannot connect
\* exits and the container is started again, so it is left out. The buffers are
\* empty and the position is the committed offset, or the earliest: see Die.
Start ==
  /\ pc = "down" /\ pgUp
  /\ pc' = "poll"
  /\ stopFlag' = FALSE /\ stop' = FALSE /\ conn' = "ok"
  /\ UNCHANGED <<kafka, redis, postgres, pgUp, reader, buffer, flush, ghosts, faults, stops>>

\* Mutant: the group is a new one at every start and reads from the earliest offset.
DieForgetsGroup ==
  /\ pc' = "down"
  /\ dropped' = dropped \cup {o \in Custody : o <= committed}
  /\ buffer' = <<>> /\ conn' = "broken"
  /\ flush' = [t \in Threads |-> Idle]
  /\ fetched' = 0 /\ handled' = 0
  /\ UNCHANGED <<kafka, redis, postgres, pgUp, stopFlag, stop, skipped>>

\* The process ends: what it held in memory is gone and its successor will read
\* from the committed offset. Of the rows it held, those of uncommitted offsets
\* will be delivered again, the others will not.
Die ==
  /\ pc' = "down"
  /\ dropped' = dropped \cup {o \in Custody : o <= committed}
  /\ buffer' = <<>> /\ conn' = "broken"
  /\ flush' = [t \in Threads |-> Idle]
  /\ fetched' = committed /\ handled' = committed
  /\ UNCHANGED <<kafka, redis, postgres, pgUp, stopFlag, stop, skipped>>

Crash == pc # "down" /\ Fault /\ Die /\ UNCHANGED stops

\* The signal handler.
Sigterm ==
  /\ pc # "down" /\ ~stopFlag /\ stops < MaxStops
  /\ stopFlag' = TRUE /\ stops' = stops + 1
  /\ UNCHANGED <<kafka, redis, postgres, pgUp, pc, reader, writer, ghosts, faults>>

PostgresDown ==
  /\ pgUp /\ Fault
  /\ pgUp' = FALSE /\ conn' = "broken"
  /\ UNCHANGED <<kafka, redis, postgres, pc, reader, stopFlag, buffer, stop, flush,
                 ghosts, stops>>

PostgresUp ==
  /\ ~pgUp
  /\ pgUp' = TRUE
  /\ UNCHANGED <<kafka, redis, postgres, pc, reader, stopFlag, writer, ghosts,
                 faults, stops>>

-----------------------------------------------------------------------------
(* The consumer loop of main().                                            *)

\* read_batch: poll returns the records of what it fetched. A record the
\* deserializer cannot decode makes poll raise and read_batch return none of
\* what was fetched with it; the position stays, so no read gets past it.
ReadBatch(n) ==
  /\ pc = "poll" /\ ~stopFlag
  /\ n > fetched /\ n <= Len(log) /\ n - fetched <= BatchSize
  /\ \A o \in (fetched + 1)..n : log[o] \notin Undecodable
  /\ fetched' = n /\ pc' = "compute"
  /\ UNCHANGED <<kafka, redis, postgres, pgUp, handled, stopFlag, writer, ghosts,
                 faults, stops>>

Current == handled + 1

\* The loop goes on with the next message of the batch, or to the commit.
Advance(h) ==
  /\ handled' = h
  /\ pc' = IF h = fetched THEN "commit" ELSE "compute"

\* compute_and_store: the write pipeline is executed, or the schema check
\* refuses the feature vector before anything is written.
ComputeAndStore ==
  /\ pc = "compute" /\ log[Current] \in Valid \cup Rejected
  /\ \/ pc' = "enqueue" /\ history' = history \cup {log[Current]}
     \/ pc' = "dead" /\ UNCHANGED history
  /\ UNCHANGED <<kafka, dlq, postgres, pgUp, reader, stopFlag, writer, ghosts,
                 faults, stops>>

\* Any other exception is logged and the message is passed over. When it is
\* the reply of the write pipeline that is lost, Redis has executed it.
ComputeFails ==
  /\ pc = "compute" /\ log[Current] \in Valid \cup Rejected /\ Fault
  /\ \/ history' = history \cup {log[Current]}
     \/ UNCHANGED history
  /\ skipped' = skipped \cup {Current}
  /\ Advance(Current)
  /\ UNCHANGED <<kafka, dlq, postgres, pgUp, fetched, stopFlag, writer, dropped, stops>>

\* The message goes to the dead letter queue.
Refused == \/ pc = "compute" /\ log[Current] \in Malformed
           \/ pc = "dead"

DeadLetter ==
  /\ Refused
  /\ dlq' = dlq \cup {Current}
  /\ Advance(Current)
  /\ UNCHANGED <<kafka, history, postgres, pgUp, fetched, stopFlag, writer, ghosts,
                 faults, stops>>

\* Mutant: the exception of LPUSH is swallowed like those of compute_and_store.
DeadLetterSwallowed ==
  /\ Refused /\ Fault
  /\ UNCHANGED dlq
  /\ Advance(Current)
  /\ UNCHANGED <<kafka, history, postgres, pgUp, fetched, stopFlag, writer, ghosts, stops>>

\* Neither LPUSH is inside a try: its exception leaves the loop, and finally
\* closes the writer. The push may have been executed.
DeadLetterFails ==
  /\ Refused /\ Fault
  /\ dlq' \in {dlq, dlq \cup {Current}}
  /\ pc' = "join" /\ stop' = TRUE
  /\ UNCHANGED <<kafka, history, postgres, pgUp, reader, stopFlag, buffer, conn, flush,
                 ghosts, stops>>

\* Mutant: the row is filed under the offset the loop was done with before.
EnqueuePrevious ==
  /\ pc = "enqueue"
  /\ buffer' = Append(buffer, handled)
  /\ IF Len(buffer') >= FlushSize
       THEN pc' = "flush" /\ handled' = Current
       ELSE Advance(Current)
  /\ UNCHANGED <<kafka, redis, postgres, pgUp, fetched, stopFlag, conn, stop, flush,
                 ghosts, faults, stops>>

\* enqueue: both rows are appended under the lock; the length seen under the
\* lock decides whether the thread calls flush after releasing it.
Enqueue ==
  /\ pc = "enqueue"
  /\ buffer' = Append(buffer, Current)
  /\ IF Len(buffer') >= FlushSize
       THEN pc' = "flush" /\ handled' = Current
       ELSE Advance(Current)
  /\ UNCHANGED <<kafka, redis, postgres, pgUp, fetched, stopFlag, conn, stop, flush,
                 ghosts, faults, stops>>

\* Mutant: enable_auto_commit, which commits the position during the batch.
AutoCommit ==
  /\ pc \in {"compute", "commit"}
  /\ committed' = fetched
  /\ pc' = IF pc = "commit" THEN "poll" ELSE pc
  /\ UNCHANGED <<log, redis, postgres, pgUp, reader, stopFlag, writer, ghosts,
                 faults, stops>>

\* commit: the group's offset becomes the position. An error is swallowed.
Commit ==
  /\ pc = "commit"
  /\ committed' = fetched
  /\ pc' = "poll"
  /\ UNCHANGED <<log, redis, postgres, pgUp, reader, stopFlag, writer, ghosts,
                 faults, stops>>

CommitFails ==
  /\ pc = "commit" /\ Fault
  /\ committed' \in {committed, fetched}
  /\ pc' = "poll"
  /\ UNCHANGED <<log, redis, postgres, pgUp, reader, stopFlag, writer, ghosts, stops>>

\* The loop sees stop_flag between two batches; close() sets _stop.
LeaveLoop ==
  /\ pc = "poll" /\ stopFlag
  /\ pc' = "join" /\ stop' = TRUE
  /\ UNCHANGED <<kafka, redis, postgres, pgUp, reader, stopFlag, buffer, conn, flush,
                 ghosts, faults, stops>>

\* Mutant: close does not flush after the join.
JoinOnly ==
  /\ pc = "join"
  /\ pc' = "exit"
  /\ UNCHANGED <<kafka, redis, postgres, pgUp, reader, stopFlag, writer, ghosts,
                 faults, stops>>

\* close: wait until the flusher has ended, or for the timeout of the join. A flush
\* may take longer than that without anything failing, so Join is always possible.
Join ==
  /\ pc = "join"
  /\ pc' = "drain"
  /\ UNCHANGED <<kafka, redis, postgres, pgUp, reader, stopFlag, writer, ghosts,
                 faults, stops>>

\* close: the connection is closed and the process ends.
Exit == pc = "exit" /\ Die /\ UNCHANGED <<faults, stops>>

-----------------------------------------------------------------------------
(* PostgresSnapshotWriter.flush, called by the main thread at FlushSize     *)
(* rows and in close, by the flusher on its timer.                          *)

\* A thread is about to call flush: the flusher's wait ends by the interval or
\* because close has set _stop.
Calls(t) == /\ flush[t].stage = "idle"
            /\ IF t = "main" THEN pc \in {"flush", "drain"} ELSE pc # "down"

FlushRest == UNCHANGED <<kafka, redis, pgUp, pc, reader, stopFlag, stop, ghosts, stops>>

\* Mutant: the buffers are copied and not emptied.
FlushCopies(t) ==
  /\ Calls(t) /\ buffer # <<>>
  /\ flush' = [flush EXCEPT ![t] = [stage |-> "txns", rows |-> buffer, sent |-> 0]]
  /\ FlushRest /\ NoFault /\ UNCHANGED <<buffer, postgres, conn>>

\* Under the lock: both buffers are taken over, or there is nothing to do.
\* (With nothing to do the flusher just waits again, unless it must end.)
FlushBegin(t) ==
  /\ Calls(t)
  /\ IF buffer = <<>>
       THEN /\ t = "main" \/ stop
            /\ flush' = [flush EXCEPT ![t].stage = "done"]
            /\ UNCHANGED buffer
       ELSE /\ flush' = [flush EXCEPT ![t] = [stage |-> "txns", rows |-> buffer, sent |-> 0]]
            /\ buffer' = <<>>
  /\ FlushRest /\ NoFault /\ UNCHANGED <<postgres, conn>>

\* The offsets in the next page of rows that execute_values sends.
Page(t) ==
  {flush[t].rows[i] : i \in {j \in DOMAIN flush[t].rows :
                               j > flush[t].sent /\ j <= flush[t].sent + PageSize}}

Inserting(t) == flush[t].stage \in {"txns", "snaps"}

\* Mutant: the snapshots are inserted before the transactions they refer to.
PageStoredSwapped(t) ==
  IF flush[t].stage = "snaps"
    THEN transactions' = transactions \cup {log[o] : o \in Page(t)} /\ UNCHANGED snapshots
    ELSE snapshots' = snapshots \cup {log[o] : o \in Page(t)} /\ UNCHANGED transactions

\* Each page is a transaction of its own: the connection is in autocommit mode.
\* Rows that exist already are left alone (ON CONFLICT DO NOTHING).
PageStored(t) ==
  IF flush[t].stage = "txns"
    THEN transactions' = transactions \cup {log[o] : o \in Page(t)} /\ UNCHANGED snapshots
    ELSE snapshots' = snapshots \cup {log[o] : o \in Page(t)} /\ UNCHANGED transactions

Acceptable(t) == \A o \in Page(t) : log[o] \notin Rejected

\* A page is inserted; after the last page of the transactions come the
\* snapshots, and after those the rows are no longer held.
InsertPage(t) ==
  /\ Inserting(t) /\ conn = "ok" /\ Acceptable(t)
  /\ PageStored(t)
  /\ LET sent == flush[t].sent + PageSize
     IN  flush' = [flush EXCEPT ![t] =
           IF sent < Len(@.rows) THEN [@ EXCEPT !.sent = sent]
           ELSE IF @.stage = "txns" THEN [@ EXCEPT !.stage = "snaps", !.sent = 0]
           ELSE [stage |-> "done", rows |-> <<>>, sent |-> 0]]
  /\ FlushRest /\ NoFault /\ UNCHANGED <<buffer, conn>>

\* The statement raises: the connection is gone, or Postgres refuses a row.
InsertFails(t) ==
  /\ Inserting(t) /\ (conn # "ok" \/ ~Acceptable(t))
  /\ flush' = [flush EXCEPT ![t].stage = "reconnect"]
  /\ FlushRest /\ NoFault /\ UNCHANGED <<buffer, conn, postgres>>

\* The page is inserted and the connection lost before the reply.
ReplyLost(t) ==
  /\ Inserting(t) /\ conn = "ok" /\ Acceptable(t) /\ Fault
  /\ PageStored(t)
  /\ conn' = "broken"
  /\ flush' = [flush EXCEPT ![t].stage = "reconnect"]
  /\ FlushRest /\ UNCHANGED buffer

\* Mutant: the handler keeps the connection that failed.
KeepConnection(t) ==
  /\ flush[t].stage = "reconnect"
  /\ flush' = [flush EXCEPT ![t].stage = "requeue"]
  /\ FlushRest /\ NoFault /\ UNCHANGED <<conn, buffer, postgres>>

\* The handler of flush connects again; when all attempts fail the error is
\* swallowed and _conn stays as it was.
Reconnect(t) ==
  /\ flush[t].stage = "reconnect"
  /\ conn' = IF pgUp THEN "ok" ELSE conn
  /\ flush' = [flush EXCEPT ![t].stage = "requeue"]
  /\ FlushRest /\ NoFault /\ UNCHANGED <<buffer, postgres>>

\* Mutant: the rows overwrite what was enqueued while they were in flight.
RequeueOverwrites(t) ==
  /\ flush[t].stage = "requeue"
  /\ buffer' = flush[t].rows
  /\ flush' = [flush EXCEPT ![t] = [stage |-> "done", rows |-> <<>>, sent |-> 0]]
  /\ FlushRest /\ NoFault /\ UNCHANGED <<conn, postgres>>

\* Under the lock: the rows go back to the front of the buffers.
Requeue(t) ==
  /\ flush[t].stage = "requeue"
  /\ buffer' = flush[t].rows \o buffer
  /\ flush' = [flush EXCEPT ![t] = [stage |-> "done", rows |-> <<>>, sent |-> 0]]
  /\ FlushRest /\ NoFault /\ UNCHANGED <<conn, postgres>>

\* flush returns to the consumer loop or to close.
MainReturns ==
  /\ flush["main"].stage = "done"
  /\ flush' = [flush EXCEPT !["main"] = Idle]
  /\ pc' = IF pc = "drain" THEN "exit"
           ELSE IF handled = fetched THEN "commit" ELSE "compute"
  /\ UNCHANGED <<kafka, redis, postgres, pgUp, reader, stopFlag, buffer, conn, stop,
                 ghosts, faults, stops>>

\* flush returns to _flush_loop, which ends once _stop is set.
FlusherReturns ==
  /\ flush["flusher"].stage = "done"
  /\ flush' = [flush EXCEPT !["flusher"] = IF stop THEN [@ EXCEPT !.stage = "ended"]
                                                   ELSE Idle]
  /\ UNCHANGED <<kafka, redis, postgres, pgUp, pc, reader, stopFlag, buffer, conn, stop,
                 ghosts, faults, stops>>

Flush(t) == \/ FlushBegin(t) \/ InsertPage(t) \/ InsertFails(t) \/ ReplyLost(t)
            \/ Reconnect(t) \/ Requeue(t)

Main == \/ \E n \in Offsets : ReadBatch(n)
        \/ ComputeAndStore \/ ComputeFails \/ DeadLetter \/ DeadLetterFails
        \/ Enqueue \/ Commit \/ CommitFails \/ LeaveLoop \/ Join \/ Exit
        \/ Flush("main") \/ MainReturns

Flusher == Flush("flusher") \/ FlusherReturns

Environment == \/ \E m \in Msgs : Produce(m)
               \/ Crash \/ Sigterm \/ PostgresDown \/ PostgresUp

Next == Start \/ Main \/ Flusher \/ Environment

Spec == Init /\ [][Next]_vars

\* Both threads are scheduled, the container is restarted (restart:
\* unless-stopped) and Postgres comes back.
FairSpec == Spec /\ WF_vars(Start) /\ WF_vars(Main) /\ WF_vars(Flusher)
                 /\ WF_vars(PostgresUp)

-----------------------------------------------------------------------------
(* Properties.                                                             *)

\* The type invariant.
StoresOK ==
  /\ log \in Seq(Msgs) /\ committed \in Nat
  /\ history \subseteq Msgs /\ dlq \subseteq Nat
  /\ transactions \subseteq Msgs /\ snapshots \subseteq Msgs
  /\ pgUp \in BOOLEAN

LoopOK ==
  /\ pc \in Places /\ fetched \in Nat /\ handled \in Nat /\ stopFlag \in BOOLEAN
  /\ skipped \subseteq Nat /\ dropped \subseteq Nat
  /\ faults \in 0..MaxFaults /\ stops \in 0..MaxStops

Row == Nat \ {0}
Job == [stage : Stages, rows : Seq(Row), sent : Nat]

WriterOK ==
  /\ buffer \in Seq(Row) /\ conn \in {"ok", "broken"} /\ stop \in BOOLEAN
  /\ flush \in [Threads -> Job]

TypeOK == StoresOK /\ LoopOK /\ WriterOK

\* A message has reached one of its ends: its snapshot is in Postgres, it is in
\* the dead letter queue, or it was lost in one of the two ways the code has.
Settled(o) == \/ log[o] \in snapshots
              \/ o \in dlq
              \/ o \in skipped
              \/ o \in dropped

\* Every message at or below the committed offset, which Kafka will not deliver
\* again, is settled or its row is still held by the writer: in the buffer or
\* in a flush of either thread. Nothing else can happen to it, whatever fails
\* and in whatever order the two threads run (main's loop, commit, flush).
Accounted == \A o \in 1..committed : Settled(o) \/ o \in Custody

\* A message pydantic refuses is in the dead letter queue before its offset is
\* committed, and is never passed over: the LPUSH is not in a try, so when
\* Redis is away the process ends rather than go on without it.
MalformedNeverLost ==
  \A o \in 1..committed : log[o] \in Malformed => o \in dlq /\ o \notin skipped \cup dropped

\* The writer holds a row once: taking the buffers over, failing and putting
\* the rows back never leaves a row with two holders or twice in one, though
\* two threads flush at the same time (PostgresSnapshotWriter.flush).
Held == buffer \o flush["main"].rows \o flush["flusher"].rows

RowsHeldOnce == \A i, j \in DOMAIN Held : Held[i] = Held[j] => i = j

\* What the offline store has, the online store had first, and a snapshot has
\* the transaction its foreign key refers to, after every partial flush.
SnapshotsAreBacked == snapshots \subseteq transactions \cap history

\* No call has failed, and Postgres will refuse no row.
Clean == faults = 0 /\ \A o \in 1..Len(log) : log[o] \notin Rejected

\* As long as every call has succeeded and Postgres has refused no row, all that
\* any number of stops and restarts can lose are rows that the background thread
\* is inserting when the process ends, because its flush outlives the timeout of
\* the join: nothing is passed over, and what waits in the buffer is flushed
\* first, wherever the SIGTERM hits the two threads (main's finally,
\* PostgresSnapshotWriter.close).
LosesOnlyInFlight ==
  Clean' => skipped' = skipped /\ dropped' \ dropped \subseteq RowSet(flush["flusher"].rows)

CleanRunLosesOnlyInFlight == [][LosesOnlyInFlight]_vars

\* A row leaves the writer only when its snapshot is stored or the process
\* ends: no flush, failed or not, loses a row (flush and its handler).
KeepsRows == \A o \in Custody : \/ o \in Custody'
                                \/ log[o] \in snapshots'
                                \/ pc' = "down"

RowsLeaveOnlyStored == [][KeepsRows]_vars

\* The committed offset never moves back, also when a process that restarts
\* reads again what it had read before (commit, auto_offset_reset).
CommittedNeverFalls == [][committed' >= committed]_vars

\* Every message that is produced is settled in the end: faults are finite and
\* each is retried (flush), restarted (main) or ends the message.
EverythingSettles ==
  \A o \in Offsets : o <= Len(log) ~> o <= Len(log) /\ Settled(o)

\* The process implements Delivery: its commits, failures and restarts never
\* forget an offset, whichever thread holds the row (commit, flush, close).
Done == {o \in 1..Len(log) : Settled(o)}

D == INSTANCE Delivery WITH produced <- Len(log), done <- Done, held <- Custody

DeliverySpec == D!Spec

-----------------------------------------------------------------------------
(* The inductive invariant the theorems of FeatureEngineProof rest on.      *)

\* committed, handled and fetched follow each other along the log, and the loop
\* holds a message where it handles one.
CursorsOK ==
  /\ committed <= handled /\ handled <= fetched /\ fetched <= Len(log)
  /\ pc \in {"compute", "dead", "enqueue"} => handled < fetched
  /\ pc = "commit" => handled = fetched

\* The writer holds rows of messages the loop is done with.
CustodyRead == Custody \subseteq 1..handled

\* What the loop takes for a transaction is one.
Transaction(o) == log[o] \in Valid \cup Rejected

TransactionsOnly ==
  /\ \A o \in Custody : Transaction(o)
  /\ \A o \in skipped \cup dropped : o \in 1..Len(log) /\ Transaction(o)
  /\ pc \in {"dead", "enqueue"} => Transaction(Current)

\* A thread that is not in flush holds no rows.
IdleEmpty ==
  \A t \in Threads : flush[t].stage \in {"idle", "done", "ended"} => flush[t].rows = <<>>

\* A thread that inserts snapshots has stored those of the pages it has sent.
SentStored ==
  \A t \in Threads : flush[t].stage = "snaps" =>
    \A i \in DOMAIN flush[t].rows :
      i <= flush[t].sent => log[flush[t].rows[i]] \in snapshots

\* Accounted and MalformedNeverLost, from the moment the loop is done with a
\* message on and not only from its commit.
HandledAccounted == \A o \in 1..handled : Settled(o) \/ o \in Custody
HandledMalformed == \A o \in 1..handled : log[o] \in Malformed => o \in dlq

TypeInv == TypeOK /\ CursorsOK /\ CustodyRead /\ IdleEmpty
IInv == TypeInv /\ TransactionsOnly /\ SentStored /\ HandledAccounted /\ HandledMalformed

-----------------------------------------------------------------------------
(* What the repository says and the code does not do.                      *)

\* The class comment of PostgresSnapshotWriter: the consumer loop is never
\* blocked on a database round trip per event. So a message about to be
\* enqueued never finds the buffer full, which would flush on its account.
NotBlockedPerEvent == pc = "enqueue" => Len(buffer) < FlushSize

\* The module comment: a snapshot row of every transaction is persisted. Every
\* valid message is settled, next to rows that Postgres refuses.
ValidSettles ==
  \A o \in Offsets :
    o <= Len(log) /\ log[o] \in Valid ~> o <= Len(log) /\ Settled(o)

\* README, Dead Letter Queue: malformed JSON does not make a consumer retry
\* without end. Every message read is settled, next to undecodable ones.
DecodableSettles ==
  \A o \in Offsets :
    o <= Len(log) /\ log[o] \notin Undecodable ~> o <= Len(log) /\ Settled(o)

\* main(): offsets are committed "after processing the batch". A committed
\* message was processed: stored, dead-lettered, or its row is on the way.
CommittedIsProcessed ==
  \A o \in 1..committed : log[o] \in snapshots \/ o \in dlq \/ o \in Custody
=============================================================================
