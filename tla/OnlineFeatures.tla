---------------------------- MODULE OnlineFeatures ----------------------------
(***************************************************************************)
(* The features of one user: FeatureComputer.compute_and_store keeps a     *)
(* rolling history in Redis, derives a vector for each message and hands   *)
(* it to the snapshot writer (feature_engine/main.py); the scoring API     *)
(* reads the vector of the user through a cache with a time to live        *)
(* (serving/redis_features.py).                                            *)
(*                                                                         *)
(* How rows get to Postgres and messages are dead-lettered is in           *)
(* FeatureEngine; here a flush stores all rows or none. The topic has one  *)
(* partition, and a ratio of the vector is the counts it is made of.       *)
(***************************************************************************)
EXTENDS Integers, Sequences, FiniteSets

CONSTANTS Payloads,   \* [amount, merchant, country] of transactions
          Requests,   \* calls of get_feature_vector
          Hour, Day,  \* WINDOW_1H_SECONDS, WINDOW_24H_SECONDS
          Travel,     \* IMPOSSIBLE_TRAVEL_MAX_SECONDS
          Grace,      \* HISTORY_TTL_SECONDS - WINDOW_24H_SECONDS
          FeatureTTL, \* FEATURE_KEY_TTL_SECONDS
          CacheTTL,   \* _CACHE_TTL_SECONDS
          Ahead,      \* how far a timestamp may be ahead of the clock
          Lag,        \* the longest a reply of Redis waits to be used
          Bounds      \* bounds: those of a behaviour are one of these

ASSUME WindowAssumption ==
  /\ Hour \in Nat /\ Day \in Nat \ {0} /\ Hour < Day /\ Travel \in Nat /\ Grace \in Nat
  /\ Travel < Day /\ Ahead \in Nat /\ Ahead <= Grace /\ Lag \in Nat
  /\ FeatureTTL \in Nat \ {0} /\ CacheTTL \in Nat \ {0}
  /\ Bounds \subseteq [messages : Nat, payloads : SUBSET Payloads,
                      readers : SUBSET Requests, \* who reads the features
                      late : BOOLEAN,   \* timestamps may differ from the clock
                      clock : Nat,
                      faults : Nat]     \* crashes, lost replies, failed reads

VARIABLES
  log,       \* the topic: a producer that retries may append a message twice
  next,      \* offset of the message computed next
  committed, \* offset the consumer starts from again
  history,   \* the sorted set of the user, by timestamp
  last,      \* the last_seen hash, in a set that is empty when there is none
  forget,    \* when these two expire
  features,  \* offset whose vector the features hash holds, or 0
  expires,   \* when the features hash does
  rows,      \* vectors in the memory of the snapshot writer
  snapshots, \* vectors in feature_snapshots, by txn_id
  cache,     \* _cache of a worker: what is cached for the user, and until when
  fetch,     \* the read of each request
  now,
  \* history variables and bounds
  reached,   \* the last offset that has been computed or has failed
  added,     \* transactions whose last computation has not failed
  held,      \* when the vector of an offset was in the features hash last
  bound,
  faults

redis == <<history, last, forget, features, expires, reached, added, held>>
serving == <<cache, fetch>>
vars == <<log, next, committed, redis, rows, snapshots, serving, now, bound, faults>>

Offsets == 1..bound.messages
Amounts == {p.amount : p \in Payloads}

Fault == faults < bound.faults /\ faults' = faults + 1

Empty == [of |-> 0, until |-> 0]
Idle == [stage |-> "idle", of |-> 0, at |-> 0]

Init ==
  /\ log = <<>> /\ next = 1 /\ committed = 1
  /\ history = {} /\ last = {} /\ forget = 0
  /\ features = 0 /\ expires = 0
  /\ rows = {} /\ snapshots = {}
  /\ cache = Empty /\ fetch = [r \in Requests |-> Idle]
  /\ bound \in Bounds
  /\ now = 1 /\ reached = 0 /\ added = {} /\ held = [o \in Offsets |-> 0] /\ faults = 0

-----------------------------------------------------------------------------
(* The producer.                                                           *)

LogRest == UNCHANGED <<next, committed, redis, rows, snapshots, serving, now, bound>>

\* Timestamps may be late, and a little ahead of the clock.
Arrive(p, ts) ==
  /\ Len(log) < bound.messages /\ ts <= now + Ahead /\ (bound.late \/ ts = now)
  /\ log' = Append(log, [id |-> Len(log) + 1, ts |-> ts, amount |-> p.amount,
                         merchant |-> p.merchant, country |-> p.country])
  /\ LogRest /\ UNCHANGED faults

\* The acknowledgement is lost, and the message is sent again before the next.
SendAgain ==
  /\ log # <<>> /\ Len(log) < bound.messages /\ Fault
  /\ log' = Append(log, log[Len(log)])
  /\ LogRest

-----------------------------------------------------------------------------
(* compute_and_store.                                                      *)

\* Mutant: the range that is read has no upper end.
WindowOpen(H, t) == {e \in H : t.ts - Day < e.ts}

\* The entries of the last 24 hours. Those as old as that have been trimmed
\* before they are read.
Window(H, t) == {e \in H : t.ts - Day < e.ts /\ e.ts <= t.ts}

\* The vector of a transaction, by a history and what was seen last. The current
\* transaction counts for the velocities and merchants, not for the amounts.
Vector(H, L, t) ==
  LET day == Window(H, t)
      hour == {e \in day : e.ts >= t.ts - Hour}
      since == {IF t.ts >= l.ts THEN t.ts - l.ts ELSE 0 : l \in L}
  IN [txn_velocity_1h |-> Cardinality(hour) + 1,
      txn_velocity_24h |-> Cardinality(day) + 1,
      amounts_24h |-> [a \in Amounts |-> Cardinality({e \in day : e.amount = a})],
      distinct_merchants_1h |-> Cardinality({e.merchant : e \in hour \cup {t}}),
      distinct_merchants_24h |-> Cardinality({e.merchant : e \in day \cup {t}}),
      seconds_since_last_txn |-> since,
      impossible_travel_flag |->
        (\E l \in L : l.country # t.country) /\ (\A s \in since : s <= Travel)]

\* Mutant: the history keeps one entry per message.
MemberByOffset(t) == [ts |-> t.ts, amount |-> t.amount, merchant |-> t.merchant, of |-> next]

\* The member of the sorted set.
Member(t) == [ts |-> t.ts, amount |-> t.amount, merchant |-> t.merchant]

\* Mutant: the history gets a time to live only when it is new.
StoreExpiresOnce(t) ==
  /\ history' = {e \in history : e.ts > t.ts - Day} \cup {Member(t)}
  /\ last' = {[ts |-> t.ts, country |-> t.country]}
  /\ forget' = IF forget <= now THEN now + Day + Grace ELSE forget
  /\ features' = next /\ expires' = now + FeatureTTL
  /\ held' = IF features = 0 THEN held ELSE [held EXCEPT ![features] = now]

\* The first pipeline trims the history; the second adds the member, overwrites
\* what was seen last and the vector, and starts all times to live anew.
Store(t) ==
  /\ history' = {e \in history : e.ts > t.ts - Day} \cup {Member(t)}
  /\ last' = {[ts |-> t.ts, country |-> t.country]}
  /\ forget' = now + Day + Grace
  /\ features' = next /\ expires' = now + FeatureTTL
  /\ held' = IF features = 0 THEN held ELSE [held EXCEPT ![features] = now]

Reaches == reached' = IF next > reached THEN next ELSE reached

\* The other transactions of the messages before offset o.
Before(o) == {t \in {log[j] : j \in 1..(o - 1)} : t.id # log[o].id}

\* Those of the day before the message at offset o.
Recent(o) == {t \in Before(o) : t.ts <= log[o].ts /\ log[o].ts - t.ts < Day}

\* History: the message has been delivered before.
Again(o) == o <= reached \/ (o > 1 /\ log[o - 1].id = log[o].id)

\* History: no computation of the earlier messages it depends on has failed.
Whole(o) == /\ o > 1 => log[o - 1].id \in added
            /\ \A t \in Recent(o) : t.id \in added

\* The vector is computed and stored, and its row is enqueued.
ComputeAndStore ==
  /\ next <= Len(log)
  /\ LET t == log[next]
     IN  /\ rows' = rows \cup {[id |-> t.id, of |-> next, at |-> now, again |-> Again(next),
                                whole |-> Whole(next), vector |-> Vector(history, last, t)]}
         /\ Store(t)
         /\ added' = added \cup {t.id}
  /\ Reaches /\ next' = next + 1
  /\ UNCHANGED <<log, committed, snapshots, serving, now, bound, faults>>

\* It raises, before or after Redis has the update: the message is passed over.
ComputeFails ==
  /\ next <= Len(log) /\ Fault
  /\ \/ Store(log[next])
     \/ /\ history' = {e \in history : e.ts > log[next].ts - Day}
        /\ UNCHANGED <<last, forget, features, expires, held>>
     \/ UNCHANGED <<history, last, forget, features, expires, held>>
  /\ added' = added \ {log[next].id}
  /\ Reaches /\ next' = next + 1
  /\ UNCHANGED <<log, committed, rows, snapshots, serving, now, bound>>

-----------------------------------------------------------------------------
(* The loop of the feature engine and its snapshot writer, see FeatureEngine. *)

\* Mutant: what the consumer has been given is committed.
CommitGiven ==
  /\ committed < next /\ committed' = Len(log) + 1
  /\ UNCHANGED <<log, next, redis, rows, snapshots, serving, now, bound, faults>>

Commit ==
  /\ committed < next /\ committed' = next
  /\ UNCHANGED <<log, next, redis, rows, snapshots, serving, now, bound, faults>>

\* The rows are inserted in the order they came; a txn_id keeps its first one.
Flush ==
  /\ rows # {}
  /\ snapshots' = snapshots \cup {r \in rows : /\ \A s \in snapshots : s.id # r.id
                                               /\ \A q \in rows : q.id = r.id => r.of <= q.of}
  /\ rows' = {}
  /\ UNCHANGED <<log, next, committed, redis, serving, now, bound, faults>>

\* The process dies and is started again: rows in memory are gone, messages
\* after the committed offset are read again.
Crash ==
  /\ Fault
  /\ next' = committed /\ rows' = {}
  /\ UNCHANGED <<log, committed, redis, snapshots, serving, now, bound>>

-----------------------------------------------------------------------------
(* RedisFeatureStore.get_feature_vector.                                   *)

EngineRest == UNCHANGED <<log, next, committed, redis, rows, snapshots, now, bound>>

Cached == cache.of # 0 /\ now < cache.until

\* Mutant: a hit starts the time to live of the entry anew.
LookupRenews(r) ==
  /\ fetch[r].stage = "idle"
  /\ IF Cached THEN cache' = [cache EXCEPT !.until = now + CacheTTL] /\ UNCHANGED fetch
               ELSE fetch' = [fetch EXCEPT ![r].stage = "sent"] /\ UNCHANGED cache
  /\ EngineRest /\ UNCHANGED faults

\* A hit answers the request; otherwise the hash is asked for.
Lookup(r) ==
  /\ fetch[r].stage = "idle" /\ ~Cached
  /\ fetch' = [fetch EXCEPT ![r].stage = "sent"]
  /\ EngineRest /\ UNCHANGED <<cache, faults>>

\* Redis reads the hash, or the read fails, which is like an empty hash.
Reply(r) ==
  /\ fetch[r].stage = "sent"
  /\ \/ fetch' = [fetch EXCEPT ![r] = [stage |-> "replied", of |-> features, at |-> now]]
        /\ UNCHANGED faults
     \/ fetch' = [fetch EXCEPT ![r] = [stage |-> "replied", of |-> 0, at |-> now]]
        /\ Fault
  /\ EngineRest /\ UNCHANGED cache

\* The coroutine goes on: a vector that is not empty is cached, whatever another
\* request has cached meanwhile.
Resume(r) ==
  /\ fetch[r].stage = "replied"
  /\ cache' = IF fetch[r].of = 0 THEN cache
                                 ELSE [of |-> fetch[r].of, until |-> now + CacheTTL]
  /\ fetch' = [fetch EXCEPT ![r] = Idle]
  /\ EngineRest /\ UNCHANGED faults

-----------------------------------------------------------------------------
\* Time passes, keys expire. No reply waits longer than Lag.
Tick ==
  /\ now < bound.clock
  /\ \A r \in Requests : fetch[r].stage = "replied" => now < fetch[r].at + Lag
  /\ now' = now + 1
  /\ IF now' = forget THEN history' = {} /\ last' = {} ELSE UNCHANGED <<history, last>>
  /\ IF now' = expires /\ features # 0
       THEN features' = 0 /\ held' = [held EXCEPT ![features] = now']
       ELSE UNCHANGED <<features, held>>
  /\ UNCHANGED <<log, next, committed, forget, expires, reached, added, rows, snapshots,
                 serving, bound, faults>>

Engine == ComputeAndStore \/ ComputeFails \/ Commit \/ Flush \/ Crash

Next ==
  \/ \E p \in bound.payloads, ts \in 1..(bound.clock + Ahead) : Arrive(p, ts)
  \/ SendAgain \/ Engine
  \/ \E r \in bound.readers : Lookup(r) \/ Reply(r) \/ Resume(r)
  \/ Tick

Spec == Init /\ [][Next]_vars

-----------------------------------------------------------------------------
(* Properties.                                                             *)

Vectors ==
  [txn_velocity_1h : Nat, txn_velocity_24h : Nat, amounts_24h : [Amounts -> Nat],
   distinct_merchants_1h : Nat, distinct_merchants_24h : Nat,
   seconds_since_last_txn : SUBSET Nat, impossible_travel_flag : BOOLEAN]

\* The type invariant.
TypeOK ==
  /\ Len(log) <= bound.messages /\ committed \in 1..next /\ next \in 1..(Len(log) + 1)
  /\ \A o \in DOMAIN log : log[o].id \in 1..o
  /\ \A e \in history : \E o \in 1..reached : e.ts = log[o].ts /\ e.amount = log[o].amount
  /\ Cardinality(last) <= 1 /\ features \in 0..reached /\ reached <= Len(log)
  /\ \A r \in rows \cup snapshots : r.of \in 1..reached
  /\ \A r \in rows \cup snapshots : DOMAIN r.vector.amounts_24h = Amounts
  /\ \A r, q \in snapshots : r.id = q.id => r = q
  /\ cache.of \in 0..reached /\ \A r \in Requests : fetch[r].of \in 0..reached
  /\ faults \in 0..bound.faults

\* The entries of a window that a message ahead of it has trimmed, and those
\* that have one member for two transactions.
Trimmed(o) == {t \in Recent(o) : \E u \in Before(o) : u.ts - t.ts >= Day}
Twins(o) == {t \in Recent(o) : \E u \in Before(o) :
               u.id # t.id /\ u.ts = t.ts /\ u.amount = t.amount /\ u.merchant = t.merchant}

\* The row was computed so soon after its timestamp that nothing of its window
\* can have expired: Redis counts the time to live by the clock of Redis, the
\* window goes by the timestamps of transactions.
Timely(r) == r.at + Ahead <= log[r.of].ts + Grace

\* What the vector of offset o should be, by all transactions before it.
Reference(o) ==
  LET t == log[o]
      hour == {u \in Recent(o) : t.ts - u.ts <= Hour}
      gap == IF o = 1 \/ t.ts < log[o - 1].ts THEN 0 ELSE t.ts - log[o - 1].ts
  IN [txn_velocity_1h |-> 1 + Cardinality(hour),
      txn_velocity_24h |-> 1 + Cardinality(Recent(o)),
      amounts_24h |-> [a \in Amounts |-> Cardinality({u \in Recent(o) : u.amount = a})],
      distinct_merchants_1h |-> Cardinality({u.merchant : u \in hour} \cup {t.merchant}),
      distinct_merchants_24h |-> Cardinality({u.merchant : u \in Recent(o)} \cup {t.merchant}),
      seconds_since_last_txn |-> IF o = 1 THEN {} ELSE {gap},
      impossible_travel_flag |-> o > 1 /\ log[o - 1].country # t.country /\ gap <= Travel]

\* The time since the last transaction may be unknown when it is more than a day.
Agrees(v, w) ==
  /\ [v EXCEPT !.seconds_since_last_txn = {}] = [w EXCEPT !.seconds_since_last_txn = {}]
  /\ \/ v.seconds_since_last_txn = w.seconds_since_last_txn
     \/ v.seconds_since_last_txn = {} /\ \A s \in w.seconds_since_last_txn : s >= Day

\* The features training reads are exact: crashes, redelivery of the messages
\* before, late and early timestamps and keys that expire do not change the
\* vector of a message delivered once and in time, but where a message ahead has
\* trimmed its window or two of its transactions have one member
\* (compute_and_store).
SnapshotsExact ==
  \A r \in rows \cup snapshots :
    ~r.again /\ r.whole /\ Timely(r) /\ Trimmed(r.of) = {} /\ Twins(r.of) = {} =>
      Agrees(r.vector, Reference(r.of))

\* Whatever is delivered again, in whatever order timestamps come, no transaction
\* is counted twice but the current one when it is itself delivered again, and none
\* that is outside the window (compute_and_store).
CountsOthersOnce ==
  \A r \in rows \cup snapshots :
    LET t == log[r.of]
        others == {u \in {log[o] : o \in DOMAIN log} :
                     u.id # t.id /\ u.ts <= t.ts /\ t.ts - u.ts < Day}
    IN  r.vector.txn_velocity_24h <= Cardinality(others) + IF r.again THEN 2 ELSE 1

\* What the cache answers with was the user's vector in Redis less than CacheTTL
\* and Lag ago, also when a slow read overwrites what a fast one has cached
\* (get_feature_vector).
StaleAtMost ==
  Cached => cache.of = features \/ now < held[cache.of] + CacheTTL + Lag

-----------------------------------------------------------------------------
(* What the repository says and the code does not do.                      *)

\* FeatureComputer: the member has a "txn_id prefix [that] guarantees uniqueness
\* even if amount/merchant repeat".
TwinsCounted ==
  \A r \in rows \cup snapshots :
    ~r.again /\ r.whole /\ Timely(r) /\ Trimmed(r.of) = {} => Agrees(r.vector, Reference(r.of))
=============================================================================
