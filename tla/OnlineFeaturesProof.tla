-------------------------- MODULE OnlineFeaturesProof --------------------------
(***************************************************************************)
(* Theorems about OnlineFeatures: its types, how stale a cached vector can *)
(* be, what a velocity counts, and that the vectors training reads are the *)
(* ones of the transactions before them. All are for topics of any length, *)
(* any timestamps within Ahead of the clock, any windows and times to live.*)
(***************************************************************************)
EXTENDS OnlineFeatures, FiniteSetTheorems, SequenceTheorems, TLAPS

Merchants == {p.merchant : p \in Payloads}
Countries == {p.country : p \in Payloads}
Messages == [id : Nat, ts : Nat, amount : Amounts, merchant : Merchants, country : Countries]

\* The topic: a message is written again only next to itself, so that its id is
\* the offset it was first written at and ids never fall.
LogOK ==
  /\ bound \in Bounds /\ now \in Nat /\ faults \in 0..bound.faults
  /\ log \in Seq(Messages) /\ Len(log) <= bound.messages
  /\ \A o \in 1..Len(log) : /\ log[o].id \in 1..o /\ log[log[o].id] = log[o]
                            /\ log[o].ts <= now + Ahead
  /\ \A i, j \in 1..Len(log) : i <= j => log[i].id <= log[j].id

\* The engine has reached what is before the next offset.
PlaceOK ==
  /\ committed \in 1..next /\ next \in 1..(Len(log) + 1)
  /\ reached \in 0..Len(log) /\ next <= reached + 1

\* Redis knows what has been reached.
RedisOK ==
  /\ \A e \in history : \E o \in 1..reached : e = Member(log[o])
  /\ \A l \in last : \E o \in 1..reached : l = [ts |-> log[o].ts, country |-> log[o].country]
  /\ Cardinality(last) <= 1
  /\ added \subseteq {log[o].id : o \in 1..reached}
  /\ features \in 0..reached
  /\ forget \in Nat /\ expires \in Nat
  /\ held \in [Offsets -> Nat] /\ \A o \in Offsets : held[o] <= now

\* Rows are those of messages that have been reached, one for each.
RowsOK ==
  /\ \A r \in rows : r.of < next
  /\ \A r \in rows \cup snapshots :
       /\ r.of \in 1..reached /\ r.id = log[r.of].id
       /\ DOMAIN r.vector.amounts_24h = Amounts
  /\ \A r, q \in rows : r.of = q.of => r = q
  /\ \A r, q \in snapshots : r.id = q.id => r = q

\* No request reads more than it has been computed.
Stages == {"idle", "sent", "replied"}
ReadsOK ==
  /\ cache \in [of : 0..reached, until : Nat]
  /\ fetch \in [Requests -> [stage : Stages, of : 0..reached, at : Nat]]

TypeInv == LogOK /\ PlaceOK /\ RedisOK /\ RowsOK /\ ReadsOK

-----------------------------------------------------------------------------
\* The bounds of a behaviour.
LEMMA BoundsType ==
  ASSUME LogOK
  PROVE  /\ bound.messages \in Nat /\ bound.faults \in Nat /\ bound.clock \in Nat
         /\ bound.payloads \subseteq Payloads /\ bound.readers \subseteq Requests
  BY WindowAssumption DEF LogOK

LEMMA InitTypes == Init => TypeInv
<1> SUFFICES ASSUME Init PROVE TypeInv
  OBVIOUS
<1>1. log = <<>> /\ Len(log) = 0
  BY DEF Init
<1>2. LogOK
  <2>1. bound.messages \in Nat /\ bound.faults \in Nat
    BY WindowAssumption DEF Init
  <2> QED
    BY <1>1, <2>1 DEF Init, LogOK
<1>3. PlaceOK
  BY <1>1 DEF Init, PlaceOK
<1>4. RedisOK
  BY FS_EmptySet DEF Init, RedisOK
<1>5. RowsOK
  BY DEF Init, RowsOK
<1>6. ReadsOK
  BY DEF Init, ReadsOK, Empty, Idle, Stages
<1> QED
  BY <1>2, <1>3, <1>4, <1>5, <1>6 DEF TypeInv

-----------------------------------------------------------------------------
(* Types: the topic.                                                       *)

\* What a longer topic leaves as it was.
LogGrows ==
  /\ Len(log') \in Nat /\ Len(log) <= Len(log')
  /\ \A o \in 1..Len(log) : log'[o] = log[o]

\* A message is written, for the first time or again.
LEMMA LogStep ==
  ASSUME TypeInv,
         \/ \E p \in bound.payloads, ts \in 1..(bound.clock + Ahead) : Arrive(p, ts)
         \/ SendAgain
  PROVE  /\ LogOK' /\ LogGrows
         /\ UNCHANGED <<next, committed, redis, rows, snapshots, serving, now, bound>>
<1>0. /\ bound.messages \in Nat /\ bound.faults \in Nat /\ bound.clock \in Nat
      /\ bound.payloads \subseteq Payloads /\ Len(log) \in Nat /\ log \in Seq(Messages)
  BY BoundsType DEF TypeInv, LogOK
<1>1. UNCHANGED <<next, committed, redis, rows, snapshots, serving, now, bound>>
  BY DEF Arrive, SendAgain, LogRest
<1>2. PICK m \in Messages :
        /\ log' = Append(log, m) /\ Len(log) < bound.messages
        /\ m.ts <= now + Ahead
        /\ m.id = Len(log) + 1 \/ (Len(log) > 0 /\ m = log[Len(log)])
  <2>1. ASSUME NEW p \in bound.payloads, NEW ts \in 1..(bound.clock + Ahead), Arrive(p, ts)
        PROVE  \E m \in Messages :
                 /\ log' = Append(log, m) /\ Len(log) < bound.messages
                 /\ m.ts <= now + Ahead /\ m.id = Len(log) + 1
    <3> DEFINE m == [id |-> Len(log) + 1, ts |-> ts, amount |-> p.amount,
                     merchant |-> p.merchant, country |-> p.country]
    <3>1. ts \in Nat /\ p \in Payloads
      BY <1>0, WindowAssumption
    <3>2. m \in Messages
      BY <1>0, <3>1 DEF Messages, Amounts, Merchants, Countries
    <3> QED
      BY <2>1, <3>2 DEF Arrive
  <2>2. CASE SendAgain
    <3>1. Len(log) > 0
      BY <1>0, <2>2, EmptySeq, LenProperties DEF SendAgain
    <3>2. log[Len(log)] \in Messages /\ log[Len(log)].ts <= now + Ahead
      BY <1>0, <3>1, ElementOfSeq DEF TypeInv, LogOK
    <3> QED
      BY <2>2, <3>1, <3>2 DEF SendAgain
  <2> QED
    BY <2>1, <2>2
<1>3. /\ log' \in Seq(Messages) /\ Len(log') = Len(log) + 1
      /\ \A o \in 1..Len(log) : log'[o] = log[o]
      /\ log'[Len(log) + 1] = m
  BY <1>0, <1>2, AppendProperties
<1>4. faults' \in 0..bound.faults
  <2>1. faults' = faults \/ Fault
    BY DEF Arrive, SendAgain
  <2> QED
    BY <1>0, <2>1 DEF Fault, TypeInv, LogOK
<1>5. m.id \in 1..(Len(log) + 1) /\ log'[m.id] = m
      /\ \A i \in 1..Len(log) : log[i].id <= m.id
  BY <1>0, <1>2, <1>3 DEF TypeInv, LogOK
<1>6. \A o \in 1..Len(log') : /\ log'[o].id \in 1..o /\ log'[log'[o].id] = log'[o]
                              /\ log'[o].ts <= now + Ahead
  <2> SUFFICES ASSUME NEW o \in 1..Len(log')
               PROVE  /\ log'[o].id \in 1..o /\ log'[log'[o].id] = log'[o]
                      /\ log'[o].ts <= now + Ahead
    OBVIOUS
  <2>1. CASE o \in 1..Len(log)
    <3>1. log[o].id \in 1..o /\ log[log[o].id] = log[o] /\ log[o].ts <= now + Ahead
      BY <2>1 DEF TypeInv, LogOK
    <3>2. log[o].id \in 1..Len(log)
      BY <1>0, <2>1, <3>1
    <3> QED
      BY <1>3, <2>1, <3>1, <3>2
  <2>2. CASE o = Len(log) + 1
    BY <1>2, <1>3, <1>5, <2>2
  <2> QED
    BY <1>0, <1>3, <2>1, <2>2
<1>7. \A i, j \in 1..Len(log') : i <= j => log'[i].id <= log'[j].id
  <2> SUFFICES ASSUME NEW i \in 1..Len(log'), NEW j \in 1..Len(log'), i <= j
               PROVE  log'[i].id <= log'[j].id
    OBVIOUS
  <2>1. CASE j \in 1..Len(log)
    <3>1. i \in 1..Len(log)
      BY <1>0, <2>1
    <3> QED
      BY <1>3, <2>1, <3>1 DEF TypeInv, LogOK
  <2>2. CASE j = Len(log) + 1
    BY <1>0, <1>3, <1>5, <2>2
  <2> QED
    BY <1>0, <1>3, <2>1, <2>2
<1>8. LogOK'
  BY <1>0, <1>1, <1>2, <1>3, <1>4, <1>6, <1>7 DEF TypeInv, LogOK
<1>9. LogGrows
  BY <1>0, <1>3 DEF LogGrows
<1> QED
  BY <1>1, <1>8, <1>9

\* The rest does not notice that the topic is longer.
LEMMA LogStepTypes ==
  ASSUME TypeInv, LogOK', LogGrows,
         UNCHANGED <<next, committed, redis, rows, snapshots, serving, now, bound>>
  PROVE  TypeInv'
<1>0. Len(log) \in Nat /\ reached \in 0..Len(log) /\ reached' = reached
  BY DEF TypeInv, LogOK, PlaceOK, redis
<1>1. \A o \in 1..reached : log'[o] = log[o]
  BY <1>0 DEF LogGrows
<1>2. PlaceOK'
  BY <1>0 DEF TypeInv, PlaceOK, LogGrows
<1>3. RedisOK'
  BY <1>0, <1>1 DEF TypeInv, RedisOK, redis, Member, Offsets
<1>4. RowsOK'
  BY <1>0, <1>1 DEF TypeInv, RowsOK
<1>5. ReadsOK'
  BY <1>0 DEF TypeInv, ReadsOK, serving
<1> QED
  BY <1>2, <1>3, <1>4, <1>5 DEF TypeInv

-----------------------------------------------------------------------------
(* Types: the engine.                                                      *)

\* The message that is computed next.
LEMMA NextMessage ==
  ASSUME TypeInv, next <= Len(log)
  PROVE  /\ next \in 1..Len(log) /\ next \in Offsets /\ log[next] \in Messages
         /\ next \in Nat /\ reached \in Nat /\ Len(log) \in Nat
         /\ log[next].ts \in Nat /\ log[next].id \in 1..next /\ log[next].ts <= now + Ahead
<1>1. bound.messages \in Nat
  BY BoundsType DEF TypeInv
<1>2. next \in 1..Len(log) /\ Len(log) \in Nat /\ log \in Seq(Messages)
  BY DEF TypeInv, LogOK, PlaceOK
<1>3. log[next] \in Messages
  BY <1>2, ElementOfSeq
<1> QED
  BY <1>1, <1>2, <1>3 DEF TypeInv, LogOK, PlaceOK, Offsets, Messages

\* How far the engine is when a computation ends.
LEMMA ReachesNext ==
  ASSUME TypeInv, next <= Len(log), Reaches, next' = next + 1,
         UNCHANGED <<log, committed>>
  PROVE  PlaceOK' /\ reached <= reached' /\ reached' \in Nat /\ next \in 1..reached'
         /\ \A o \in 1..reached : o \in 1..reached'
  BY NextMessage DEF TypeInv, PlaceOK, Reaches

\* What the pipelines of one computation leave in Redis.
StoreKinds ==
  \/ Store(log[next])
  \/ /\ history' = {e \in history : e.ts > log[next].ts - Day}
     /\ UNCHANGED <<last, forget, features, expires, held>>
  \/ UNCHANGED <<history, last, forget, features, expires, held>>

LEMMA StoreTypes ==
  ASSUME TypeInv, next <= Len(log), Reaches, next' = next + 1, StoreKinds,
         added' \subseteq added \cup {log[next].id},
         UNCHANGED <<log, committed, now, bound>>
  PROVE  RedisOK'
<1> USE NextMessage, ReachesNext
<1>1. added' \subseteq {log[o].id : o \in 1..reached'}
  BY DEF TypeInv, RedisOK
<1>2. CASE Store(log[next])
  <2>1. \A e \in history' : \E o \in 1..reached' : e = Member(log[o])
    BY <1>2 DEF Store, TypeInv, RedisOK
  <2>2. last' = {[ts |-> log[next].ts, country |-> log[next].country]}
    BY <1>2 DEF Store
  <2>3. Cardinality(last') = 1
    BY <2>2, FS_Singleton
  <2>4. forget' \in Nat /\ expires' \in Nat /\ features' \in 0..reached'
    <3>1. now \in Nat
      BY DEF TypeInv, LogOK
    <3>2. forget' \in Nat /\ expires' \in Nat
      BY <1>2, <3>1, WindowAssumption DEF Store
    <3>3. features' = next
      BY <1>2 DEF Store
    <3> QED
      BY <3>2, <3>3
  <2>5. held' \in [Offsets -> Nat] /\ \A o \in Offsets : held'[o] <= now
    <3>1. held \in [Offsets -> Nat] /\ now \in Nat /\ \A o \in Offsets : held[o] <= now
      BY DEF TypeInv, RedisOK, LogOK
    <3>2. held' = held \/ held' = [held EXCEPT ![features] = now]
      BY <1>2 DEF Store
    <3> QED
      BY <3>1, <3>2
  <2> QED
    BY <1>1, <2>1, <2>2, <2>3, <2>4, <2>5 DEF RedisOK, Member, Offsets
<1>3. CASE /\ history' \subseteq history
           /\ UNCHANGED <<last, forget, features, expires, held>>
  <2>1. features' \in 0..reached'
    BY <1>3 DEF TypeInv, RedisOK
  <2>2. \A e \in history' : \E o \in 1..reached' : e = Member(log[o])
    BY <1>3 DEF TypeInv, RedisOK
  <2>3. \A l \in last' : \E o \in 1..reached' :
                           l = [ts |-> log[o].ts, country |-> log[o].country]
    BY <1>3 DEF TypeInv, RedisOK
  <2> QED
    BY <1>1, <1>3, <2>1, <2>2, <2>3 DEF TypeInv, RedisOK, Member, Offsets
<1>4. StoreKinds => Store(log[next]) \/ (/\ history' \subseteq history
                                        /\ UNCHANGED <<last, forget, features, expires, held>>)
  BY DEF StoreKinds
<1> QED
  BY <1>2, <1>3, <1>4

LEMMA ComputeTypes == ASSUME TypeInv, ComputeAndStore PROVE TypeInv'
<1>1. /\ next <= Len(log) /\ Reaches /\ next' = next + 1 /\ Store(log[next])
      /\ added' = added \cup {log[next].id}
      /\ UNCHANGED <<log, committed, snapshots, serving, now, bound, faults>>
  BY DEF ComputeAndStore
<1>2. PlaceOK' /\ RedisOK'
  BY <1>1, ReachesNext, StoreTypes DEF StoreKinds
<1>3. PICK r : /\ rows' = rows \cup {r} /\ r.id = log[next].id /\ r.of = next
               /\ DOMAIN r.vector.amounts_24h = Amounts
  <2> DEFINE r == [id |-> log[next].id, of |-> next, at |-> now, again |-> Again(next),
                   whole |-> Whole(next), vector |-> Vector(history, last, log[next])]
  <2>1. rows' = rows \cup {r}
    BY DEF ComputeAndStore
  <2>2. DOMAIN Vector(history, last, log[next]).amounts_24h = Amounts
    BY DEF Vector
  <2>3. r.id = log[next].id /\ r.of = next /\ DOMAIN r.vector.amounts_24h = Amounts
    BY <2>2
  <2> HIDE DEF r
  <2> QED
    BY <2>1, <2>3
<1>4. RowsOK'
  <2>1. \A q \in rows : q.of # next /\ q.of < next + 1
    BY <1>1, NextMessage DEF TypeInv, RowsOK
  <2>2. \A q \in rows \cup snapshots : q.of \in 1..reached'
    BY <1>1, ReachesNext DEF TypeInv, RowsOK
  <2>3. r.of < next + 1 /\ r.of \in 1..reached'
    BY <1>1, <1>3, ReachesNext, NextMessage
  <2> QED
    BY <1>1, <1>3, <2>1, <2>2, <2>3 DEF TypeInv, RowsOK
<1>5. ReadsOK'
  BY <1>1, ReachesNext, NextMessage DEF TypeInv, ReadsOK, serving
<1> QED
  BY <1>1, <1>2, <1>4, <1>5 DEF TypeInv, LogOK

LEMMA FailTypes == ASSUME TypeInv, ComputeFails PROVE TypeInv'
<1>1. /\ next <= Len(log) /\ Reaches /\ next' = next + 1 /\ StoreKinds /\ Fault
      /\ added' \subseteq added
      /\ UNCHANGED <<log, committed, rows, snapshots, serving, now, bound>>
  BY DEF ComputeFails, StoreKinds
<1>2. PlaceOK' /\ RedisOK'
  BY <1>1, ReachesNext, StoreTypes
<1>3. RowsOK'
  <2>1. \A q \in rows : q.of < next + 1
    BY <1>1, NextMessage DEF TypeInv, RowsOK
  <2>2. \A q \in rows \cup snapshots : q.of \in 1..reached'
    BY <1>1, ReachesNext DEF TypeInv, RowsOK
  <2> QED
    BY <1>1, <2>1, <2>2 DEF TypeInv, RowsOK
<1>4. ReadsOK'
  BY <1>1, ReachesNext, NextMessage DEF TypeInv, ReadsOK, serving
<1>5. faults' \in 0..bound.faults
  BY <1>1, BoundsType DEF Fault, TypeInv, LogOK
<1> QED
  BY <1>1, <1>2, <1>3, <1>4, <1>5 DEF TypeInv, LogOK

\* Whoever leaves Redis alone.
LEMMA RedisKept ==
  ASSUME TypeInv, UNCHANGED <<redis, log, now, bound>>
  PROVE  RedisOK' /\ reached' = reached
  BY DEF TypeInv, RedisOK, redis, Member, Offsets

\* Offsets are committed, rows flushed, the process dies.
LEMMA CommitTypes == ASSUME TypeInv, Commit PROVE TypeInv'
<1>1. /\ committed' = next
      /\ UNCHANGED <<log, next, redis, rows, snapshots, serving, now, bound, faults>>
  BY DEF Commit
<1>2. reached' = reached /\ RedisOK'
  BY <1>1, RedisKept
<1>3. LogOK'
  BY <1>1 DEF TypeInv, LogOK
<1>4. PlaceOK'
  BY <1>1, <1>2 DEF TypeInv, LogOK, PlaceOK
<1>5. RowsOK'
  BY <1>1, <1>2 DEF TypeInv, RowsOK
<1>6. ReadsOK'
  BY <1>1, <1>2 DEF TypeInv, ReadsOK, serving
<1> QED
  BY <1>2, <1>3, <1>4, <1>5, <1>6 DEF TypeInv

LEMMA FlushTypes == ASSUME TypeInv, Flush PROVE TypeInv'
<1> DEFINE First == {r \in rows : /\ \A s \in snapshots : s.id # r.id
                                  /\ \A q \in rows : q.id = r.id => r.of <= q.of}
<1>1. /\ snapshots' = snapshots \cup First /\ rows' = {}
      /\ UNCHANGED <<log, next, committed, redis, serving, now, bound, faults>>
  BY DEF Flush
<1>2. \A r, q \in First : r.id = q.id => r = q
  <2> SUFFICES ASSUME NEW r \in First, NEW q \in First, r.id = q.id PROVE r = q
    OBVIOUS
  <2>1. r.of <= q.of /\ q.of <= r.of /\ r.of \in Int /\ q.of \in Int
    BY DEF TypeInv, RowsOK
  <2>2. r.of = q.of
    BY <2>1
  <2> QED
    BY <2>2 DEF TypeInv, RowsOK
<1>3. \A r \in First, s \in snapshots : r.id # s.id
  OBVIOUS
<1>4. First \subseteq rows
  OBVIOUS
<1> HIDE DEF First
<1>5. RowsOK'
  BY <1>1, <1>2, <1>3, <1>4 DEF TypeInv, RowsOK, redis
<1>6. reached' = reached /\ RedisOK'
  BY <1>1, RedisKept
<1>7. LogOK' /\ PlaceOK'
  BY <1>1, <1>6 DEF TypeInv, LogOK, PlaceOK
<1>8. ReadsOK'
  BY <1>1, <1>6 DEF TypeInv, ReadsOK, serving
<1> QED
  BY <1>5, <1>6, <1>7, <1>8 DEF TypeInv

LEMMA CrashTypes == ASSUME TypeInv, Crash PROVE TypeInv'
<1>1. /\ next' = committed /\ rows' = {} /\ Fault
      /\ UNCHANGED <<log, committed, redis, snapshots, serving, now, bound>>
  BY DEF Crash
<1>2. faults' \in 0..bound.faults
  BY <1>1, BoundsType DEF Fault, TypeInv, LogOK
<1>3. reached' = reached /\ RedisOK'
  BY <1>1, RedisKept
<1>4. LogOK'
  BY <1>1, <1>2 DEF TypeInv, LogOK
<1>5. PlaceOK'
  BY <1>1, <1>3 DEF TypeInv, LogOK, PlaceOK
<1>6. RowsOK'
  BY <1>1, <1>3 DEF TypeInv, RowsOK
<1>7. ReadsOK'
  BY <1>1, <1>3 DEF TypeInv, ReadsOK, serving
<1> QED
  BY <1>3, <1>4, <1>5, <1>6, <1>7 DEF TypeInv

-----------------------------------------------------------------------------
(* Types: the readers and the clock.                                       *)

LEMMA ReadTypes ==
  ASSUME TypeInv, NEW r \in Requests, Lookup(r) \/ Reply(r) \/ Resume(r)
  PROVE  TypeInv'
<1>1. UNCHANGED <<log, next, committed, redis, rows, snapshots, now, bound>>
  BY DEF Lookup, Reply, Resume, EngineRest
<1>2. faults' \in 0..bound.faults
  <2>1. faults' = faults \/ Fault
    BY DEF Lookup, Reply, Resume
  <2> QED
    BY <2>1, BoundsType DEF Fault, TypeInv, LogOK
<1>3. now \in Nat /\ CacheTTL \in Nat /\ now + CacheTTL \in Nat
  BY WindowAssumption DEF TypeInv, LogOK
<1>4. features \in 0..reached /\ reached \in Nat
  BY DEF TypeInv, RedisOK, PlaceOK, LogOK
<1>5. ReadsOK'
  <2>1. CASE Lookup(r)
    BY <1>1, <2>1 DEF Lookup, TypeInv, ReadsOK, redis, Stages
  <2>2. CASE Reply(r)
    <3>1. cache' = cache
      BY <2>2 DEF Reply
    <3>2. PICK o \in 0..reached :
            fetch' = [fetch EXCEPT ![r] = [stage |-> "replied", of |-> o, at |-> now]]
      BY <1>4, <2>2 DEF Reply
    <3> QED
      BY <1>1, <1>3, <3>1, <3>2 DEF TypeInv, ReadsOK, redis, Stages
  <2>3. CASE Resume(r)
    <3>1. fetch[r].of \in 0..reached
      BY DEF TypeInv, ReadsOK
    <3>2. cache' \in [of : 0..reached, until : Nat]
      BY <1>3, <2>3, <3>1 DEF Resume, TypeInv, ReadsOK
    <3>3. Idle \in [stage : Stages, of : 0..reached, at : Nat]
      BY <1>4 DEF Idle, Stages
    <3> QED
      BY <1>1, <2>3, <3>2, <3>3 DEF Resume, TypeInv, ReadsOK, redis
  <2> QED
    BY <2>1, <2>2, <2>3
<1>6. LogOK' /\ PlaceOK' /\ RowsOK'
  BY <1>1, <1>2 DEF TypeInv, LogOK, PlaceOK, RowsOK, redis
<1>7. RedisOK'
  BY <1>1 DEF TypeInv, RedisOK, redis, Member, Offsets
<1> QED
  BY <1>5, <1>6, <1>7 DEF TypeInv

LEMMA TickTypes == ASSUME TypeInv, Tick PROVE TypeInv'
<1>1. /\ now' = now + 1 /\ now \in Nat /\ Ahead \in Nat
      /\ UNCHANGED <<log, next, committed, forget, expires, reached, added, rows, snapshots,
                     serving, bound, faults>>
  BY WindowAssumption DEF Tick, TypeInv, LogOK
<1>2. LogOK'
  <2>1. \A o \in 1..Len(log) : log[o].ts \in Nat
    <3>1. \A o \in 1..Len(log) : log[o] \in Messages
      BY ElementOfSeq DEF TypeInv, LogOK
    <3> QED
      BY <3>1 DEF Messages
  <2> QED
    BY <1>1, <2>1 DEF TypeInv, LogOK
<1>3. history' \subseteq history /\ (last' = last \/ last' = {})
  BY DEF Tick
<1>4. Cardinality(last') <= 1
  BY <1>3, FS_EmptySet DEF TypeInv, RedisOK
<1>5. features' \in 0..reached
  BY DEF Tick, TypeInv, RedisOK, PlaceOK, LogOK
<1>6. held' \in [Offsets -> Nat] /\ \A o \in Offsets : held'[o] <= now'
  <2>1. held \in [Offsets -> Nat] /\ \A o \in Offsets : held[o] <= now + 1
    BY <1>1 DEF TypeInv, RedisOK
  <2>2. held' = held \/ held' = [held EXCEPT ![features] = now + 1]
    BY <1>1 DEF Tick
  <2> QED
    BY <1>1, <2>1, <2>2
<1>7. RedisOK'
  BY <1>1, <1>3, <1>4, <1>5, <1>6 DEF TypeInv, RedisOK, Member, Offsets
<1> QED
  BY <1>1, <1>2, <1>7 DEF TypeInv, PlaceOK, RowsOK, ReadsOK, serving

\* A step that changes nothing.
LEMMA StutterTypes == ASSUME TypeInv, UNCHANGED vars PROVE TypeInv'
<1>1. UNCHANGED <<log, next, committed, redis, rows, snapshots, serving, now, bound, faults>>
  BY DEF vars
<1>2. reached' = reached /\ RedisOK'
  BY <1>1, RedisKept
<1>3. LogOK'
  BY <1>1 DEF TypeInv, LogOK
<1>4. PlaceOK'
  BY <1>1, <1>2 DEF TypeInv, LogOK, PlaceOK
<1>5. RowsOK'
  BY <1>1, <1>2 DEF TypeInv, RowsOK
<1>6. ReadsOK'
  BY <1>1, <1>2 DEF TypeInv, ReadsOK, serving
<1> QED
  BY <1>2, <1>3, <1>4, <1>5, <1>6 DEF TypeInv

LEMMA TypeStep == TypeInv /\ [Next]_vars => TypeInv'
<1> SUFFICES ASSUME TypeInv, [Next]_vars PROVE TypeInv'
  OBVIOUS
<1>1. CASE \/ \E p \in bound.payloads, ts \in 1..(bound.clock + Ahead) : Arrive(p, ts)
           \/ SendAgain
  BY <1>1, LogStep, LogStepTypes
<1>2. CASE \E r \in bound.readers : Lookup(r) \/ Reply(r) \/ Resume(r)
  BY <1>2, ReadTypes, BoundsType DEF TypeInv
<1> QED
  BY <1>1, <1>2, ComputeTypes, FailTypes, CommitTypes, FlushTypes, CrashTypes, TickTypes,
     StutterTypes DEF Next, Engine

LEMMA TypeInvariance == Spec => []TypeInv
  BY InitTypes, TypeStep, PTL DEF Spec

\* The types of OnlineFeatures, and: a txn_id has one row in feature_snapshots, what
\* Redis holds of a user comes from messages that have been computed, and what the
\* API caches from vectors that have been stored (compute_and_store).
THEOREM TypeCorrect == Spec => []TypeOK
<1>1. TypeInv => TypeOK
  <2> SUFFICES ASSUME TypeInv PROVE TypeOK
    OBVIOUS
  <2>1. DOMAIN log = 1..Len(log)
    BY LenProperties DEF TypeInv, LogOK
  <2>2. \A e \in history : \E o \in 1..reached : e.ts = log[o].ts /\ e.amount = log[o].amount
    BY DEF TypeInv, RedisOK, Member
  <2>3. reached <= Len(log)
    BY DEF TypeInv, PlaceOK
  <2>4. cache.of \in 0..reached /\ \A r \in Requests : fetch[r].of \in 0..reached
    BY DEF TypeInv, ReadsOK
  <2> QED
    BY <2>1, <2>2, <2>3, <2>4 DEF TypeInv, LogOK, PlaceOK, RedisOK, RowsOK, TypeOK
<1> QED
  BY <1>1, TypeInvariance, PTL

-----------------------------------------------------------------------------
(* How stale a cached vector is.                                           *)

\* A vector read at a time was in the hash then, or has been there since.
FetchFresh ==
  \A r \in Requests : fetch[r].stage = "replied" =>
    /\ fetch[r].at <= now /\ now <= fetch[r].at + Lag
    /\ fetch[r].of # 0 => fetch[r].of = features \/ fetch[r].at <= held[fetch[r].of]

\* A vector that is cached until some time was in the hash CacheTTL and Lag before.
CacheFresh ==
  cache.of # 0 =>
    /\ cache.until <= now + CacheTTL
    /\ cache.of = features \/ cache.until <= held[cache.of] + CacheTTL + Lag

FreshInv == TypeInv /\ FetchFresh /\ CacheFresh

\* Offsets that have been reached are offsets.
LEMMA ReachedOffsets ==
  ASSUME TypeInv, NEW o \in 0..reached
  PROVE  o \in Nat /\ (o # 0 => o \in Offsets)
  BY BoundsType DEF TypeInv, LogOK, PlaceOK, Offsets

\* A vector leaves the hash at a time that is kept, which only grows.
HeldStep ==
  \A o \in Offsets : /\ held'[o] \in Nat /\ held[o] \in Nat /\ held[o] <= held'[o]
                     /\ o = features => o = features' \/ now <= held'[o]

LEMMA HeldGrows == ASSUME TypeInv, [Next]_vars PROVE HeldStep
<1>1. /\ held \in [Offsets -> Nat] /\ now \in Nat /\ (\A o \in Offsets : held[o] <= now)
      /\ now <= now + 1 /\ now + 1 \in Nat
  BY DEF TypeInv, RedisOK, LogOK
<1>2. CASE UNCHANGED <<features, held>>
  BY <1>1, <1>2 DEF HeldStep
<1>3. ASSUME NEW t, Store(t) PROVE HeldStep
  <2>1. /\ features = 0 => held' = held
        /\ features # 0 => held' = [held EXCEPT ![features] = now]
    BY <1>3 DEF Store
  <2>2. \A o \in Offsets : held'[o] = IF o = features THEN now ELSE held[o]
    <3>1. 0 \notin Offsets
      BY BoundsType DEF Offsets, TypeInv
    <3> QED
      BY <1>1, <2>1, <3>1
  <2> QED
    BY <1>1, <2>2 DEF HeldStep
<1>4. CASE Tick
  <2>1. \/ UNCHANGED <<features, held>>
        \/ held' = [held EXCEPT ![features] = now + 1]
    BY <1>4 DEF Tick
  <2>2. CASE held' = [held EXCEPT ![features] = now + 1]
    <3>1. ASSUME NEW o \in Offsets
          PROVE  held'[o] = IF o = features THEN now + 1 ELSE held[o]
      BY <1>1, <2>2
    <3> QED
      BY <1>1, <3>1 DEF HeldStep
  <2> QED
    BY <1>2, <2>1, <2>2
<1>5. CASE ComputeAndStore
  BY <1>3, <1>5 DEF ComputeAndStore
<1>6. CASE ComputeFails
  BY <1>2, <1>3, <1>6 DEF ComputeFails
<1>7. CASE \/ \E p \in bound.payloads, ts \in 1..(bound.clock + Ahead) : Arrive(p, ts)
           \/ SendAgain
  BY <1>2, <1>7, LogStep DEF redis
<1>8. CASE Commit \/ Flush \/ Crash
  BY <1>2, <1>8 DEF Commit, Flush, Crash, redis
<1>9. CASE \E r \in bound.readers : Lookup(r) \/ Reply(r) \/ Resume(r)
  BY <1>2, <1>9 DEF Lookup, Reply, Resume, EngineRest, redis
<1>10. CASE UNCHANGED vars
  BY <1>2, <1>10 DEF vars, redis
<1> QED
  BY <1>4, <1>5, <1>6, <1>7, <1>8, <1>9, <1>10 DEF Next, Engine

\* Whatever happens to the hash, what has been read or cached stays as fresh as it was.
LEMMA SeenStays ==
  ASSUME TypeInv, HeldStep, NEW o \in 0..reached, o # 0, NEW t \in Nat, t <= now,
         o = features \/ t <= held[o]
  PROVE  o = features' \/ t <= held'[o]
<1>1. o \in Offsets /\ now \in Nat
  BY ReachedOffsets DEF TypeInv, LogOK
<1> QED
  BY <1>1 DEF HeldStep

LEMMA CachedStays ==
  ASSUME FreshInv, HeldStep, now' \in Nat, now <= now', cache' = cache
  PROVE  CacheFresh'
<1> SUFFICES ASSUME cache.of # 0
             PROVE  /\ cache.until <= now' + CacheTTL
                    /\ \/ cache.of = features'
                       \/ cache.until <= held'[cache.of] + CacheTTL + Lag
  BY DEF CacheFresh
<1>1. cache.until \in Nat /\ now \in Nat /\ CacheTTL \in Nat /\ Lag \in Nat
      /\ cache.of \in 0..reached
  BY WindowAssumption DEF FreshInv, TypeInv, ReadsOK, LogOK
<1>2. cache.of \in Offsets
  BY <1>1, ReachedOffsets DEF FreshInv
<1>3. /\ cache.until <= now + CacheTTL
      /\ cache.of = features \/ cache.until <= held[cache.of] + CacheTTL + Lag
  BY DEF FreshInv, CacheFresh
<1>4. /\ held'[cache.of] \in Nat /\ held[cache.of] \in Nat /\ held[cache.of] <= held'[cache.of]
      /\ cache.of = features => cache.of = features' \/ now <= held'[cache.of]
  BY <1>2 DEF HeldStep
<1> QED
  BY <1>1, <1>3, <1>4

LEMMA FetchStays ==
  ASSUME FreshInv, HeldStep, NEW r \in Requests, fetch[r].stage = "replied", fetch[r].of # 0
  PROVE  fetch[r].of = features' \/ fetch[r].at <= held'[fetch[r].of]
<1>1. fetch[r].of \in 0..reached /\ fetch[r].at \in Nat
  BY DEF FreshInv, TypeInv, ReadsOK
<1>2. /\ fetch[r].at <= now
      /\ fetch[r].of = features \/ fetch[r].at <= held[fetch[r].of]
  BY DEF FreshInv, FetchFresh
<1> QED
  BY <1>1, <1>2, SeenStays DEF FreshInv

\* A request reads the cache or the hash, or goes on with what it has read.
LEMMA ReadFresh ==
  ASSUME FreshInv, TypeInv', HeldStep, NEW r \in Requests, Lookup(r) \/ Reply(r) \/ Resume(r)
  PROVE  FetchFresh' /\ CacheFresh'
<1>1. UNCHANGED <<features, held, now>>
  BY DEF Lookup, Reply, Resume, EngineRest, redis
<1>2. now \in Nat /\ Lag \in Nat /\ CacheTTL \in Nat
  BY WindowAssumption DEF FreshInv, TypeInv, LogOK
<1>3. \A q \in Requests \ {r} : fetch'[q] = fetch[q]
  BY DEF Lookup, Reply, Resume, FreshInv, TypeInv, ReadsOK
<1>4. fetch'[r].stage = "replied" =>
        /\ fetch'[r].at = now /\ (fetch'[r].of # 0 => fetch'[r].of = features)
  BY DEF Lookup, Reply, Resume, FreshInv, TypeInv, ReadsOK, Idle
<1>5. FetchFresh'
  BY <1>1, <1>2, <1>3, <1>4 DEF FreshInv, FetchFresh
<1>6. CASE cache' = cache
  BY <1>1, <1>2, <1>5, <1>6, CachedStays
<1>7. CASE cache' # cache
  <2>1. /\ fetch[r].stage = "replied" /\ fetch[r].of # 0
        /\ cache' = [of |-> fetch[r].of, until |-> now + CacheTTL]
    BY <1>7 DEF Lookup, Reply, Resume
  <2>2. /\ fetch[r].at <= now /\ now <= fetch[r].at + Lag
        /\ fetch[r].of = features \/ fetch[r].at <= held[fetch[r].of]
    BY <2>1 DEF FreshInv, FetchFresh
  <2>3. fetch[r].at \in Nat /\ fetch[r].of \in 0..reached
    BY DEF FreshInv, TypeInv, ReadsOK
  <2>4. held[fetch[r].of] \in Nat
    BY <2>1, <2>3, ReachedOffsets DEF HeldStep, FreshInv
  <2>5. cache'.of = fetch[r].of /\ cache'.until = now + CacheTTL
    BY <2>1
  <2> QED
    BY <1>1, <1>2, <1>5, <2>2, <2>3, <2>4, <2>5 DEF CacheFresh
<1> QED
  BY <1>5, <1>6, <1>7

LEMMA TickFresh ==
  ASSUME FreshInv, TypeInv', HeldStep, Tick
  PROVE  FetchFresh' /\ CacheFresh'
<1>1. /\ now' = now + 1 /\ now \in Nat /\ UNCHANGED <<cache, fetch>> /\ Lag \in Nat
      /\ \A r \in Requests : fetch[r].stage = "replied" => now < fetch[r].at + Lag
  BY WindowAssumption DEF Tick, serving, FreshInv, TypeInv, LogOK
<1>2. \A r \in Requests : fetch[r].at \in Nat
  BY DEF FreshInv, TypeInv, ReadsOK
<1>3. FetchFresh'
  <2> SUFFICES ASSUME NEW r \in Requests, fetch[r].stage = "replied"
               PROVE  /\ fetch[r].at <= now' /\ now' <= fetch[r].at + Lag
                      /\ fetch[r].of # 0 =>
                           fetch[r].of = features' \/ fetch[r].at <= held'[fetch[r].of]
    BY <1>1 DEF FetchFresh
  <2>1. fetch[r].at <= now
    BY DEF FreshInv, FetchFresh
  <2> QED
    BY <1>1, <1>2, <2>1, FetchStays
<1> QED
  BY <1>1, <1>3, CachedStays

\* All others leave the cache and the requests alone.
LEMMA OthersFresh ==
  ASSUME FreshInv, HeldStep, UNCHANGED <<cache, fetch, now>>
  PROVE  FetchFresh' /\ CacheFresh'
<1>1. FetchFresh'
  BY FetchStays DEF FreshInv, FetchFresh
<1>2. now \in Nat
  BY DEF FreshInv, TypeInv, LogOK
<1> QED
  BY <1>1, <1>2, CachedStays

LEMMA FreshStep == FreshInv /\ [Next]_vars => FreshInv'
<1> SUFFICES ASSUME FreshInv, [Next]_vars PROVE FreshInv'
  OBVIOUS
<1>1. TypeInv' /\ HeldStep
  BY TypeStep, HeldGrows DEF FreshInv
<1>2. CASE \E r \in bound.readers : Lookup(r) \/ Reply(r) \/ Resume(r)
  BY <1>1, <1>2, ReadFresh, BoundsType DEF FreshInv, TypeInv
<1>3. CASE Tick
  BY <1>1, <1>3, TickFresh DEF FreshInv
<1>4. CASE \/ \E p \in bound.payloads, ts \in 1..(bound.clock + Ahead) : Arrive(p, ts)
           \/ SendAgain
  BY <1>1, <1>4, LogStep, OthersFresh DEF FreshInv, serving
<1>5. CASE Engine
  BY <1>1, <1>5, OthersFresh DEF Engine, ComputeAndStore, ComputeFails, Commit, Flush, Crash,
     FreshInv, serving
<1>6. CASE UNCHANGED vars
  BY <1>1, <1>6, OthersFresh DEF vars, FreshInv, serving
<1> QED
  BY <1>2, <1>3, <1>4, <1>5, <1>6 DEF Next

LEMMA InitFresh == Init => FreshInv
<1> SUFFICES ASSUME Init PROVE FreshInv
  OBVIOUS
<1>1. TypeInv
  BY InitTypes
<1>2. cache.of = 0 /\ \A r \in Requests : fetch[r].stage = "idle"
  BY DEF Init, Empty, Idle
<1> QED
  BY <1>1, <1>2 DEF FreshInv, FetchFresh, CacheFresh

\* What the cache answers with was the user's vector less than CacheTTL and Lag ago,
\* for any number of requests whose reads overtake each other and overwrite what
\* others have cached (get_feature_vector).
THEOREM NeverTooStale == Spec => []StaleAtMost
<1>1. FreshInv => StaleAtMost
  <2> SUFFICES ASSUME FreshInv, Cached, cache.of # features
               PROVE  now < held[cache.of] + CacheTTL + Lag
    BY DEF StaleAtMost
  <2>1. cache.of # 0 /\ now < cache.until /\ cache.until <= held[cache.of] + CacheTTL + Lag
    BY DEF Cached, FreshInv, CacheFresh
  <2>2. cache.of \in Offsets /\ now \in Nat /\ cache.until \in Nat
    BY <2>1, ReachedOffsets DEF FreshInv, TypeInv, ReadsOK, LogOK
  <2>3. held[cache.of] \in Nat
    BY <2>2 DEF FreshInv, TypeInv, RedisOK
  <2> QED
    BY <2>1, <2>2, <2>3, WindowAssumption
<1> QED
  BY <1>1, InitFresh, FreshStep, PTL DEF Spec

-----------------------------------------------------------------------------
(* Rows: how they come and what they are about.                            *)

\* The row of the message computed next.
NewRow == [id |-> log[next].id, of |-> next, at |-> now, again |-> Again(next),
           whole |-> Whole(next), vector |-> Vector(history, last, log[next])]

\* A row is new, or was there before.
LEMMA RowsFrom ==
  ASSUME TypeInv, [Next]_vars
  PROVE  \/ rows' \cup snapshots' \subseteq rows \cup snapshots
         \/ /\ ComputeAndStore /\ log' = log
            /\ rows' \cup snapshots' \subseteq rows \cup snapshots \cup {NewRow}
<1>1. CASE \/ \E p \in bound.payloads, ts \in 1..(bound.clock + Ahead) : Arrive(p, ts)
           \/ SendAgain
  BY <1>1, LogStep
<1>2. CASE ComputeAndStore
  BY <1>2 DEF ComputeAndStore, NewRow
<1>3. CASE ComputeFails \/ Commit \/ Flush \/ Crash \/ Tick
  BY <1>3 DEF ComputeFails, Commit, Flush, Crash, Tick
<1>4. CASE \E r \in bound.readers : Lookup(r) \/ Reply(r) \/ Resume(r)
  BY <1>4 DEF Lookup, Reply, Resume, EngineRest
<1>5. CASE UNCHANGED vars
  BY <1>5 DEF vars
<1> QED
  BY <1>1, <1>2, <1>3, <1>4, <1>5 DEF Next, Engine

\* The topic only gets longer.
LEMMA TopicGrows == ASSUME TypeInv, [Next]_vars PROVE LogGrows
<1>1. Len(log) \in Nat
  BY DEF TypeInv, LogOK
<1>2. CASE log' = log
  BY <1>1, <1>2 DEF LogGrows
<1>3. CASE \/ \E p \in bound.payloads, ts \in 1..(bound.clock + Ahead) : Arrive(p, ts)
           \/ SendAgain
  BY <1>3, LogStep
<1>4. CASE \/ Engine \/ Tick
           \/ \E r \in bound.readers : Lookup(r) \/ Reply(r) \/ Resume(r)
  BY <1>2, <1>4 DEF Engine, ComputeAndStore, ComputeFails, Commit, Flush, Crash, Tick, Lookup,
     Reply, Resume, EngineRest
<1>5. CASE UNCHANGED vars
  BY <1>2, <1>5 DEF vars
<1> QED
  BY <1>3, <1>4, <1>5 DEF Next

\* Messages with one id are one message, whose fields are numbers where they are
\* compared.
LEMMA OneMessage ==
  ASSUME TypeInv
  PROVE  /\ \A o \in 1..Len(log) : log[o] \in Messages /\ log[o].id \in Nat /\ log[o].ts \in Nat
         /\ \A i, j \in 1..Len(log) : log[i].id = log[j].id => log[i] = log[j]
         /\ Len(log) \in Nat /\ DOMAIN log = 1..Len(log) /\ reached \in 0..Len(log)
<1>1. \A o \in 1..Len(log) : log[o] \in Messages
  BY ElementOfSeq DEF TypeInv, LogOK
<1>2. \A i, j \in 1..Len(log) : log[i].id = log[j].id => log[i] = log[j]
  <2> SUFFICES ASSUME NEW i \in 1..Len(log), NEW j \in 1..Len(log), log[i].id = log[j].id
               PROVE  log[i] = log[j]
    OBVIOUS
  <2>1. log[log[i].id] = log[i] /\ log[log[j].id] = log[j]
    BY DEF TypeInv, LogOK
  <2> QED
    BY <2>1
<1>3. Len(log) \in Nat /\ DOMAIN log = 1..Len(log) /\ reached \in 0..Len(log)
  BY LenProperties DEF TypeInv, LogOK, PlaceOK
<1> QED
  BY <1>1, <1>2, <1>3 DEF Messages

\* The messages of some offsets are finitely many.
LEMMA FiniteMessages ==
  ASSUME NEW n \in Nat, NEW f PROVE IsFiniteSet({f[o] : o \in 1..n})
<1> DEFINE g == [o \in 1..n |-> f[o]]
<1>1. g \in Surjection(1..n, {f[o] : o \in 1..n})
  BY DEF Surjection
<1>2. IsFiniteSet(1..n)
  BY FS_Interval
<1> QED
  BY <1>1, <1>2, FS_Surjection DEF ExistsSurjection

\* When a message is not delivered again, the engine has reached all offsets before
\* it, and they are of other messages.
LEMMA FirstTime ==
  ASSUME TypeInv, next <= Len(log), ~Again(next)
  PROVE  /\ reached = next - 1
         /\ \A j \in 1..reached : j \in 1..Len(log) /\ log[j].id # log[next].id
<1>1. reached = next - 1 /\ next \in 1..Len(log) /\ reached \in Nat
  BY NextMessage DEF Again, TypeInv, PlaceOK
<1> SUFFICES ASSUME NEW j \in 1..reached, log[j].id = log[next].id
             PROVE  FALSE
  BY <1>1, NextMessage
<1>2. j \in 1..Len(log) /\ next - 1 \in 1..Len(log) /\ next > 1 /\ j <= next - 1
  BY <1>1, NextMessage
<1>3. log[j].id <= log[next - 1].id /\ log[next - 1].id <= log[next].id
  BY <1>1, <1>2 DEF TypeInv, LogOK
<1>4. log[next - 1].id = log[next].id
  BY <1>1, <1>2, <1>3, OneMessage
<1> QED
  BY <1>2, <1>4 DEF Again

\* What is in the window comes from messages that have been reached.
LEMMA WindowEntries ==
  ASSUME TypeInv, next <= Len(log), NEW e \in Window(history, log[next])
  PROVE  \E j \in 1..reached : /\ j \in 1..Len(log) /\ e = Member(log[j])
                               /\ log[j].ts <= log[next].ts
                               /\ log[next].ts - log[j].ts < Day
<1>1. PICK j \in 1..reached : e = Member(log[j])
  BY DEF TypeInv, RedisOK, Window
<1>2. log[next].ts - Day < e.ts /\ e.ts <= log[next].ts
  BY DEF Window
<1>3. e.ts = log[j].ts
  BY <1>1 DEF Member
<1>4. log[j].ts \in Nat /\ log[next].ts \in Nat /\ Day \in Nat /\ j \in 1..Len(log)
  BY NextMessage, OneMessage, WindowAssumption
<1> QED
  BY <1>1, <1>2, <1>3, <1>4

-----------------------------------------------------------------------------
(* What a velocity counts.                                                 *)

\* The other transactions of the day before t.
Others(t) == {u \in {log[o] : o \in DOMAIN log} :
                u.id # t.id /\ u.ts <= t.ts /\ t.ts - u.ts < Day}

CountsOnce(r) ==
  r.vector.txn_velocity_24h <= Cardinality(Others(log[r.of])) + IF r.again THEN 2 ELSE 1

CountInv ==
  /\ TypeInv
  /\ \A r \in rows \cup snapshots : r.vector.txn_velocity_24h \in Nat /\ CountsOnce(r)

LEMMA FiniteOthers == ASSUME TypeInv, NEW t PROVE IsFiniteSet(Others(t))
<1>1. IsFiniteSet({log[o] : o \in 1..Len(log)})
  BY FiniteMessages, OneMessage
<1>2. Others(t) \subseteq {log[o] : o \in 1..Len(log)}
  BY OneMessage DEF Others
<1> QED
  BY <1>1, <1>2, FS_Subset

LEMMA FiniteOthersNext == ASSUME TypeInv', NEW t PROVE IsFiniteSet(Others(t)')
<1>1. Len(log') \in Nat /\ DOMAIN log' = 1..Len(log')
  BY LenProperties DEF TypeInv, LogOK
<1>2. IsFiniteSet({log'[o] : o \in 1..Len(log')})
  BY <1>1, FiniteMessages
<1>3. Others(t)' \subseteq {log'[o] : o \in 1..Len(log')}
  BY <1>1 DEF Others
<1> QED
  BY <1>2, <1>3, FS_Subset

\* Members of the history are not more than the messages they come from.
LEMMA MemberCount ==
  ASSUME NEW S, IsFiniteSet(S), NEW W, \A w \in W : \E u \in S : w = Member(u)
  PROVE  IsFiniteSet(W) /\ Cardinality(W) <= Cardinality(S)
<1> DEFINE A == {u \in S : Member(u) \in W}
           f == [u \in A |-> Member(u)]
<1>1. IsFiniteSet(A) /\ Cardinality(A) <= Cardinality(S)
  BY FS_Subset
<1>2. f \in Surjection(A, W)
  BY DEF Surjection
<1>3. IsFiniteSet(W) /\ Cardinality(W) <= Cardinality(A)
  BY <1>1, <1>2, FS_Surjection DEF ExistsSurjection
<1>4. Cardinality(W) \in Nat /\ Cardinality(A) \in Nat /\ Cardinality(S) \in Nat
  BY <1>1, <1>3, FS_CardinalityType
<1> QED
  BY <1>1, <1>3, <1>4

\* The window holds no more than others, and itself when it is delivered again.
LEMMA WindowCounts ==
  ASSUME TypeInv, next <= Len(log)
  PROVE  /\ Cardinality(Window(history, log[next])) \in Nat
         /\ Cardinality(Window(history, log[next]))
              <= Cardinality(Others(log[next])) + IF Again(next) THEN 1 ELSE 0
<1> DEFINE t == log[next]
           W == Window(history, t)
           V == W \ {Member(t)}
<1>1. IsFiniteSet(Others(t)) /\ Cardinality(Others(t)) \in Nat
  BY FiniteOthers, FS_CardinalityType
<1>2. \A e \in W : (\E u \in Others(t) : e = Member(u)) \/ (Again(next) /\ e = Member(t))
  <2> SUFFICES ASSUME NEW e \in W
               PROVE  (\E u \in Others(t) : e = Member(u)) \/ (Again(next) /\ e = Member(t))
    OBVIOUS
  <2>1. PICK j \in 1..reached : /\ j \in 1..Len(log) /\ e = Member(log[j])
                                /\ log[j].ts <= t.ts /\ t.ts - log[j].ts < Day
    BY WindowEntries
  <2>2. CASE log[j].id # t.id
    <3>1. log[j] \in Others(t)
      BY <2>1, <2>2, OneMessage DEF Others
    <3> QED
      BY <2>1, <3>1
  <2>3. CASE log[j].id = t.id
    <3>1. log[j] = t
      BY <2>1, <2>3, OneMessage, NextMessage
    <3>2. Again(next)
      BY <2>1, <2>3, FirstTime
    <3> QED
      BY <2>1, <3>1, <3>2
  <2> QED
    BY <2>2, <2>3
<1>3. IsFiniteSet(V) /\ Cardinality(V) <= Cardinality(Others(t))
  BY <1>1, <1>2, MemberCount
<1>4. W \subseteq V \cup {Member(t)} /\ IsFiniteSet(V \cup {Member(t)})
  BY <1>3, FS_AddElement
<1>5. IsFiniteSet(W) /\ Cardinality(W) \in Nat /\ Cardinality(V) \in Nat
  BY <1>3, <1>4, FS_Subset, FS_CardinalityType
<1>6. Cardinality(W) <= Cardinality(V) + 1
  <2> HIDE DEF W
  <2>1. Cardinality(V) = IF Member(t) \in W THEN Cardinality(W) - 1 ELSE Cardinality(W)
    BY <1>5, FS_RemoveElement
  <2> QED
    BY <1>5, <2>1
<1>7. CASE Again(next)
  BY <1>1, <1>3, <1>5, <1>6, <1>7
<1>8. CASE ~Again(next)
  <2>1. Cardinality(W) <= Cardinality(Others(t))
    BY <1>1, <1>2, <1>8, MemberCount
  <2> QED
    BY <1>1, <1>5, <1>8, <2>1
<1> QED
  BY <1>7, <1>8

\* A new row counts each other transaction once at most.
LEMMA NewCounts ==
  ASSUME TypeInv, next <= Len(log), NEW r, r = NewRow
  PROVE  r.vector.txn_velocity_24h \in Nat /\ CountsOnce(r)
<1>1. r.of = next /\ r.again = Again(next)
      /\ r.vector.txn_velocity_24h = Cardinality(Window(history, log[next])) + 1
  BY DEF NewRow, Vector
<1>2. Cardinality(Others(log[next])) \in Nat
  BY FiniteOthers, FS_CardinalityType
<1> QED
  BY <1>1, <1>2, WindowCounts DEF CountsOnce

\* An old row does so when the topic is longer.
LEMMA CountStays ==
  ASSUME CountInv, TypeInv', LogGrows, NEW r \in rows \cup snapshots
  PROVE  CountsOnce(r)'
<1>1. r.of \in 1..Len(log) /\ Len(log) \in Nat /\ DOMAIN log = 1..Len(log)
  BY OneMessage DEF CountInv, TypeInv, RowsOK
<1>2. DOMAIN log' = 1..Len(log') /\ log'[r.of] = log[r.of]
  BY <1>1, LenProperties DEF TypeInv, LogOK, LogGrows
<1> DEFINE t == log[r.of]
<1>3. Others(t) \subseteq Others(t)'
  <2> SUFFICES ASSUME NEW o \in 1..Len(log)
               PROVE  o \in 1..Len(log') /\ log'[o] = log[o]
    BY <1>1, <1>2 DEF Others
  <2> QED
    BY <1>1 DEF LogGrows
<1>4. /\ Cardinality(Others(t)) <= Cardinality(Others(log[r.of])')
      /\ Cardinality(Others(t)) \in Nat /\ Cardinality(Others(log[r.of])') \in Nat
  BY <1>2, <1>3, FiniteOthers, FiniteOthersNext, FS_Subset, FS_CardinalityType DEF CountInv
<1>5. r.vector.txn_velocity_24h <= Cardinality(Others(t)) + IF r.again THEN 2 ELSE 1
  BY DEF CountInv, CountsOnce
<1>6. r.vector.txn_velocity_24h \in Nat
  BY DEF CountInv
<1> QED
  BY <1>2, <1>4, <1>5, <1>6 DEF CountsOnce

LEMMA CountStep == CountInv /\ [Next]_vars => CountInv'
<1> SUFFICES ASSUME CountInv, [Next]_vars PROVE CountInv'
  OBVIOUS
<1>1. TypeInv' /\ LogGrows
  BY TypeStep, TopicGrows DEF CountInv
<1>2. \A r \in rows \cup snapshots : r.vector.txn_velocity_24h \in Nat /\ CountsOnce(r)'
  BY <1>1, CountStays DEF CountInv
<1>3. ASSUME ComputeAndStore, log' = log, NEW r, r = NewRow
      PROVE  r.vector.txn_velocity_24h \in Nat /\ CountsOnce(r)'
  <2>1. next <= Len(log)
    BY <1>3 DEF ComputeAndStore
  <2>2. r.vector.txn_velocity_24h \in Nat /\ CountsOnce(r)
    BY <1>3, <2>1, NewCounts DEF CountInv
  <2> QED
    BY <1>3, <2>2 DEF CountsOnce, Others
<1>4. \A r \in rows' \cup snapshots' : r.vector.txn_velocity_24h \in Nat /\ CountsOnce(r)'
  BY <1>2, <1>3, RowsFrom DEF CountInv
<1> QED
  BY <1>1, <1>4 DEF CountInv

\* No transaction is counted twice but the current one when it is itself delivered
\* again, and none outside the window, whatever is delivered again and in whatever
\* order timestamps come (compute_and_store).
THEOREM AlwaysCountsOnce == Spec => []CountsOthersOnce
<1>1. Init => CountInv
  BY InitTypes DEF Init, CountInv
<1>2. CountInv => CountsOthersOnce
  BY Zenon DEF CountInv, CountsOnce, Others, CountsOthersOnce
<1> QED
  BY <1>1, <1>2, CountStep, PTL DEF Spec

-----------------------------------------------------------------------------
(* What the history still knows.                                           *)

\* The times to live of Redis are so long that what has expired is out of the window
\* of every message that is computed in time.
Past(u) == u.ts + Day + Grace <= now + Ahead

Keeps ==
  /\ \A e \in history \cup last : e.ts + Day + Grace <= forget + Ahead
  /\ forget <= now + Day + Grace

\* A transaction whose computation has not failed is in the history, or has expired,
\* or a message at least a day ahead of it has trimmed it.
Complete ==
  \A o \in 1..reached : log[o].id \in added =>
    \/ Member(log[o]) \in history
    \/ Past(log[o])
    \/ \E j \in 1..reached : log[j].ts - log[o].ts >= Day

\* What was seen last is the message before the one that is computed for the first
\* time.
LastSeen ==
  next = reached + 1 /\ reached > 0 /\ log[reached].id \in added =>
    \/ last = {[ts |-> log[reached].ts, country |-> log[reached].country]}
    \/ last = {} /\ Past(log[reached])

HistoryInv == TypeInv /\ Keeps /\ Complete /\ LastSeen

LEMMA HistoryTypes ==
  ASSUME TypeInv
  PROVE  /\ \A e \in history \cup last : e.ts \in Nat
         /\ now \in Nat /\ forget \in Nat /\ reached \in Nat /\ next \in Nat
<1>1. \A e \in history : e.ts \in Nat
  <2> SUFFICES ASSUME NEW e \in history PROVE e.ts \in Nat
    OBVIOUS
  <2>1. PICK o \in 1..reached : e = Member(log[o])
    BY DEF TypeInv, RedisOK
  <2> QED
    BY <2>1, OneMessage DEF Member
<1>2. \A l \in last : l.ts \in Nat
  <2> SUFFICES ASSUME NEW l \in last PROVE l.ts \in Nat
    OBVIOUS
  <2>1. PICK o \in 1..reached : l = [ts |-> log[o].ts, country |-> log[o].country]
    BY DEF TypeInv, RedisOK
  <2> QED
    BY <2>1, OneMessage
<1> QED
  BY <1>1, <1>2, OneMessage DEF TypeInv, LogOK, PlaceOK, RedisOK

\* A longer topic, a reader, and whoever else leaves Redis alone.
LEMMA RedisKeepsHistory ==
  ASSUME HistoryInv, TypeInv', LogGrows, UNCHANGED <<redis, now>>,
         next' = next \/ (next' <= next /\ next' \in Nat)
  PROVE  HistoryInv'
<1>1. UNCHANGED <<history, last, forget, reached, added, now>>
  BY DEF redis
<1>2. \A o \in 1..reached : log'[o] = log[o]
  BY OneMessage DEF LogGrows, HistoryInv
<1>3. Keeps' /\ Complete'
  BY <1>1, <1>2 DEF HistoryInv, Keeps, Complete, Past, Member
<1>4. LastSeen'
  <2> SUFFICES ASSUME next' = reached + 1, reached > 0, log'[reached].id \in added
               PROVE  \/ last = {[ts |-> log'[reached].ts, country |-> log'[reached].country]}
                      \/ last = {} /\ Past(log'[reached])
    BY <1>1 DEF LastSeen, Past
  <2>1. next = reached + 1 /\ reached \in 1..reached
    BY HistoryTypes DEF HistoryInv, TypeInv, PlaceOK
  <2> QED
    BY <1>2, <2>1 DEF HistoryInv, LastSeen
<1> QED
  BY <1>3, <1>4 DEF HistoryInv

\* A computation: the new entry is as old as its timestamp, what is trimmed is a day
\* older than the message.
LEMMA StoreKeepsHistory ==
  ASSUME HistoryInv, TypeInv', next <= Len(log), Reaches, next' = next + 1, StoreKinds,
         \/ added' = added \cup {log[next].id} /\ Store(log[next])
         \/ added' = added \ {log[next].id},
         UNCHANGED <<log, committed, now>>
  PROVE  HistoryInv'
<1> DEFINE t == log[next]
<1>0. /\ Day \in Nat /\ Grace \in Nat /\ Ahead \in Nat /\ now \in Nat /\ forget \in Nat
      /\ t.ts \in Nat /\ t.ts <= now + Ahead /\ \A e \in history \cup last : e.ts \in Nat
  BY WindowAssumption, NextMessage, HistoryTypes DEF HistoryInv
<1>1. \/ /\ history' = {e \in history : e.ts > t.ts - Day} \cup {Member(t)}
         /\ last' = {[ts |-> t.ts, country |-> t.country]} /\ forget' = now + Day + Grace
      \/ /\ history' = {e \in history : e.ts > t.ts - Day}
         /\ UNCHANGED <<last, forget>>
      \/ UNCHANGED <<history, last, forget>>
  BY DEF StoreKinds, Store
<1>2. Keeps'
  <2>1. (\A e \in history \cup last : e.ts + Day + Grace <= forget + Ahead)
        /\ forget <= now + Day + Grace
    BY DEF HistoryInv, Keeps
  <2>2. Member(t).ts = t.ts
    BY DEF Member
  <2>3. CASE /\ history' = {e \in history : e.ts > t.ts - Day} \cup {Member(t)}
             /\ last' = {[ts |-> t.ts, country |-> t.country]}
             /\ forget' = now + Day + Grace
    <3>1. \A e \in history' \cup last' : e \in history \/ e.ts = t.ts
      BY <2>2, <2>3
    <3>2. \A e \in history' \cup last' : e.ts + Day + Grace <= now + Day + Grace + Ahead
      <4> SUFFICES ASSUME NEW e \in history' \cup last'
                   PROVE  e.ts + Day + Grace <= now + Day + Grace + Ahead
        OBVIOUS
      <4>1. CASE e \in history
        <5>1. e.ts + Day + Grace <= forget + Ahead /\ e.ts \in Nat
          BY <1>0, <2>1, <4>1
        <5> QED
          BY <1>0, <2>1, <5>1
      <4>2. CASE e.ts = t.ts
        BY <1>0, <4>2
      <4> QED
        BY <3>1, <4>1, <4>2
    <3> QED
      BY <1>0, <2>3, <3>2 DEF Keeps
  <2>4. CASE history' \subseteq history /\ UNCHANGED <<last, forget>>
    BY <2>1, <2>4 DEF Keeps
  <2> QED
    BY <1>1, <2>3, <2>4
<1>3. Complete'
  <2> SUFFICES ASSUME NEW o \in 1..reached', log[o].id \in added'
               PROVE  \/ Member(log[o]) \in history'
                      \/ Past(log[o])
                      \/ \E j \in 1..reached' : log[j].ts - log[o].ts >= Day
    BY DEF Complete, Past, Member
  <2>1. reached' \in Nat /\ next \in 1..reached' /\ next \in 1..Len(log)
        /\ o \in 1..Len(log) /\ \A j \in 1..reached : j \in 1..reached'
    BY ReachesNext, NextMessage DEF HistoryInv, TypeInv, PlaceOK
  <2>2. CASE log[o].id = t.id
    <3>1. log[o] = t
      BY <2>1, <2>2, OneMessage DEF HistoryInv
    <3> QED
      BY <2>2, <3>1 DEF Store
  <2>3. CASE log[o].id # t.id
    <3>1. o \in 1..reached /\ log[o].id \in added
      <4>1. log[o].id \in added
        BY <2>3
      <4>2. o # next /\ reached \in Nat /\ next \in Nat /\ next <= reached + 1
        BY <2>3, HistoryTypes DEF HistoryInv, TypeInv, PlaceOK
      <4>3. o \in 1..reached
        BY <4>2 DEF Reaches
      <4> QED
        BY <4>1, <4>3
    <3>2. \/ Member(log[o]) \in history
          \/ Past(log[o])
          \/ \E j \in 1..reached : log[j].ts - log[o].ts >= Day
      BY <3>1 DEF HistoryInv, Complete
    <3>3. CASE Member(log[o]) \in history /\ Member(log[o]) \notin history'
      <4>1. ~(Member(log[o]).ts > t.ts - Day) /\ Member(log[o]).ts = log[o].ts
        BY <1>1, <3>3 DEF Member
      <4>2. t.ts - log[o].ts >= Day
        BY <1>0, <2>1, <4>1, OneMessage DEF HistoryInv
      <4> QED
        BY <2>1, <4>2
    <3> QED
      BY <2>1, <3>2, <3>3
  <2> QED
    BY <2>2, <2>3
<1>4. LastSeen'
  <2> SUFFICES ASSUME next' = reached' + 1, log[reached'].id \in added'
               PROVE  last' = {[ts |-> log[reached'].ts, country |-> log[reached'].country]}
    BY DEF LastSeen
  <2>1. reached' = next
    BY ReachesNext, NextMessage DEF HistoryInv
  <2> QED
    BY <2>1 DEF Store
<1> QED
  BY <1>2, <1>3, <1>4 DEF HistoryInv

\* Keys expire.
LEMMA TickKeepsHistory == ASSUME HistoryInv, TypeInv', Tick PROVE HistoryInv'
<1>1. /\ now' = now + 1 /\ UNCHANGED <<log, next, forget, reached, added>>
      /\ \/ UNCHANGED <<history, last>>
         \/ now' = forget /\ history' = {} /\ last' = {}
  BY DEF Tick
<1>2. /\ Day \in Nat /\ Grace \in Nat /\ Ahead \in Nat /\ now \in Nat /\ forget \in Nat
      /\ reached \in Nat /\ \A o \in 1..reached : log[o].ts \in Nat
  BY WindowAssumption, HistoryTypes, OneMessage DEF HistoryInv
<1>3. /\ \A e \in history \cup last : e.ts + Day + Grace <= forget + Ahead
      /\ forget <= now + Day + Grace
  BY DEF HistoryInv, Keeps
<1>4. Keeps'
  BY <1>1, <1>2, <1>3 DEF Keeps
<1>5. \A o \in 1..reached : Past(log[o]) => Past(log[o])'
  BY <1>1, <1>2 DEF Past
<1>6. Complete'
  <2> SUFFICES ASSUME NEW o \in 1..reached, log[o].id \in added
               PROVE  \/ Member(log[o]) \in history'
                      \/ Past(log[o])'
                      \/ \E j \in 1..reached : log[j].ts - log[o].ts >= Day
    BY <1>1 DEF Complete, Past, Member
  <2>1. \/ Member(log[o]) \in history
        \/ Past(log[o])
        \/ \E j \in 1..reached : log[j].ts - log[o].ts >= Day
    BY DEF HistoryInv, Complete
  <2>2. CASE Member(log[o]) \in history /\ now' = forget
    <3>1. Member(log[o]).ts + Day + Grace <= forget + Ahead /\ Member(log[o]).ts = log[o].ts
      BY <1>3, <2>2 DEF Member
    <3> QED
      BY <1>1, <2>2, <3>1 DEF Past
  <2> QED
    BY <1>1, <1>5, <2>1, <2>2
<1>7. LastSeen'
  <2> SUFFICES ASSUME next = reached + 1, reached > 0, log[reached].id \in added
               PROVE  \/ last' = {[ts |-> log[reached].ts, country |-> log[reached].country]}
                      \/ last' = {} /\ Past(log[reached])'
    BY <1>1 DEF LastSeen, Past
  <2>1. \/ last = {[ts |-> log[reached].ts, country |-> log[reached].country]}
        \/ last = {} /\ Past(log[reached])
    BY DEF HistoryInv, LastSeen
  <2>2. reached \in 1..reached
    BY <1>2
  <2>3. CASE last = {} /\ Past(log[reached])
    BY <1>1, <1>5, <2>2, <2>3
  <2>4. CASE /\ last = {[ts |-> log[reached].ts, country |-> log[reached].country]}
             /\ now' = forget /\ last' = {}
    <3> DEFINE l == [ts |-> log[reached].ts, country |-> log[reached].country]
    <3>1. l \in last /\ l.ts = log[reached].ts
      BY <2>4
    <3>2. log[reached].ts + Day + Grace <= forget + Ahead
      BY <1>3, <3>1
    <3> QED
      BY <1>1, <2>4, <3>2 DEF Past
  <2> QED
    BY <1>1, <2>1, <2>3, <2>4
<1> QED
  BY <1>4, <1>6, <1>7 DEF HistoryInv

LEMMA HistoryStep == HistoryInv /\ [Next]_vars => HistoryInv'
<1> SUFFICES ASSUME HistoryInv, [Next]_vars PROVE HistoryInv'
  OBVIOUS
<1>1. TypeInv' /\ LogGrows /\ next \in Nat
  BY TypeStep, TopicGrows, HistoryTypes DEF HistoryInv
<1>2. CASE ComputeAndStore
  BY <1>1, <1>2, StoreKeepsHistory DEF ComputeAndStore, StoreKinds
<1>3. CASE ComputeFails
  BY <1>1, <1>3, StoreKeepsHistory DEF ComputeFails, StoreKinds
<1>4. CASE Tick
  BY <1>1, <1>4, TickKeepsHistory
<1>5. CASE \/ \E p \in bound.payloads, ts \in 1..(bound.clock + Ahead) : Arrive(p, ts)
           \/ SendAgain
  BY <1>1, <1>5, LogStep, RedisKeepsHistory DEF HistoryInv
<1>6. CASE Crash
  <2>1. next' <= next /\ next' \in Nat
    BY <1>1, <1>6 DEF Crash, HistoryInv, TypeInv, PlaceOK
  <2> QED
    BY <1>1, <1>6, <2>1, RedisKeepsHistory DEF Crash
<1>7. CASE Commit \/ Flush
  BY <1>1, <1>7, RedisKeepsHistory DEF Commit, Flush
<1>8. CASE \E r \in bound.readers : Lookup(r) \/ Reply(r) \/ Resume(r)
  BY <1>1, <1>8, RedisKeepsHistory DEF Lookup, Reply, Resume, EngineRest
<1>9. CASE UNCHANGED vars
  BY <1>1, <1>9, RedisKeepsHistory DEF vars
<1> QED
  BY <1>2, <1>3, <1>4, <1>5, <1>6, <1>7, <1>8, <1>9 DEF Next, Engine

LEMMA InitHistory == Init => HistoryInv
<1> SUFFICES ASSUME Init PROVE HistoryInv
  OBVIOUS
<1>1. TypeInv /\ history = {} /\ last = {} /\ reached = 0 /\ forget = 0 /\ now = 1
  BY InitTypes DEF Init
<1> QED
  BY <1>1, WindowAssumption DEF HistoryInv, Keeps, Complete, LastSeen

-----------------------------------------------------------------------------
(* A vector is that of the transactions before it.                         *)

\* Members that are all different are as many as the messages they come from.
LEMMA DifferentMembers ==
  ASSUME NEW S, IsFiniteSet(S), \A u, v \in S : Member(u) = Member(v) => u = v
  PROVE  Cardinality({Member(u) : u \in S}) = Cardinality(S)
<1> DEFINE W == {Member(u) : u \in S}
           f == [u \in S |-> Member(u)]
<1>1. f \in Bijection(S, W)
  BY DEF Bijection, Injection, Surjection, IsInjective
<1> QED
  BY <1>1, FS_Bijection DEF ExistsBijection

LEMMA FiniteRecent == ASSUME TypeInv, NEW o \in 1..Len(log) PROVE IsFiniteSet(Recent(o))
<1>1. o - 1 \in Nat
  BY OneMessage
<1>2. IsFiniteSet({log[j] : j \in 1..(o - 1)})
  BY <1>1, FiniteMessages
<1>3. Recent(o) \subseteq {log[j] : j \in 1..(o - 1)}
  BY DEF Recent, Before
<1> QED
  BY <1>2, <1>3, FS_Subset

\* What the messages before the one that is computed next are.
LEMMA BeforeNext ==
  ASSUME TypeInv, next <= Len(log), ~Again(next), NEW u
  PROVE  u \in Before(next) <=> \E j \in 1..reached : j \in 1..Len(log) /\ u = log[j]
  BY FirstTime DEF Before

\* The row that is about to be made is one SnapshotsExact speaks of.
Promising ==
  /\ next <= Len(log) /\ ~Again(next) /\ Whole(next)
  /\ now + Ahead <= log[next].ts + Grace
  /\ Trimmed(next) = {} /\ Twins(next) = {}

\* Its window holds the members of the transactions of the day before it: none is
\* missing, because none of them has failed, expired or been trimmed.
LEMMA WindowIsRecent ==
  ASSUME HistoryInv, Promising
  PROVE  Window(history, log[next]) = {Member(u) : u \in Recent(next)}
<1> DEFINE t == log[next]
<1> USE DEF HistoryInv
<1>0. next <= Len(log) /\ ~Again(next) /\ Whole(next) /\ now + Ahead <= t.ts + Grace
      /\ Trimmed(next) = {}
  BY DEF Promising
<1>1. t.ts \in Nat /\ Day \in Nat /\ Grace \in Nat /\ Ahead \in Nat /\ now \in Nat
  BY <1>0, NextMessage, HistoryTypes, WindowAssumption
<1>2. ASSUME NEW e \in Window(history, t) PROVE e \in {Member(u) : u \in Recent(next)}
  <2>1. PICK j \in 1..reached : /\ j \in 1..Len(log) /\ e = Member(log[j])
                                /\ log[j].ts <= t.ts /\ t.ts - log[j].ts < Day
    BY <1>0, WindowEntries
  <2>2. log[j] \in Recent(next)
    BY <1>0, <2>1, BeforeNext DEF Recent
  <2> QED
    BY <2>1, <2>2
<1>3. ASSUME NEW u \in Recent(next) PROVE Member(u) \in Window(history, t)
  <2>1. u \in Before(next) /\ u.ts <= t.ts /\ t.ts - u.ts < Day /\ u.id \in added
    BY <1>0 DEF Recent, Whole
  <2>2. PICK o \in 1..reached : o \in 1..Len(log) /\ u = log[o]
    BY <1>0, <2>1, BeforeNext
  <2>3. u.ts \in Nat
    BY <2>2, OneMessage
  <2>4. ~Past(u)
    BY <1>0, <1>1, <2>1, <2>3 DEF Past
  <2>5. ~\E j \in 1..reached : log[j].ts - u.ts >= Day
    <3> SUFFICES ASSUME NEW j \in 1..reached, log[j].ts - u.ts >= Day PROVE FALSE
      OBVIOUS
    <3>1. log[j] \in Before(next)
      BY <1>0, BeforeNext, OneMessage
    <3>2. u \in Trimmed(next)
      BY <3>1 DEF Trimmed
    <3> QED
      BY <1>0, <3>2
  <2>6. Member(u) \in history
    BY <2>1, <2>2, <2>4, <2>5 DEF Complete
  <2>7. t.ts - Day < u.ts /\ u.ts <= t.ts
    BY <1>1, <2>1, <2>3
  <2> QED
    BY <2>6, <2>7 DEF Window, Member
<1> QED
  BY <1>2, <1>3

\* No two of them have one member.
LEMMA RecentDiffer ==
  ASSUME HistoryInv, Promising, NEW u \in Recent(next), NEW v \in Recent(next),
         Member(u) = Member(v)
  PROVE  u = v
<1>1. u.ts = v.ts /\ u.amount = v.amount /\ u.merchant = v.merchant
  <2>1. Member(u).ts = Member(v).ts /\ Member(u).amount = Member(v).amount
        /\ Member(u).merchant = Member(v).merchant
    OBVIOUS
  <2> QED
    BY <2>1 DEF Member
<1>2. u \in Before(next) /\ v \in Before(next) /\ Twins(next) = {}
  BY DEF Recent, Promising
<1>3. u.id = v.id
  BY <1>1, <1>2 DEF Twins
<1>4. PICK i, j \in 1..Len(log) : u = log[i] /\ v = log[j]
  BY <1>2, BeforeNext DEF Promising, HistoryInv
<1> QED
  BY <1>3, <1>4, OneMessage DEF HistoryInv

\* So a part of the window is counted as the transactions it comes from.
LEMMA PartOfWindow ==
  ASSUME HistoryInv, Promising, NEW S \in SUBSET Recent(next)
  PROVE  Cardinality({Member(u) : u \in S}) = Cardinality(S)
<1>1. next \in 1..Len(log)
  BY NextMessage DEF Promising, HistoryInv
<1>2. IsFiniteSet(S)
  BY <1>1, FiniteRecent, FS_Subset DEF HistoryInv
<1> QED
  BY <1>2, DifferentMembers, RecentDiffer

\* The time since the transaction before, and the country it was in.
SinceLast(t) == {IF t.ts >= l.ts THEN t.ts - l.ts ELSE 0 : l \in last}
GapBefore(t) == IF next = 1 \/ t.ts < log[next - 1].ts THEN 0 ELSE t.ts - log[next - 1].ts

LEMMA LastIsBefore ==
  ASSUME HistoryInv, Promising, NEW t, t = log[next]
  PROVE  /\ \/ SinceLast(t) = IF next = 1 THEN {} ELSE {GapBefore(t)}
            \/ SinceLast(t) = {} /\ next # 1 /\ GapBefore(t) >= Day
         /\ ((\E l \in last : l.country # t.country) /\ \A s \in SinceLast(t) : s <= Travel)
              <=> (next > 1 /\ log[next - 1].country # t.country /\ GapBefore(t) <= Travel)
<1> DEFINE since == SinceLast(t)
           gap == GapBefore(t)
<1> USE DEF HistoryInv, SinceLast, GapBefore
<1>1. /\ reached = next - 1 /\ next \in 1..Len(log) /\ reached \in Nat /\ t.ts \in Nat
      /\ now + Ahead <= t.ts + Grace /\ Whole(next)
      /\ Day \in Nat /\ Grace \in Nat /\ Ahead \in Nat /\ now \in Nat
      /\ Travel \in Nat /\ Travel < Day
  BY FirstTime, NextMessage, HistoryTypes, WindowAssumption DEF Promising
<1>2. CASE next = 1
  <2>1. last = {}
    BY <1>1, <1>2 DEF TypeInv, RedisOK
  <2> QED
    BY <1>2, <2>1
<1>3. CASE next # 1
  <2> DEFINE b == log[reached]
  <2>1. /\ b = log[next - 1] /\ b.ts \in Nat /\ next > 1 /\ reached > 0 /\ next = reached + 1
        /\ b.id \in added
    BY <1>1, <1>3, OneMessage DEF Whole
  <2>2. last = {[ts |-> b.ts, country |-> b.country]} \/ (last = {} /\ Past(b))
    BY <2>1 DEF LastSeen
  <2>3. gap = IF t.ts < b.ts THEN 0 ELSE t.ts - b.ts
    BY <1>3, <2>1
  <2>4. CASE last = {[ts |-> b.ts, country |-> b.country]}
    <3>1. since = {gap}
      <4> DEFINE seen == [ts |-> b.ts, country |-> b.country]
      <4>1. last = {seen} /\ seen.ts = b.ts
        BY <2>4
      <4> HIDE DEF seen
      <4>2. since = {IF t.ts >= seen.ts THEN t.ts - seen.ts ELSE 0}
        BY <4>1
      <4>3. gap = IF t.ts >= b.ts THEN t.ts - b.ts ELSE 0
        BY <1>1, <2>1, <2>3
      <4> QED
        BY <4>1, <4>2, <4>3
    <3>2. (\E l \in last : l.country # t.country) <=> b.country # t.country
      BY <2>4
    <3> QED
      BY <1>3, <2>1, <3>1, <3>2
  <2>5. CASE last = {} /\ Past(b)
    <3>1. since = {}
      BY <2>5
    <3>2. gap >= Day /\ ~(gap <= Travel)
      BY <1>1, <2>1, <2>3, <2>5 DEF Past
    <3> QED
      BY <1>3, <2>5, <3>1, <3>2
  <2> HIDE DEF b
  <2> QED
    BY <2>2, <2>4, <2>5
<1> QED
  BY <1>2, <1>3

\* Two vectors that agree in all counts.
LEMMA AgreesBy ==
  ASSUME NEW a, NEW b, NEW c, NEW d, NEW e, NEW f, NEW s, NEW z,
         s = z \/ (s = {} /\ \A x \in z : x >= Day)
  PROVE  Agrees([txn_velocity_1h |-> a, txn_velocity_24h |-> b, amounts_24h |-> c,
                 distinct_merchants_1h |-> d, distinct_merchants_24h |-> e,
                 seconds_since_last_txn |-> s, impossible_travel_flag |-> f],
                [txn_velocity_1h |-> a, txn_velocity_24h |-> b, amounts_24h |-> c,
                 distinct_merchants_1h |-> d, distinct_merchants_24h |-> e,
                 seconds_since_last_txn |-> z, impossible_travel_flag |-> f])
  BY DEF Agrees

\* The vector of the row that is about to be made.
LEMMA NewIsExact ==
  ASSUME HistoryInv, Promising
  PROVE  Agrees(Vector(history, last, log[next]), Reference(next))
<1> DEFINE t == log[next]
           day == Window(history, t)
           hour == {e \in day : e.ts >= t.ts - Hour}
           recent == Recent(next)
           recentHour == {u \in recent : t.ts - u.ts <= Hour}
           since == SinceLast(t)
           gap == GapBefore(t)
           z == IF next = 1 THEN {} ELSE {gap}
           flag == (\E l \in last : l.country # t.country) /\ (\A s \in since : s <= Travel)
           flagRef == next > 1 /\ log[next - 1].country # t.country /\ gap <= Travel
<1>1. /\ t.ts \in Nat /\ Hour \in Nat /\ Day \in Nat
      /\ \A u \in recent : u.ts \in Nat
  <2>1. \A u \in recent : u \in Before(next)
    BY DEF Recent
  <2>2. \A u \in recent : \E j \in 1..Len(log) : u = log[j]
    BY <2>1, BeforeNext DEF HistoryInv, Promising
  <2> QED
    BY <2>2, OneMessage, NextMessage, WindowAssumption DEF HistoryInv, Promising
<1>2. day = {Member(u) : u \in recent}
  BY WindowIsRecent
<1>3. \A u : Member(u).ts = u.ts /\ Member(u).amount = u.amount /\ Member(u).merchant = u.merchant
  BY DEF Member
<1>4. hour = {Member(u) : u \in recentHour}
  <2>1. \A u \in recent : u.ts >= t.ts - Hour <=> t.ts - u.ts <= Hour
    BY <1>1
  <2> HIDE DEF day, recent, t
  <2> QED
    BY <1>2, <1>3, <2>1
<1>5. Cardinality(day) = Cardinality(recent) /\ Cardinality(hour) = Cardinality(recentHour)
  BY <1>2, <1>4, PartOfWindow
<1>6. \A a : Cardinality({e \in day : e.amount = a})
               = Cardinality({u \in recent : u.amount = a})
  <2> SUFFICES ASSUME NEW a
               PROVE  Cardinality({e \in day : e.amount = a})
                        = Cardinality({u \in recent : u.amount = a})
    OBVIOUS
  <2>1. {e \in day : e.amount = a} = {Member(u) : u \in {v \in recent : v.amount = a}}
    <3> HIDE DEF day, recent
    <3> QED
      BY <1>2, <1>3
  <2>2. {v \in recent : v.amount = a} \subseteq recent
    OBVIOUS
  <2> QED
    BY <2>1, <2>2, PartOfWindow
<1>7. /\ {e.merchant : e \in day \cup {t}} = {u.merchant : u \in recent} \cup {t.merchant}
      /\ {e.merchant : e \in hour \cup {t}} = {u.merchant : u \in recentHour} \cup {t.merchant}
  <2> HIDE DEF day, recent, hour, recentHour, t
  <2> QED
    BY <1>2, <1>3, <1>4
<1>8. /\ since = z \/ (since = {} /\ \A x \in z : x >= Day)
      /\ flag = flagRef
  <2>1. /\ since = z \/ (since = {} /\ next # 1 /\ gap >= Day)
        /\ flag <=> flagRef
    BY LastIsBefore
  <2> QED
    BY <2>1
<1> DEFINE one == Cardinality(recentHour) + 1
           all == Cardinality(recent) + 1
           amounts == [a \in Amounts |-> Cardinality({u \in recent : u.amount = a})]
           few == Cardinality({u.merchant : u \in recentHour} \cup {t.merchant})
           many == Cardinality({u.merchant : u \in recent} \cup {t.merchant})
<1>9. Vector(history, last, t) =
        [txn_velocity_1h |-> one, txn_velocity_24h |-> all, amounts_24h |-> amounts,
         distinct_merchants_1h |-> few, distinct_merchants_24h |-> many,
         seconds_since_last_txn |-> since, impossible_travel_flag |-> flag]
  BY <1>5, <1>6, <1>7, Zenon DEF Vector, SinceLast
<1>10. Reference(next) =
        [txn_velocity_1h |-> one, txn_velocity_24h |-> all, amounts_24h |-> amounts,
         distinct_merchants_1h |-> few, distinct_merchants_24h |-> many,
         seconds_since_last_txn |-> z, impossible_travel_flag |-> flagRef]
  <2>1. one = 1 + Cardinality(recentHour) /\ all = 1 + Cardinality(recent)
    <3>1. IsFiniteSet(recent) /\ recentHour \subseteq recent
      BY FiniteRecent, NextMessage DEF HistoryInv, Promising
    <3>2. Cardinality(recent) \in Nat /\ Cardinality(recentHour) \in Nat
      BY <3>1, FS_Subset, FS_CardinalityType
    <3> QED
      BY <3>2
  <2>2. Reference(next) =
          [txn_velocity_1h |-> 1 + Cardinality(recentHour),
           txn_velocity_24h |-> 1 + Cardinality(recent), amounts_24h |-> amounts,
           distinct_merchants_1h |-> few, distinct_merchants_24h |-> many,
           seconds_since_last_txn |-> z, impossible_travel_flag |-> flagRef]
    BY Zenon DEF Reference, GapBefore
  <2> HIDE DEF recent, recentHour, one, all, amounts, few, many, z, flagRef
  <2> QED
    BY <2>1, <2>2
<1> HIDE DEF since, z, flag, flagRef, one, all, amounts, few, many
<1> QED
  BY <1>8, <1>9, <1>10, AgreesBy

\* What SnapshotsExact says of a row.
Exact(r) ==
  ~r.again /\ r.whole /\ Timely(r) /\ Trimmed(r.of) = {} /\ Twins(r.of) = {} =>
    Agrees(r.vector, Reference(r.of))

ExactInv == HistoryInv /\ \A r \in rows \cup snapshots : Exact(r)

LEMMA NewRowExact ==
  ASSUME HistoryInv, next <= Len(log), NEW r, r = NewRow
  PROVE  Exact(r)
<1>1. /\ r.of = next /\ r.at = now /\ r.again = Again(next) /\ r.whole = Whole(next)
      /\ r.vector = Vector(history, last, log[next])
  BY DEF NewRow
<1> QED
  BY <1>1, NewIsExact DEF Exact, Timely, Promising

\* A reference is that of the transactions R of the day before message t at offset o,
\* and of the message b that was before it.
ReferenceBy(o, t, b, R) ==
  LET hour == {u \in R : t.ts - u.ts <= Hour}
      gap == IF o = 1 \/ t.ts < b.ts THEN 0 ELSE t.ts - b.ts
  IN [txn_velocity_1h |-> 1 + Cardinality(hour),
      txn_velocity_24h |-> 1 + Cardinality(R),
      amounts_24h |-> [a \in Amounts |-> Cardinality({u \in R : u.amount = a})],
      distinct_merchants_1h |-> Cardinality({u.merchant : u \in hour} \cup {t.merchant}),
      distinct_merchants_24h |-> Cardinality({u.merchant : u \in R} \cup {t.merchant}),
      seconds_since_last_txn |-> IF o = 1 THEN {} ELSE {gap},
      impossible_travel_flag |-> o > 1 /\ b.country # t.country /\ gap <= Travel]

LEMMA ReferenceIs ==
  ASSUME NEW o
  PROVE  /\ Reference(o) = ReferenceBy(o, log[o], log[o - 1], Recent(o))
         /\ Reference(o)' = ReferenceBy(o, log'[o], log'[o - 1], Recent(o)')
<1>1. Reference(o) = ReferenceBy(o, log[o], log[o - 1], Recent(o))
  BY Zenon DEF Reference, ReferenceBy
<1>2. Reference(o)' = ReferenceBy(o, log'[o], log'[o - 1], Recent(o)')
  BY Zenon DEF Reference, ReferenceBy
<1> QED
  BY <1>1, <1>2

\* The first message has none before it.
LEMMA ReferenceOfFirst ==
  ASSUME NEW t, NEW b, NEW c, NEW R
  PROVE  ReferenceBy(1, t, b, R) = ReferenceBy(1, t, c, R)
<1>1. /\ (1 > 1 /\ b.country # t.country
           /\ (IF 1 = 1 \/ t.ts < b.ts THEN 0 ELSE t.ts - b.ts) <= Travel) = FALSE
      /\ (1 > 1 /\ c.country # t.country
           /\ (IF 1 = 1 \/ t.ts < c.ts THEN 0 ELSE t.ts - c.ts) <= Travel) = FALSE
  OBVIOUS
<1> QED
  BY <1>1, Zenon DEF ReferenceBy

\* It stays so when the topic is longer, because nothing it speaks of comes later.
LEMMA ExactStays ==
  ASSUME TypeInv, LogGrows, NEW r \in rows \cup snapshots, Exact(r)
  PROVE  Exact(r)'
<1> DEFINE o == r.of
<1>1. o \in 1..Len(log) /\ \A j \in 1..o : log'[j] = log[j]
  BY OneMessage DEF TypeInv, RowsOK, LogGrows
<1>2. log'[o] = log[o] /\ \A j \in 1..(o - 1) : log'[j] = log[j]
  BY <1>1
<1>3. o > 1 => log'[o - 1] = log[o - 1]
  BY <1>1, <1>2
<1> HIDE DEF o
<1>4. Before(o)' = Before(o)
  BY <1>2 DEF Before, o
<1>5. Recent(o)' = Recent(o)
  BY <1>2, <1>4 DEF Recent, o
<1>6. Trimmed(o)' = Trimmed(o) /\ Twins(o)' = Twins(o) /\ (Timely(r)' <=> Timely(r))
  BY <1>2, <1>4, <1>5 DEF Trimmed, Twins, Timely, o
<1>7. Reference(o)' = Reference(o)
  <2>1. o \in Nat /\ (o = 1 \/ o > 1)
    BY <1>1, OneMessage
  <2>2. CASE o = 1
    BY <1>2, <1>5, <2>2, ReferenceIs, ReferenceOfFirst
  <2>3. CASE o > 1
    BY <1>2, <1>3, <1>5, <2>3, ReferenceIs
  <2> QED
    BY <2>1, <2>2, <2>3
<1> QED
  BY <1>6, <1>7 DEF Exact, Agrees, o

LEMMA ExactStep == ExactInv /\ [Next]_vars => ExactInv'
<1> SUFFICES ASSUME ExactInv, [Next]_vars PROVE ExactInv'
  OBVIOUS
<1>1. HistoryInv' /\ LogGrows /\ TypeInv
  BY HistoryStep, TopicGrows DEF ExactInv, HistoryInv
<1>2. \A r \in rows \cup snapshots : Exact(r)'
  BY <1>1, ExactStays DEF ExactInv
<1>3. ASSUME ComputeAndStore, log' = log, NEW r, r = NewRow
      PROVE  Exact(r)'
  <2>1. Exact(r)
    BY <1>3, NewRowExact DEF ComputeAndStore, ExactInv
  <2> QED
    <3>1. Recent(r.of)' = Recent(r.of) /\ Before(r.of)' = Before(r.of)
      BY <1>3 DEF Recent, Before
    <3>2. Reference(r.of)' = Reference(r.of)
      BY <1>3, <3>1, ReferenceIs
    <3> QED
      BY <1>3, <2>1, <3>1, <3>2 DEF Exact, Timely, Trimmed, Twins, Agrees
<1>4. \A r \in rows' \cup snapshots' : Exact(r)'
  BY <1>1, <1>2, <1>3, RowsFrom DEF ExactInv
<1> QED
  BY <1>1, <1>4 DEF ExactInv

\* The features training reads are those of the transactions before, for topics of
\* any length: crashes, redelivery, late and early timestamps and keys that expire
\* do not change the vector of a message delivered once and in time, but where a
\* message ahead has trimmed its window or two transactions have one member
\* (compute_and_store).
THEOREM RowsAreExact == Spec => []SnapshotsExact
<1>1. Init => ExactInv
  BY InitHistory DEF Init, ExactInv
<1>2. ExactInv => SnapshotsExact
  BY DEF ExactInv, Exact, SnapshotsExact
<1> QED
  BY <1>1, <1>2, ExactStep, PTL DEF Spec
=============================================================================
