--------------------------- MODULE ModelBatcherProof ---------------------------
(***************************************************************************)
(* Proofs about scoring inside one worker, for any number of requests and  *)
(* of swaps: an address names one model as long as anything refers to it,  *)
(* so results are of the model picked; what is handed over is at one place *)
(* until it is answered; only a swap can strand a request; and all of it   *)
(* implements Scoring.                                                     *)
(***************************************************************************)
EXTENDS ModelBatcher, SequenceTheorems, TLAPS

-----------------------------------------------------------------------------
(* Lists.                                                                  *)

Distinct(s) == \A i, j \in DOMAIN s : i # j => s[i] # s[j]

\* The items of a list with one more at its end.
LEMMA ItemsAppend ==
  ASSUME NEW S, NEW s \in Seq(S), NEW x \in S
  PROVE  Items(Append(s, x)) = Items(s) \cup {x}
<1>1. DOMAIN Append(s, x) = 1..(Len(s) + 1) /\ DOMAIN s = 1..Len(s)
  OBVIOUS
<1>2. \A i \in 1..Len(s) : Append(s, x)[i] = s[i]
  OBVIOUS
<1>3. Append(s, x)[Len(s) + 1] = x
  OBVIOUS
<1>4. 1..(Len(s) + 1) = 1..Len(s) \cup {Len(s) + 1}
  OBVIOUS
<1> QED
  BY <1>1, <1>2, <1>3, <1>4 DEF Items

\* The items of two lists put together.
LEMMA ItemsConcat ==
  ASSUME NEW S, NEW s \in Seq(S), NEW t \in Seq(S)
  PROVE  Items(s \o t) = Items(s) \cup Items(t)
<1>1. /\ DOMAIN (s \o t) = 1..(Len(s) + Len(t))
      /\ DOMAIN s = 1..Len(s) /\ DOMAIN t = 1..Len(t)
  OBVIOUS
<1>2. \A i \in 1..Len(s) : i \in 1..(Len(s) + Len(t)) /\ (s \o t)[i] = s[i]
  OBVIOUS
<1>3. \A i \in 1..Len(t) : Len(s) + i \in 1..(Len(s) + Len(t)) /\ (s \o t)[Len(s) + i] = t[i]
  OBVIOUS
<1>4. ASSUME NEW i \in 1..(Len(s) + Len(t)) PROVE (s \o t)[i] \in Items(s) \cup Items(t)
  <2>1. CASE i \in 1..Len(s)
    BY <1>1, <1>2, <2>1 DEF Items
  <2>2. CASE i \notin 1..Len(s)
    <3>1. i - Len(s) \in 1..Len(t) /\ (s \o t)[i] = t[i - Len(s)]
      BY <2>2
    <3> QED
      BY <1>1, <3>1 DEF Items
  <2> QED
    BY <2>1, <2>2
<1>5. \A i \in 1..Len(s) : s[i] \in Items(s \o t)
  BY <1>1, <1>2 DEF Items
<1>6. \A i \in 1..Len(t) : t[i] \in Items(s \o t)
  <2> SUFFICES ASSUME NEW i \in 1..Len(t) PROVE t[i] \in Items(s \o t)
    OBVIOUS
  <2>1. Len(s) + i \in DOMAIN (s \o t) /\ (s \o t)[Len(s) + i] = t[i]
    BY <1>1, <1>3
  <2> QED
    BY <2>1 DEF Items
<1> QED
  BY <1>1, <1>4, <1>5, <1>6 DEF Items

\* Appending what is not in a list leaves it without repetitions.
LEMMA DistinctAppend ==
  ASSUME NEW S, NEW s \in Seq(S), NEW x \in S, Distinct(s), x \notin Items(s)
  PROVE  Distinct(Append(s, x))
<1>1. DOMAIN Append(s, x) = 1..(Len(s) + 1) /\ DOMAIN s = 1..Len(s)
  OBVIOUS
<1>2. \A i \in 1..Len(s) : Append(s, x)[i] = s[i] /\ s[i] # x
  BY <1>1 DEF Items
<1>3. Append(s, x)[Len(s) + 1] = x
  OBVIOUS
<1>4. \A i \in 1..(Len(s) + 1) : i \in 1..Len(s) \/ i = Len(s) + 1
  OBVIOUS
<1>5. \A i, j \in 1..Len(s) : i # j => s[i] # s[j]
  BY <1>1 DEF Distinct
<1> QED
  BY <1>1, <1>2, <1>3, <1>4, <1>5 DEF Distinct

\* What is in front of a list without repetitions is not in the rest.
LEMMA DistinctConcat ==
  ASSUME NEW S, NEW s \in Seq(S), NEW t \in Seq(S), Distinct(s \o t)
  PROVE  Distinct(t) /\ Items(s) \cap Items(t) = {}
<1>1. /\ DOMAIN (s \o t) = 1..(Len(s) + Len(t))
      /\ DOMAIN s = 1..Len(s) /\ DOMAIN t = 1..Len(t)
  OBVIOUS
<1>2. \A i \in 1..Len(s) : i \in 1..(Len(s) + Len(t)) /\ (s \o t)[i] = s[i]
  OBVIOUS
<1>3. \A i \in 1..Len(t) : /\ Len(s) + i \in 1..(Len(s) + Len(t)) /\ Len(s) + i \notin 1..Len(s)
                          /\ (s \o t)[Len(s) + i] = t[i]
  OBVIOUS
<1>4. \A i, j \in 1..Len(t) : i # j => Len(s) + i # Len(s) + j
  OBVIOUS
<1>5. Distinct(t)
  BY <1>1, <1>3, <1>4 DEF Distinct
<1>6. ASSUME NEW i \in 1..Len(s), NEW j \in 1..Len(t) PROVE s[i] # t[j]
  BY <1>1, <1>2, <1>3 DEF Distinct
<1>7. Items(s) \cap Items(t) = {}
  BY <1>1, <1>6 DEF Items
<1> QED
  BY <1>5, <1>7

\* A list is its first item and the others.
LEMMA HeadAndTail ==
  ASSUME NEW S, NEW s \in Seq(S), s # <<>>
  PROVE  <<Head(s)>> \in Seq(S) /\ Tail(s) \in Seq(S) /\ <<Head(s)>> \o Tail(s) = s
<1>1. Len(s) \in Nat \ {0} /\ Head(s) \in S /\ Head(s) = s[1]
  BY EmptySeq, HeadTailProperties
<1>2. <<Head(s)>> \in Seq(S) /\ Len(<<Head(s)>>) = 1 /\ <<Head(s)>>[1] = s[1]
  BY <1>1
<1>3. /\ Tail(s) \in Seq(S) /\ Len(Tail(s)) = Len(s) - 1
      /\ \A i \in 1..Len(Tail(s)) : Tail(s)[i] = s[i + 1]
  BY HeadTailProperties
<1> DEFINE h == <<Head(s)>>
           t == Tail(s)
<1>4. /\ h \in Seq(S) /\ Len(h) = 1 /\ h[1] = s[1] /\ t \in Seq(S) /\ Len(t) = Len(s) - 1
      /\ \A i \in 1..Len(t) : t[i] = s[i + 1]
  BY <1>2, <1>3
<1> HIDE DEF h, t
<1>5. /\ h \o t \in Seq(S) /\ Len(h \o t) = Len(s)
      /\ \A i \in 1..Len(s) : (h \o t)[i] = IF i <= 1 THEN h[i] ELSE t[i - 1]
  <2>1. /\ h \o t \in Seq(S) /\ Len(h \o t) = Len(h) + Len(t)
        /\ \A i \in 1..Len(h) + Len(t) :
              (h \o t)[i] = IF i <= Len(h) THEN h[i] ELSE t[i - Len(h)]
    <3>1. h \in Seq(S) /\ t \in Seq(S)
      BY <1>4
    <3> QED
      BY ONLY <3>1, ConcatProperties, Zenon
  <2>2. Len(h) + Len(t) = Len(s)
    BY <1>1, <1>4
  <2> QED
    BY <1>4, <2>1, <2>2
<1>6. ASSUME NEW i \in 1..Len(s) PROVE (h \o t)[i] = s[i]
  <2>1. CASE i = 1
    BY <1>4, <1>5, <2>1
  <2>2. CASE i # 1
    <3>1. i - 1 \in 1..Len(t) /\ (i - 1) + 1 = i /\ ~(i <= 1)
      BY <1>1, <1>4, <2>2
    <3> QED
      BY <1>4, <1>5, <3>1
  <2> QED
    BY <2>1, <2>2
<1>7. h \o t = s
  BY <1>5, <1>6, SeqEqual
<1> QED
  BY <1>4, <1>7 DEF h, t

\* A list is what is up to a place in it and what is after it.
LEMMA CutInTwo ==
  ASSUME NEW S, NEW s \in Seq(S), NEW n \in 0..Len(s)
  PROVE  /\ SubSeq(s, 1, n) \in Seq(S) /\ SubSeq(s, n + 1, Len(s)) \in Seq(S)
         /\ s = SubSeq(s, 1, n) \o SubSeq(s, n + 1, Len(s))
<1>1. Len(s) \in Nat /\ n \in Int /\ n + 1 \in Int /\ \A i \in 1..Len(s) : s[i] \in S
  BY LenProperties
<1>2. SubSeq(s, 1, n) \in Seq(S)
  BY <1>1, SubSeqProperties
<1>3. \A i \in (n + 1)..Len(s) : s[i] \in S
  BY <1>1
<1>4. SubSeq(s, n + 1, Len(s)) \in Seq(S)
  BY <1>1, <1>3, SubSeqProperties
<1>5. 1 \in 1..Len(s) + 1 /\ n \in (1 - 1)..Len(s) /\ Len(s) \in n..Len(s)
  BY <1>1
<1>6. SubSeq(s, 1, n) \o SubSeq(s, n + 1, Len(s)) = SubSeq(s, 1, Len(s))
  BY <1>5, ConcatAdjacentSubSeq
<1> QED
  BY <1>2, <1>4, <1>6, SubSeqFull

\* A list with one more at the end of its second part.
LEMMA ConcatAppend ==
  ASSUME NEW S, NEW s \in Seq(S), NEW t \in Seq(S), NEW x \in S
  PROVE  s \o Append(t, x) = Append(s \o t, x)
<1>1. <<x>> \in Seq(S)
  OBVIOUS
<1>2. Append(t, x) = t \o <<x>>
  BY AppendIsConcat
<1>3. s \o t \in Seq(S)
  BY ConcatProperties
<1>4. Append(s \o t, x) = (s \o t) \o <<x>>
  BY <1>3, AppendIsConcat
<1>5. (s \o t) \o <<x>> = s \o (t \o <<x>>)
  BY <1>1, ConcatAssociative
<1> QED
  BY <1>2, <1>4, <1>5

\* A list without items is empty.
LEMMA ItemsEmpty == Items(<<>>) = {} /\ Distinct(<<>>)
  BY DEF Items, Distinct
-----------------------------------------------------------------------------
(* Types, and how each step moves the jobs the batchers hold.              *)

Call == [phase : {"new", "features", "scoring", "answered", "failed"}, models : Seq(Models),
         parts : SUBSET Models, left : SUBSET Models, moved : BOOLEAN]
Batcher == [model : Models, stage : {"waiting", "sleeping", "ended"},
            queue : Seq(Job), batch : Seq(Job)]
Answer == [of : Models, by : Models, ok : BOOLEAN]

CurrentOK == current \in Seq(Models) /\ Len(current) \in {1, 2}

\* A request has its models from when it is received, its parts from the pick.
CallsOK ==
  /\ request \in [Requests -> Call]
  /\ \A r \in Requests :
       /\ request[r].left \subseteq request[r].parts
       /\ request[r].parts \subseteq Items(request[r].models)
       /\ request[r].phase = "new" => request[r].models = <<>>
       /\ request[r].phase \in {"new", "features"} => request[r].parts = {}

\* Only a batcher that sleeps has a batch.
BatchersOK ==
  /\ batchers \in Seq(Batcher)
  /\ \A b \in DOMAIN batchers : batchers[b].stage # "sleeping" => batchers[b].batch = <<>>

TableOK == table \in [Addresses -> {0} \cup DOMAIN batchers]
ResultsOK == answers \in [Requests -> SUBSET Answer] /\ explained \in [Requests -> SUBSET Models]
CountsOK == swaps \in 0..MaxSwaps /\ faults \in 0..MaxFaults

TypeInv == CurrentOK /\ CallsOK /\ BatchersOK /\ TableOK /\ ResultsOK /\ CountsOK

\* The batchers that have been made are numbered from 1.
LEMMA BatcherNumbers ==
  ASSUME TypeInv
  PROVE  /\ Len(batchers) \in Nat /\ DOMAIN batchers = 1..Len(batchers) /\ 0 \notin DOMAIN batchers
         /\ \A b \in DOMAIN batchers : /\ batchers[b] \in Batcher
                                       /\ Holds(b) \in Seq(Job)
<1>1. /\ batchers \in Seq(Batcher) /\ Len(batchers) \in Nat
      /\ DOMAIN batchers = 1..Len(batchers) /\ 0 \notin DOMAIN batchers
  BY DEF TypeInv, BatchersOK
<1>2. ASSUME NEW b \in DOMAIN batchers PROVE batchers[b] \in Batcher /\ Holds(b) \in Seq(Job)
  <2>1. batchers[b] \in Batcher
    BY <1>1, <1>2, ElementOfSeq
  <2>2. batchers[b].batch \in Seq(Job) /\ batchers[b].queue \in Seq(Job)
    BY <2>1 DEF Batcher
  <2> QED
    BY <2>1, <2>2, ConcatProperties DEF Holds
<1> QED
  BY <1>1, <1>2

\* What Take does: a job goes from the queue to the batch.
LEMMA TakeMoves ==
  ASSUME TypeInv, NEW b, Take(b)
  PROVE  /\ b \in DOMAIN batchers /\ batchers' \in Seq(Batcher)
         /\ DOMAIN batchers' = DOMAIN batchers
         /\ \A c \in DOMAIN batchers : c # b => batchers'[c] = batchers[c]
         /\ batchers[b].stage = "waiting" /\ batchers'[b].stage = "sleeping"
         /\ batchers'[b].model = batchers[b].model
         /\ Holds(b)' = Holds(b) /\ Holds(b) # <<>>
         /\ Len(batchers'[b].batch) = 1
<1> DEFINE this == batchers[b]
           that == [this EXCEPT !.stage = "sleeping", !.batch = <<Head(this.queue)>>,
                                !.queue = Tail(this.queue)]
<1>1. /\ b \in DOMAIN batchers /\ this.stage = "waiting" /\ this.queue # <<>>
      /\ batchers' = [batchers EXCEPT ![b] = that]
  BY DEF Take
<1>2. this \in Batcher /\ DOMAIN batchers = 1..Len(batchers) /\ batchers \in Seq(Batcher)
  BY <1>1, BatcherNumbers DEF TypeInv, BatchersOK
<1>3. this.queue \in Seq(Job) /\ this.batch = <<>>
  BY <1>1, <1>2 DEF TypeInv, BatchersOK, Batcher
<1> DEFINE q == this.queue
<1>4. <<Head(q)>> \in Seq(Job) /\ Tail(q) \in Seq(Job) /\ <<Head(q)>> \o Tail(q) = q
  BY <1>1, <1>3, HeadAndTail
<1>5. <<>> \o q = q
  BY <1>3, ConcatEmptySeq
<1>6. that \in Batcher
  BY <1>2, <1>4 DEF Batcher
<1>7. batchers' \in Seq(Batcher) /\ DOMAIN batchers' = DOMAIN batchers /\ batchers'[b] = that
  <2> HIDE DEF that, this
  <2> QED
    BY <1>1, <1>2, <1>6
<1>8. \A c \in DOMAIN batchers : c # b => batchers'[c] = batchers[c]
  BY <1>1
<1>9. /\ that.stage = "sleeping" /\ that.model = this.model
      /\ that.batch = <<Head(q)>> /\ that.queue = Tail(q)
  BY <1>2 DEF Batcher
<1>10. Holds(b)' = q /\ Holds(b) = q
  <2>1. batchers'[b].batch = <<Head(q)>> /\ batchers'[b].queue = Tail(q)
    BY <1>7, <1>9
  <2> QED
    BY <1>3, <1>4, <1>5, <2>1 DEF Holds
<1>11. Len(batchers'[b].batch) = 1
  <2>1. batchers'[b].batch = <<Head(q)>>
    BY <1>7, <1>9
  <2> QED
    BY <2>1
<1> QED
  BY <1>1, <1>7, <1>8, <1>9, <1>10, <1>11

\* The answers once b has run for the jobs in full.
AnswersAfter(full, b, ok) ==
  [r \in Requests |-> answers[r] \cup {[of |-> j.model, by |-> batchers[b].model, ok |-> ok] :
                                         j \in {i \in Items(full) : i.request = r}}]

\* What Infer does: the jobs in front are answered, the others stay.
LEMMA InferMoves ==
  ASSUME TypeInv, NEW b, NEW ok \in BOOLEAN, Infer(b, ok)
  PROVE  /\ b \in DOMAIN batchers /\ batchers' \in Seq(Batcher)
         /\ DOMAIN batchers' = DOMAIN batchers
         /\ \A c \in DOMAIN batchers : c # b => batchers'[c] = batchers[c]
         /\ batchers[b].stage = "sleeping" /\ batchers'[b].stage \in {"waiting", "sleeping"}
         /\ batchers'[b].model = batchers[b].model
         /\ batchers'[b].stage = "waiting" => Holds(b)' = <<>> /\ batchers'[b].batch = <<>>
         /\ batchers'[b].stage = "sleeping" => Len(batchers'[b].batch) = 1
         /\ \E full \in Seq(Job) :
              /\ Len(full) \in Len(batchers[b].batch)..(Len(batchers[b].batch) + (MaxBatch - 1))
              /\ Holds(b) = full \o Holds(b)'
              /\ answers' = AnswersAfter(full, b, ok)
<1> DEFINE this == batchers[b]
           q == this.queue
           n == IF Len(q) < MaxBatch - 1 THEN Len(q) ELSE MaxBatch - 1
           first == SubSeq(q, 1, n)
           rest == SubSeq(q, n + 1, Len(q))
           that == IF rest = <<>>
               THEN [this EXCEPT !.stage = "waiting", !.batch = <<>>, !.queue = <<>>]
               ELSE [this EXCEPT !.batch = <<Head(rest)>>, !.queue = Tail(rest)]
<1>1. /\ b \in DOMAIN batchers /\ this.stage = "sleeping"
      /\ batchers' = [batchers EXCEPT ![b] = that]
      /\ answers' = AnswersAfter(this.batch \o first, b, ok)
  BY DEF Infer, AnswersAfter
<1>2. this \in Batcher /\ DOMAIN batchers = 1..Len(batchers) /\ batchers \in Seq(Batcher)
  BY <1>1, BatcherNumbers DEF TypeInv, BatchersOK
<1>3. q \in Seq(Job) /\ this.batch \in Seq(Job)
  BY <1>2 DEF Batcher
<1>4. Len(q) \in Nat /\ n \in 0..Len(q) /\ n \in Nat /\ n <= MaxBatch - 1
  <2>1. MaxBatch \in Nat /\ MaxBatch >= 1
    BY BatcherAssumption
  <2> HIDE DEF q
  <2> QED
    BY <1>3, <2>1
<1> HIDE DEF n
<1>5. first \in Seq(Job) /\ rest \in Seq(Job) /\ q = first \o rest
  BY <1>3, <1>4, CutInTwo
<1>a. Len(first) = n
  BY <1>3, <1>4
<1> HIDE DEF first, rest
<1>6. rest # <<>> => /\ <<Head(rest)>> \in Seq(Job) /\ Tail(rest) \in Seq(Job)
                     /\ <<Head(rest)>> \o Tail(rest) = rest
  BY <1>5, HeadAndTail
<1>7. that \in Batcher /\ that.model = this.model /\ that.batch \o that.queue = rest
  <2>1. CASE rest = <<>>
    <3>1. /\ that = [this EXCEPT !.stage = "waiting", !.batch = <<>>, !.queue = <<>>]
          /\ <<>> \in Seq(Job) /\ <<>> \o rest = rest
      BY <1>5, <2>1, ConcatEmptySeq
    <3> QED
      BY <1>2, <2>1, <3>1 DEF Batcher
  <2>2. CASE rest # <<>>
    <3>1. that = [this EXCEPT !.batch = <<Head(rest)>>, !.queue = Tail(rest)]
      BY <2>2
    <3>2. that.batch = <<Head(rest)>> /\ that.queue = Tail(rest)
      BY <1>2, <3>1 DEF Batcher
    <3> HIDE DEF that
    <3>3. that.batch \o that.queue = rest
      BY <1>6, <2>2, <3>2
    <3> QED
      BY <1>2, <1>6, <2>2, <3>1, <3>3 DEF Batcher
  <2> QED
    BY <2>1, <2>2
<1>9. /\ that.stage \in {"waiting", "sleeping"}
      /\ that.stage = "waiting" => rest = <<>> /\ that.batch = <<>>
  BY <1>1, <1>2 DEF Batcher
<1>b. that.stage = "sleeping" => Len(that.batch) = 1
  <2>1. CASE rest = <<>>
    <3>1. that.stage = "waiting"
      BY <1>2, <2>1 DEF Batcher
    <3> HIDE DEF that
    <3> QED
      BY <3>1
  <2>2. CASE rest # <<>>
    <3>1. that.batch = <<Head(rest)>>
      BY <1>2, <2>2 DEF Batcher
    <3> HIDE DEF that
    <3> QED
      BY <3>1
  <2> QED
    BY <2>1, <2>2
<1>10. batchers' \in Seq(Batcher) /\ DOMAIN batchers' = DOMAIN batchers /\ batchers'[b] = that
  <2> HIDE DEF that, this
  <2> QED
    BY <1>1, <1>2, <1>7
<1>11. \A c \in DOMAIN batchers : c # b => batchers'[c] = batchers[c]
  BY <1>1
<1>12. Holds(b)' = rest
  BY <1>7, <1>10 DEF Holds
<1>13. this.batch \o first \in Seq(Job) /\ Holds(b) = (this.batch \o first) \o rest
  <2>1. Holds(b) = this.batch \o (first \o rest)
    BY <1>5 DEF Holds
  <2>2. (this.batch \o first) \o rest = this.batch \o (first \o rest)
    <3> DEFINE u == this.batch
    <3>1. u \in Seq(Job) /\ first \in Seq(Job) /\ rest \in Seq(Job)
      BY <1>3, <1>5
    <3> HIDE DEF u
    <3>2. (u \o first) \o rest = u \o (first \o rest)
      BY <3>1, ConcatAssociative
    <3> QED
      BY <3>2 DEF u
  <2>3. this.batch \o first \in Seq(Job)
    BY <1>3, <1>5, ConcatProperties
  <2> QED
    BY <2>1, <2>2, <2>3
<1>14. Len(this.batch \o first) \in Len(this.batch)..(Len(this.batch) + (MaxBatch - 1))
  <2>1. Len(this.batch \o first) = Len(this.batch) + Len(first)
    BY <1>3, <1>5, ConcatProperties
  <2>2. Len(this.batch) \in Nat /\ Len(first) \in Nat /\ MaxBatch \in Nat
    BY <1>3, <1>5, LenProperties, BatcherAssumption
  <2> QED
    BY <1>4, <1>a, <2>1, <2>2
<1>15. PICK full \in Seq(Job) : full = this.batch \o first
  BY <1>13
<1>16. /\ Len(full) \in Len(this.batch)..(Len(this.batch) + (MaxBatch - 1))
       /\ Holds(b) = full \o Holds(b)' /\ answers' = AnswersAfter(full, b, ok)
  BY <1>1, <1>12, <1>13, <1>14, <1>15
<1>17. batchers'[b].stage = "waiting" => Holds(b)' = <<>> /\ batchers'[b].batch = <<>>
  BY <1>9, <1>10, <1>12
<1> HIDE DEF that
<1> QED
  BY <1>1, <1>7, <1>9, <1>b, <1>10, <1>11, <1>16, <1>17

\* The batchers _get_batcher cancels: those of models the request has not read.
Others(r) == {table[a] : a \in Addresses \ ActiveIds(r)}

NewJob(r, m) == [request |-> r, model |-> m]

\* The batcher that is in the table for m after _get_batcher gets the job, the
\* others are cancelled or left alone.
LEMMA SubmitMoves ==
  ASSUME TypeInv, NEW r \in Requests, NEW m \in request[r].left, Submit(r, m)
  PROVE  /\ m \in Models /\ m.id \in ActiveIds(r) /\ NewJob(r, m) \in Job
         /\ batchers' \in Seq(Batcher) /\ DOMAIN batchers \subseteq DOMAIN batchers'
         /\ \A b \in DOMAIN batchers :
              /\ batchers'[b].model = batchers[b].model /\ batchers'[b].batch = batchers[b].batch
              /\ batchers'[b].stage = IF b \in Others(r) /\ batchers[b].stage = "waiting"
                                        THEN "ended" ELSE batchers[b].stage
         /\ \A a \in Addresses \ {m.id} : table'[a] = IF a \in ActiveIds(r) THEN table[a] ELSE 0
         /\ table'[m.id] \in DOMAIN batchers'
         /\ \A b \in DOMAIN batchers' :
              b # table'[m.id] => b \in DOMAIN batchers /\ Holds(b)' = Holds(b)
         /\ \/ /\ table[m.id] \in DOMAIN batchers /\ table'[m.id] = table[m.id]
               /\ \A b \in DOMAIN batchers :
                    b = table[m.id] => Holds(b)' = Append(Holds(b), NewJob(r, m))
            \/ /\ table[m.id] = 0 /\ table'[m.id] \notin DOMAIN batchers
               /\ table'[m.id] = Len(batchers) + 1 /\ Len(batchers') = Len(batchers) + 1
               /\ batchers'[table'[m.id]] =
                    [model |-> m, stage |-> "waiting", queue |-> <<NewJob(r, m)>>, batch |-> <<>>]
         /\ table' \in [Addresses -> {0} \cup DOMAIN batchers']
<1> DEFINE job == NewJob(r, m)
           after == [b \in DOMAIN batchers |->
                       IF b \in Others(r) THEN Cancelled(batchers[b]) ELSE batchers[b]]
           new == [model |-> m, stage |-> "waiting", queue |-> <<job>>, batch |-> <<>>]
<1>0. /\ Len(batchers) \in Nat /\ DOMAIN batchers = 1..Len(batchers) /\ batchers \in Seq(Batcher)
      /\ 0 \notin DOMAIN batchers
      /\ \A b \in DOMAIN batchers : batchers[b] \in Batcher /\ Holds(b) \in Seq(Job)
  BY BatcherNumbers DEF TypeInv, BatchersOK
<1>m. m \in Models /\ m \in Items(request[r].models)
  BY DEF TypeInv, CallsOK, Call
<1>i. m.id \in Addresses /\ m.id \in ActiveIds(r) /\ job \in Job
  BY <1>m DEF Models, ActiveIds, Job, NewJob
<1>k. /\ Kept(r) \in [Addresses -> {0} \cup DOMAIN batchers]
      /\ \A a \in Addresses : Kept(r)[a] = IF a \in ActiveIds(r) THEN table[a] ELSE 0
      /\ Kept(r)[m.id] = table[m.id]
  BY <1>i DEF Kept, TypeInv, TableOK
<1>c. \A x \in Batcher : /\ Cancelled(x) \in Batcher
                         /\ Cancelled(x).model = x.model /\ Cancelled(x).batch = x.batch
                         /\ Cancelled(x).queue = x.queue
                         /\ Cancelled(x).stage = IF x.stage = "waiting" THEN "ended" ELSE x.stage
  BY DEF Cancelled, Batcher
<1>a. /\ after \in Seq(Batcher) /\ Len(after) = Len(batchers) /\ DOMAIN after = DOMAIN batchers
      /\ \A b \in DOMAIN batchers :
           /\ after[b] \in Batcher
           /\ after[b].model = batchers[b].model /\ after[b].batch = batchers[b].batch
           /\ after[b].queue = batchers[b].queue
           /\ after[b].stage = IF b \in Others(r) /\ batchers[b].stage = "waiting"
                                 THEN "ended" ELSE batchers[b].stage
  <2>1. after \in [1..Len(batchers) -> Batcher]
    BY <1>0, <1>c
  <2>2. \A b \in DOMAIN batchers :
           /\ after[b] \in Batcher
           /\ after[b].model = batchers[b].model /\ after[b].batch = batchers[b].batch
           /\ after[b].queue = batchers[b].queue
           /\ after[b].stage = IF b \in Others(r) /\ batchers[b].stage = "waiting"
                                 THEN "ended" ELSE batchers[b].stage
    BY <1>0, <1>c
  <2> HIDE DEF after
  <2> QED
    BY <1>0, <2>1, <2>2
<1>s. IF table[m.id] # 0
        THEN /\ batchers' = [after EXCEPT ![table[m.id]].queue = Append(@, job)]
             /\ table' = Kept(r)
        ELSE /\ batchers' = Append(after, new)
             /\ table' = [Kept(r) EXCEPT ![m.id] = Len(batchers) + 1]
  BY <1>k DEF Submit, Others, NewJob
<1> HIDE DEF after
<1>1. CASE table[m.id] # 0
  <2>1. PICK h \in DOMAIN batchers : h = table[m.id]
    BY <1>i, <1>k, <1>1
  <2>t. table' = Kept(r)
    BY <1>s, <1>1
  <2>2. batchers' = [after EXCEPT ![h] = [after[h] EXCEPT !.queue = Append(after[h].queue, job)]]
    BY <1>a, <1>s, <1>1, <2>1
  <2> DEFINE that == [after[h] EXCEPT !.queue = Append(after[h].queue, job)]
  <2>3. /\ that \in Batcher /\ that.model = after[h].model /\ that.stage = after[h].stage
        /\ that.batch = after[h].batch /\ that.queue = Append(after[h].queue, job)
    <3>1. after[h] \in Batcher
      BY <1>a, <2>1
    <3>2. Append(after[h].queue, job) \in Seq(Job)
      BY <1>i, <3>1 DEF Batcher
    <3> QED
      BY <3>1, <3>2 DEF Batcher
  <2> HIDE DEF that
  <2>4. /\ batchers' \in Seq(Batcher) /\ DOMAIN batchers' = DOMAIN batchers
        /\ batchers'[h] = that /\ \A b \in DOMAIN batchers : b # h => batchers'[b] = after[b]
    <3>1. batchers' = [after EXCEPT ![h] = that]
      BY <2>2 DEF that
    <3> QED
      BY <1>0, <1>a, <2>1, <2>3, <3>1
  <2>5. Holds(h)' = Append(Holds(h), job)
    <3>1. batchers'[h].batch = batchers[h].batch /\ batchers'[h].queue = Append(batchers[h].queue, job)
      BY <1>a, <2>1, <2>3, <2>4
    <3>2. batchers[h].batch \in Seq(Job) /\ batchers[h].queue \in Seq(Job)
      BY <1>0, <2>1 DEF Batcher
    <3> DEFINE u == batchers[h].batch
               q == batchers[h].queue
    <3>3. u \in Seq(Job) /\ q \in Seq(Job) /\ job \in Job
      BY <1>i, <3>2
    <3> HIDE DEF u, q
    <3>4. u \o Append(q, job) = Append(u \o q, job)
      BY <3>3, ConcatAppend
    <3> QED
      BY <3>1, <3>4 DEF u, q, Holds
  <2>6. \A b \in DOMAIN batchers : b # h => Holds(b)' = Holds(b)
    BY <1>a, <2>4 DEF Holds
  <2>7. \A b \in DOMAIN batchers :
              /\ batchers'[b].model = batchers[b].model /\ batchers'[b].batch = batchers[b].batch
              /\ batchers'[b].stage = IF b \in Others(r) /\ batchers[b].stage = "waiting"
                                        THEN "ended" ELSE batchers[b].stage
    BY <1>a, <2>1, <2>3, <2>4
  <2> QED
    BY <1>i, <1>k, <1>m, <2>1, <2>t, <2>4, <2>5, <2>6, <2>7
<1>2. CASE table[m.id] = 0
  <2> DEFINE n == Len(batchers) + 1
  <2>1. batchers' = Append(after, new) /\ table' = [Kept(r) EXCEPT ![m.id] = n]
    BY <1>s, <1>2
  <2>2. new \in Batcher
    <3>1. <<job>> \in Seq(Job) /\ <<>> \in Seq(Job)
      BY <1>i
    <3> QED
      BY <1>m, <3>1 DEF Batcher
  <2>3. /\ batchers' \in Seq(Batcher) /\ Len(batchers') = n /\ DOMAIN batchers' = 1..n
        /\ batchers'[n] = new /\ \A b \in DOMAIN batchers : batchers'[b] = after[b]
    <3> HIDE DEF new
    <3> QED
      BY <1>0, <1>a, <2>1, <2>2
  <2>4. /\ table' \in [Addresses -> {0} \cup DOMAIN batchers'] /\ table'[m.id] = n
        /\ \A a \in Addresses \ {m.id} : table'[a] = Kept(r)[a]
    BY <1>0, <1>i, <1>k, <2>1, <2>3
  <2>5. \A b \in DOMAIN batchers : Holds(b)' = Holds(b)
    BY <1>a, <2>3 DEF Holds
  <2>6. \A b \in DOMAIN batchers :
              /\ batchers'[b].model = batchers[b].model /\ batchers'[b].batch = batchers[b].batch
              /\ batchers'[b].stage = IF b \in Others(r) /\ batchers[b].stage = "waiting"
                                        THEN "ended" ELSE batchers[b].stage
    BY <1>a, <2>3
  <2>7. /\ n \notin DOMAIN batchers /\ n \in DOMAIN batchers'
        /\ \A b \in DOMAIN batchers' : b # n => b \in DOMAIN batchers
        /\ DOMAIN batchers \subseteq DOMAIN batchers'
    BY <1>0, <2>3
  <2> HIDE DEF n
  <2> QED
    BY <1>i, <1>k, <1>m, <1>2, <2>3, <2>4, <2>5, <2>6, <2>7 DEF n
<1> QED
  BY <1>1, <1>2

\* Initially no request has come and no batcher is made.
LEMMA TypeInvInit == Init => TypeInv
<1> SUFFICES ASSUME Init PROVE TypeInv
  OBVIOUS
<1>1. CurrentOK
  <2>1. PICK a \in Addresses, b \in Addresses \cup {0} :
          current = IF b \in Addresses \ {a} THEN <<[id |-> a, born |-> 0], [id |-> b, born |-> 0]>>
                                             ELSE <<[id |-> a, born |-> 0]>>
    BY DEF Init
  <2>2. [id |-> a, born |-> 0] \in Models /\ (b \in Addresses => [id |-> b, born |-> 0] \in Models)
    BY BatcherAssumption DEF Models
  <2> QED
    BY <2>1, <2>2 DEF CurrentOK
<1>2. CallsOK
  <2>1. New \in Call
    BY DEF New, Call
  <2> QED
    BY <2>1 DEF Init, CallsOK, New
<1>3. BatchersOK /\ TableOK /\ ResultsOK /\ CountsOK
  BY BatcherAssumption DEF Init, BatchersOK, TableOK, ResultsOK, CountsOK
<1> QED
  BY <1>1, <1>2, <1>3 DEF TypeInv

\* A model of the handle is a model.
LEMMA CurrentItems == CurrentOK => Items(current) \subseteq Models
  BY DEF CurrentOK, Items

\* A swap puts one or two models in place, of those there or at free addresses.
LEMMA SwapMoves ==
  ASSUME TypeInv, Swap
  PROVE  /\ CurrentOK' /\ CountsOK'
         /\ \A m \in Items(current)' : \/ m \in Items(current)
                                      \/ /\ m.born = swaps + 1
                                         /\ m.id \notin {n.id : n \in Referenced}
<1> DEFINE Fresh == {[id |-> a, born |-> swaps + 1] : a \in Addresses \ {m.id : m \in Referenced}}
           From == Items(current) \cup Fresh
<1>1. swaps \in 0..MaxSwaps /\ swaps < MaxSwaps /\ swaps' = swaps + 1 /\ faults' = faults
  BY DEF Swap, TypeInv, CountsOK
<1>2. swaps + 1 \in 0..MaxSwaps
  BY <1>1, BatcherAssumption
<1>3. From \subseteq Models
  BY <1>2, CurrentItems DEF Models, TypeInv
<1>4. PICK new \in {<<m>> : m \in From} \cup {<<m, n>> : m, n \in From} : current' = new
  BY DEF Swap
<1>5. /\ current' \in Seq(Models) /\ Len(current') \in {1, 2}
      /\ \A m \in Items(current)' : m \in From
  <2> HIDE DEF From
  <2>1. CASE new \in {<<m>> : m \in From}
    <3>1. PICK m \in From : current' = <<m>>
      BY <1>4, <2>1
    <3> QED
      BY <1>3, <3>1 DEF Items
  <2>2. CASE new \in {<<m, n>> : m, n \in From}
    <3>1. PICK m \in From, n \in From : current' = <<m, n>>
      BY <1>4, <2>2
    <3> QED
      BY <1>3, <3>1 DEF Items
  <2> QED
    BY <2>1, <2>2
<1>6. \A m \in From : \/ m \in Items(current)
                      \/ m.born = swaps + 1 /\ m.id \notin {n.id : n \in Referenced}
  OBVIOUS
<1> QED
  BY <1>1, <1>2, <1>5, <1>6 DEF CurrentOK, CountsOK, TypeInv

\* The steps of a request that ask no batcher leave what it has handed over.
CallsKept ==
  \A r \in Requests :
    /\ request'[r].parts \ request'[r].left = request[r].parts \ request[r].left
    /\ request[r].models # <<>> => request'[r].models = request[r].models
    /\ InFlight(r)' /\ ~InFlight(r) => request'[r].models = current
    /\ InFlight(r)' /\ InFlight(r) => request'[r].models = request[r].models

\* A request that is received has the models of the handle.
LEMMA CallMoves ==
  ASSUME TypeInv, UpdateMetrics \/ \E r \in Requests : Receive(r) \/ Pick(r) \/ Complete(r)
  PROVE  CallsOK' /\ CallsKept
<1> USE DEF TypeInv, CallsOK
<1>1. CASE UpdateMetrics
  <2>1. request' \in [Requests -> Call]
    BY <1>1 DEF UpdateMetrics, Call
  <2>2. \A r \in Requests :
          /\ request'[r].phase = request[r].phase /\ request'[r].models = request[r].models
          /\ request'[r].parts = request[r].parts /\ request'[r].left = request[r].left
    BY <1>1 DEF UpdateMetrics, Call
  <2> QED
    BY <2>1, <2>2 DEF CallsKept, InFlight
<1>2. ASSUME NEW r \in Requests, Receive(r) PROVE CallsOK' /\ CallsKept
  <2> DEFINE that == [request[r] EXCEPT !.phase = "features", !.models = current]
  <2>a. request' = [request EXCEPT ![r] = that] /\ request[r].phase = "new" /\ request[r] \in Call
    BY <1>2 DEF Receive
  <2>b. /\ that \in Call /\ that.phase = "features" /\ that.models = current
        /\ that.parts = request[r].parts /\ that.left = request[r].left
    BY <2>a DEF Call, CurrentOK
  <2> HIDE DEF that
  <2>1. request' \in [Requests -> Call] /\ request'[r] = that
    BY <2>a, <2>b
  <2>2. /\ request[r].phase = "new" /\ request'[r].phase = "features" /\ request'[r].models = current
        /\ request'[r].parts = request[r].parts /\ request'[r].left = request[r].left
        /\ request[r].parts = {} /\ request[r].models = <<>>
    BY <2>a, <2>b, <2>1
  <2>3. \A q \in Requests : q # r => request'[q] = request[q]
    BY <1>2 DEF Receive
  <2> QED
    BY <2>1, <2>2, <2>3 DEF CallsKept, InFlight
<1>3. ASSUME NEW r \in Requests, Pick(r) PROVE CallsOK' /\ CallsKept
  <2>1. PICK P \in IF Shadows(r) THEN {Items(request[r].models)}
                                 ELSE {{m} : m \in Items(request[r].models)} :
          request' = [request EXCEPT ![r].phase = "scoring", ![r].parts = P, ![r].left = P]
    BY <1>3 DEF Pick
  <2>2. P \subseteq Items(request[r].models)
    OBVIOUS
  <2>3. Items(request[r].models) \subseteq Models
    BY DEF Items, Call
  <2> DEFINE that == [request[r] EXCEPT !.phase = "scoring", !.parts = P, !.left = P]
  <2>a. request' = [request EXCEPT ![r] = that] /\ request[r].phase = "features" /\ request[r] \in Call
    BY <1>3, <2>1 DEF Pick
  <2>b. /\ that \in Call /\ that.phase = "scoring" /\ that.models = request[r].models
        /\ that.parts = P /\ that.left = P
    BY <2>2, <2>3, <2>a DEF Call
  <2> HIDE DEF that
  <2>4. request' \in [Requests -> Call] /\ request'[r] = that
    BY <2>a, <2>b
  <2>5. /\ request[r].phase = "features" /\ request'[r].phase = "scoring"
        /\ request'[r].models = request[r].models
        /\ request'[r].parts = P /\ request'[r].left = P /\ request[r].parts = {}
    BY <2>a, <2>b, <2>4
  <2>6. \A q \in Requests : q # r => request'[q] = request[q]
    BY <2>1
  <2> QED
    BY <2>2, <2>4, <2>5, <2>6 DEF CallsKept, InFlight
<1>4. ASSUME NEW r \in Requests, Complete(r) PROVE CallsOK' /\ CallsKept
  <2>1. PICK p \in {"answered", "failed"} : request' = [request EXCEPT ![r].phase = p]
    BY <1>4 DEF Complete
  <2> DEFINE that == [request[r] EXCEPT !.phase = p]
  <2>a. request' = [request EXCEPT ![r] = that] /\ request[r] \in Call
    BY <2>1
  <2>b. that \in Call
    BY <2>a DEF Call
  <2> HIDE DEF that
  <2>2. request' \in [Requests -> Call]
    BY <2>a, <2>b
  <2>3. /\ request'[r].phase = p /\ request'[r].models = request[r].models
        /\ request'[r].parts = request[r].parts /\ request'[r].left = request[r].left
        /\ request[r].phase = "scoring"
    BY <1>4, <2>1 DEF Complete, Call
  <2>4. \A q \in Requests : q # r => request'[q] = request[q]
    BY <2>1
  <2> QED
    BY <2>2, <2>3, <2>4 DEF CallsKept, InFlight
<1> QED
  BY <1>1, <1>2, <1>3, <1>4

\* The model of a SHAP task is a model.
LEMMA CompleteExplains ==
  ASSUME TypeInv, NEW r \in Requests, Complete(r)
  PROVE  ResultsOK'
<1> USE DEF TypeInv, CallsOK
<1>1. request[r].models \in Seq(Models) /\ request[r].parts \subseteq Models
  BY DEF Call
<1>2. Items(request[r].models) \subseteq Models
  BY <1>1 DEF Items
<1>3. Shadows(r) => request[r].models[2] \in Models
  BY <1>1 DEF Shadows
<1>4. CASE explained' = explained
  BY <1>4 DEF Complete, ResultsOK
<1>5. CASE explained' # explained
  <2>1. PICK m \in IF Shadows(r) THEN {request[r].models[2]}
                    ELSE IF request[r].moved THEN Items(request[r].models)
                    ELSE request[r].parts : explained' = [explained EXCEPT ![r] = {m}]
    BY <1>5 DEF Complete
  <2>2. m \in Models
    BY <1>1, <1>2, <1>3
  <2> QED
    BY <2>1, <2>2 DEF Complete, ResultsOK
<1> QED
  BY <1>4, <1>5

\* What Submit does to its request: one part less is left.
LEMMA SubmitCalls ==
  ASSUME TypeInv, NEW r \in Requests, NEW m \in request[r].left, Submit(r, m)
  PROVE  /\ CallsOK' /\ InFlight(r)
         /\ \A q \in Requests :
              /\ request'[q].models = request[q].models /\ InFlight(q)' = InFlight(q)
              /\ request'[q].parts = request[q].parts
              /\ request'[q].left = IF q = r THEN request[q].left \ {m} ELSE request[q].left
<1> USE DEF TypeInv, CallsOK
<1> DEFINE that == [request[r] EXCEPT !.left = @ \ {m}]
<1>1. /\ request' = [request EXCEPT ![r] = that] /\ request[r].phase = "scoring"
      /\ request[r] \in Call
  BY DEF Submit
<1>2. /\ that \in Call /\ that.phase = request[r].phase /\ that.models = request[r].models
      /\ that.parts = request[r].parts /\ that.left = request[r].left \ {m}
  BY <1>1 DEF Call
<1> HIDE DEF that
<1>3. request' \in [Requests -> Call] /\ request'[r] = that
  BY <1>1, <1>2
<1>4. \A q \in Requests : q # r => request'[q] = request[q]
  BY <1>1
<1>5. \A q \in Requests :
        /\ request'[q].models = request[q].models /\ request'[q].phase = request[q].phase
        /\ request'[q].parts = request[q].parts
        /\ request'[q].left = IF q = r THEN request[q].left \ {m} ELSE request[q].left
  BY <1>2, <1>3, <1>4
<1> QED
  BY <1>1, <1>3, <1>5 DEF InFlight

\* A result is of a model, by a model.
LEMMA InferAnswers ==
  ASSUME TypeInv, NEW b, NEW ok \in BOOLEAN, Infer(b, ok)
  PROVE  ResultsOK' /\ CountsOK'
<1>1. PICK full \in Seq(Job) : answers' = AnswersAfter(full, b, ok)
  BY InferMoves
<1>2. b \in DOMAIN batchers /\ batchers[b].model \in Models
  <2>1. b \in DOMAIN batchers
    BY DEF Infer
  <2> QED
    BY <2>1, BatcherNumbers DEF Batcher
<1>3. Items(full) \subseteq Job
  BY DEF Items
<1>4. \A r \in Requests :
        {[of |-> j.model, by |-> batchers[b].model, ok |-> ok] :
                      j \in {i \in Items(full) : i.request = r}} \subseteq Answer
  BY <1>2, <1>3 DEF Job, Answer
<1>5. answers' \in [Requests -> SUBSET Answer]
  <2> HIDE DEF Answer
  <2>1. \A r \in Requests : answers[r] \subseteq Answer
    BY DEF TypeInv, ResultsOK
  <2>2. ASSUME NEW r \in Requests
        PROVE  (answers[r] \cup {[of |-> j.model, by |-> batchers[b].model, ok |-> ok] :
                      j \in {i \in Items(full) : i.request = r}}) \in SUBSET Answer
    BY <1>4, <2>1
  <2> QED
    BY <1>1, <2>2 DEF AnswersAfter
<1>6. faults' \in 0..MaxFaults /\ UNCHANGED <<swaps, explained>>
  <2>1. /\ faults \in 0..MaxFaults /\ (ok \/ faults < MaxFaults)
        /\ faults' = IF ok THEN faults ELSE faults + 1
    BY DEF Infer, TypeInv, CountsOK
  <2> QED
    BY <2>1, BatcherAssumption DEF Infer
<1> QED
  BY <1>5, <1>6 DEF TypeInv, ResultsOK, CountsOK

\* The steps of requests and swaps that leave the batchers alone.
Beside ==
  \/ Swap \/ UpdateMetrics \/ UNCHANGED vars
  \/ \E r \in Requests : Receive(r) \/ Pick(r) \/ Complete(r)

\* Every step is one of those, or asks a batcher, or is one of a batcher.
LEMMA StepKinds ==
  ASSUME [Next]_vars
  PROVE  \/ Beside
         \/ \E r \in Requests : \E m \in request[r].left : Submit(r, m)
         \/ \E b : Take(b)
         \/ \E b : \E ok \in BOOLEAN : Infer(b, ok)
  BY DEF Next, Score, Loop, Beside

\* They leave what is handed over, and every request keeps the models it has read.
LEMMA BesideMoves ==
  ASSUME TypeInv, Beside
  PROVE  TypeInv' /\ CallsKept /\ UNCHANGED <<batchers, table, answers>>
<1> USE DEF TypeInv
<1>1. CASE Swap
  <2>1. UNCHANGED <<request, batchers, table, answers, explained>> /\ CurrentOK' /\ CountsOK'
    BY <1>1, SwapMoves DEF Swap
  <2> QED
    BY <2>1 DEF CallsOK, BatchersOK, TableOK, ResultsOK, CallsKept, InFlight
<1>2. CASE UNCHANGED vars
  BY <1>2 DEF vars, CurrentOK, CallsOK, BatchersOK, TableOK, ResultsOK, CountsOK, CallsKept, InFlight
<1>3. CASE UpdateMetrics \/ \E r \in Requests : Receive(r) \/ Pick(r)
  <2>1. UNCHANGED <<current, batchers, table, answers, explained, swaps, faults>>
    BY <1>3 DEF UpdateMetrics, Receive, Pick
  <2>2. CallsOK' /\ CallsKept
    BY <1>3, CallMoves
  <2> QED
    BY <2>1, <2>2 DEF CurrentOK, BatchersOK, TableOK, ResultsOK, CountsOK
<1>4. ASSUME NEW r \in Requests, Complete(r)
      PROVE  TypeInv' /\ CallsKept /\ UNCHANGED <<batchers, table, answers>>
  <2>1. UNCHANGED <<current, batchers, table, answers, swaps, faults>>
    BY <1>4 DEF Complete
  <2>2. CallsOK' /\ CallsKept
    BY <1>4, CallMoves
  <2>3. ResultsOK'
    BY <1>4, CompleteExplains
  <2> QED
    BY <2>1, <2>2, <2>3 DEF CurrentOK, BatchersOK, TableOK, CountsOK
<1> QED
  BY <1>1, <1>2, <1>3, <1>4 DEF Beside

\* Every step keeps the types.
LEMMA TypeInvStep == TypeInv /\ [Next]_vars => TypeInv'
<1> SUFFICES ASSUME TypeInv, [Next]_vars PROVE TypeInv'
  OBVIOUS
<1>1. CASE Beside
  BY <1>1, BesideMoves
<1>2. ASSUME NEW r \in Requests, NEW m \in request[r].left, Submit(r, m) PROVE TypeInv'
  <2>1. CallsOK'
    BY <1>2, SubmitCalls
  <2>2. TableOK'
    BY <1>2, SubmitMoves DEF TableOK
  <2>3. UNCHANGED <<current, answers, explained, swaps, faults>>
    BY <1>2 DEF Submit
  <2>4. BatchersOK'
    <3>1. batchers' \in Seq(Batcher)
      BY <1>2, SubmitMoves
    <3>2. ASSUME NEW b \in DOMAIN batchers
          PROVE  /\ batchers'[b].batch = batchers[b].batch
                 /\ batchers'[b].stage # "sleeping" => batchers[b].stage # "sleeping"
      <4>1. /\ batchers'[b].batch = batchers[b].batch
            /\ batchers'[b].stage = IF b \in Others(r) /\ batchers[b].stage = "waiting"
                                     THEN "ended" ELSE batchers[b].stage
        BY <1>2, SubmitMoves
      <4> QED
        BY <4>1
    <3>3. ASSUME NEW b \in DOMAIN batchers', b \notin DOMAIN batchers
          PROVE  batchers'[b].batch = <<>>
      <4>1. b = table'[m.id]
        BY <1>2, <3>3, SubmitMoves
      <4>2. batchers'[table'[m.id]] =
              [model |-> m, stage |-> "waiting", queue |-> <<NewJob(r, m)>>, batch |-> <<>>]
        BY <1>2, <3>3, <4>1, SubmitMoves
      <4> QED
        BY <4>1, <4>2
    <3> QED
      BY <3>1, <3>2, <3>3 DEF TypeInv, BatchersOK
  <2> QED
    BY <2>1, <2>2, <2>3, <2>4 DEF TypeInv, CurrentOK, ResultsOK, CountsOK
<1>3. ASSUME NEW b, Take(b) PROVE TypeInv'
  <2>1. UNCHANGED <<current, request, table, answers, explained, swaps, faults>>
    BY <1>3 DEF Take
  <2>2. BatchersOK' /\ DOMAIN batchers' = DOMAIN batchers
    BY <1>3, TakeMoves DEF TypeInv, BatchersOK
  <2> QED
    BY <2>1, <2>2 DEF TypeInv, CurrentOK, CallsOK, TableOK, ResultsOK, CountsOK
<1>4. ASSUME NEW b, NEW ok \in BOOLEAN, Infer(b, ok) PROVE TypeInv'
  <2>1. UNCHANGED <<current, request, table>>
    BY <1>4 DEF Infer
  <2>2. ResultsOK' /\ CountsOK'
    BY <1>4, InferAnswers
  <2>3. BatchersOK' /\ DOMAIN batchers' = DOMAIN batchers
    <3>1. /\ batchers' \in Seq(Batcher) /\ DOMAIN batchers' = DOMAIN batchers
          /\ \A c \in DOMAIN batchers : c # b => batchers'[c] = batchers[c]
          /\ batchers'[b].stage \in {"waiting", "sleeping"}
          /\ batchers'[b].stage = "waiting" => batchers'[b].batch = <<>>
      BY <1>4, InferMoves
    <3> QED
      BY <3>1 DEF TypeInv, BatchersOK
  <2> QED
    BY <2>1, <2>2, <2>3 DEF TypeInv, CurrentOK, CallsOK, TableOK
<1> QED
  BY <1>1, <1>2, <1>3, <1>4, StepKinds

\* The type invariant of the worker.
THEOREM TypeAlways == Spec => []TypeOK
<1>1. TypeInv => TypeOK
  <2> SUFFICES ASSUME TypeInv PROVE TypeOK
    OBVIOUS
  <2>1. current \in Seq(Models) /\ Len(current) \in {1, 2}
    BY DEF TypeInv, CurrentOK
  <2>2. ASSUME NEW r \in Requests
        PROVE  /\ request[r].phase \in {"new", "features", "scoring", "answered", "failed"}
               /\ request[r].models \in Seq(Models) /\ request[r].moved \in BOOLEAN
               /\ request[r].left \subseteq request[r].parts
               /\ request[r].parts \subseteq Items(request[r].models)
               /\ answers[r] \subseteq [of : Models, by : Models, ok : BOOLEAN]
               /\ explained[r] \subseteq Models
    BY DEF TypeInv, CallsOK, Call, ResultsOK, Answer
  <2>3. ASSUME NEW b \in DOMAIN batchers
        PROVE  /\ batchers[b].model \in Models /\ Holds(b) \in Seq(Job)
               /\ batchers[b].stage \in {"waiting", "sleeping", "ended"}
    BY BatcherNumbers DEF Batcher
  <2>4. table \in [Addresses -> {0} \cup DOMAIN batchers] /\ swaps \in 0..MaxSwaps /\ faults \in 0..MaxFaults
    BY DEF TypeInv, TableOK, CountsOK
  <2> QED
    BY <2>1, <2>2, <2>3, <2>4 DEF TypeOK
<1> QED
  BY <1>1, TypeInvInit, TypeInvStep, PTL DEF Spec

-----------------------------------------------------------------------------
(* An address names one model.                                             *)

InTable(b) == \E a \in Addresses : table[a] = b

Live(b) == b \in DOMAIN batchers /\ (batchers[b].stage = "sleeping" \/ InTable(b))

\* What refers to a model: the handle, a request in flight, or a live batcher.
Refers(m) == \/ m \in Items(current)
             \/ \E r \in Requests : InFlight(r) /\ m \in Items(request[r].models)
             \/ \E b \in DOMAIN batchers : Live(b) /\ m = batchers[b].model

LEMMA ReferencedBy ==
  ASSUME NEW m
  PROVE  /\ m \in Referenced <=> Refers(m)
         /\ (m \in Referenced)' <=> Refers(m)'
<1>1. m \in Referenced <=> Refers(m)
  BY DEF Referenced, ReadModels, Refers, Live, InTable
<1>2. (m \in Referenced)' <=> Refers(m)'
  BY DEF Referenced, ReadModels, Refers, Live, InTable
<1> QED
  BY <1>1, <1>2

\* Two objects that something refers to are not at one address.
UniqueAddress == \A m, n \in Referenced : m.id = n.id => m = n

\* A batcher that waits and is not in the table holds nothing: only a batcher that
\* sleeps can be lost by the table and go on.
OrphansIdle ==
  \A b \in DOMAIN batchers : batchers[b].stage = "waiting" /\ ~InTable(b) => Holds(b) = <<>>

AddressInv == TableRuns /\ OrphansIdle /\ UniqueAddress

\* A step after which nothing else is referred to keeps addresses unique.
LEMMA FewerReferenced ==
  ASSUME UniqueAddress, \A m : (m \in Referenced)' => m \in Referenced
  PROVE  UniqueAddress'
  BY DEF UniqueAddress

\* Requests and swaps refer to models that are there, or at free addresses.
LEMMA AddressBeside ==
  ASSUME TypeInv, AddressInv, Beside
  PROVE  AddressInv'
<1> USE DEF AddressInv
<1>1. UNCHANGED <<batchers, table>> /\ CallsKept
  BY BesideMoves
<1>2. TableRuns' /\ OrphansIdle'
  BY <1>1 DEF TableRuns, OrphansIdle, InTable, Holds
<1>3. \A b \in DOMAIN batchers : Live(b)' => Live(b)
  BY <1>1 DEF Live, InTable
<1>4. ASSUME NEW m, (m \in Referenced)', (m \in Items(current))' => m \in Items(current)
      PROVE  m \in Referenced
  <2>1. \/ (m \in Items(current))'
        \/ (\E r \in Requests : InFlight(r) /\ m \in Items(request[r].models))'
        \/ (\E b \in DOMAIN batchers : Live(b) /\ m = batchers[b].model)'
    BY <1>4, ReferencedBy DEF Refers
  <2>2. CASE (m \in Items(current))'
    BY <1>4, <2>2, ReferencedBy DEF Refers
  <2>3. CASE (\E r \in Requests : InFlight(r) /\ m \in Items(request[r].models))'
    <3>1. PICK r \in Requests : InFlight(r)' /\ m \in Items(request'[r].models)
      BY <2>3 DEF Items
    <3>2. CASE InFlight(r)
      BY <1>1, <3>1, <3>2, ReferencedBy DEF Refers, CallsKept
    <3>3. CASE ~InFlight(r)
      BY <1>1, <3>1, <3>3, ReferencedBy DEF Refers, CallsKept
    <3> QED
      BY <3>2, <3>3
  <2>4. CASE (\E b \in DOMAIN batchers : Live(b) /\ m = batchers[b].model)'
    BY <1>1, <1>3, <2>4, ReferencedBy DEF Refers
  <2> QED
    BY <2>1, <2>2, <2>3, <2>4
<1>5. CASE Swap
  <2>1. \A m : (m \in Items(current))' => \/ m \in Items(current)
                                          \/ /\ m.born = swaps + 1
                                             /\ m.id \notin {n.id : n \in Referenced}
    BY <1>5, SwapMoves
  <2>2. ASSUME NEW m, (m \in Referenced)' PROVE m \in Referenced \/ (m \in Items(current))'
    BY <1>4, <2>2
  <2>3. ASSUME NEW m, NEW n, (m \in Referenced)', (n \in Referenced)', m.id = n.id PROVE m = n
    <3>1. CASE m \in Referenced /\ n \in Referenced
      BY <2>3, <3>1 DEF UniqueAddress
    <3>2. CASE m \notin Referenced \/ n \notin Referenced
      <4>1. \A x : x \in Items(current) => x \in Referenced
        BY ReferencedBy DEF Refers
      <4>2. \A x : (x \in Referenced)' /\ x \notin Referenced =>
              x.born = swaps + 1 /\ \A y \in Referenced : y.id # x.id
        BY <2>1, <2>2, <4>1
      <4>3. (m \in Items(current))' /\ (n \in Items(current))'
        BY <2>2, <2>3, <3>2, <4>2
      <4>4. m \in Models /\ n \in Models
        BY <4>3, BesideMoves, CurrentItems DEF TypeInv, CurrentOK, Items
      <4>5. m.born = swaps + 1 /\ n.born = swaps + 1
        BY <2>3, <3>2, <4>2
      <4> QED
        BY <2>3, <4>4, <4>5 DEF Models
    <3> QED
      BY <3>1, <3>2
  <2> QED
    BY <1>2, <2>3 DEF UniqueAddress
<1>6. CASE ~Swap
  <2>1. current' = current
    BY <1>6 DEF Beside, UpdateMetrics, Receive, Pick, Complete, vars
  <2>2. \A m : (m \in Referenced)' => m \in Referenced
    BY <1>4, <2>1
  <2> QED
    BY <1>2, <2>2, FewerReferenced
<1> QED
  BY <1>5, <1>6

\* The batcher a job goes to has been made for its model.
LEMMA SubmitsToItsModel ==
  ASSUME TypeInv, AddressInv, NEW r \in Requests, NEW m \in request[r].left, Submit(r, m)
  PROVE  /\ batchers'[table'[m.id]].model = m
         /\ table[m.id] \in DOMAIN batchers => table[m.id] \notin Others(r)
         /\ \A a \in ActiveIds(r) : table[a] # 0 => table[a] \notin Others(r)
<1>1. m \in Models /\ m.id \in Addresses /\ m.id \in ActiveIds(r) /\ m \in Items(request[r].models)
  BY SubmitMoves DEF TypeInv, CallsOK, Models
<1>2. ActiveIds(r) \subseteq Addresses
  <2>1. request[r].models \in Seq(Models)
    BY DEF TypeInv, CallsOK, Call
  <2>2. Items(request[r].models) \subseteq Models
    BY <2>1 DEF Items
  <2> QED
    BY <2>2 DEF ActiveIds, Models
<1>3. \A a \in ActiveIds(r) : table[a] # 0 => table[a] \notin Others(r)
  BY <1>2 DEF Others, AddressInv, TableRuns
<1>4. table[m.id] \in DOMAIN batchers => table[m.id] # 0
  BY BatcherNumbers
<1>5. batchers'[table'[m.id]].model = m
  <2>1. CASE table[m.id] \in DOMAIN batchers /\ table'[m.id] = table[m.id]
    <3>1. PICK b \in DOMAIN batchers : b = table[m.id]
      BY <2>1
    <3>2. batchers'[b].model = batchers[b].model
      BY SubmitMoves
    <3>3. batchers[b].model.id = m.id
      BY <1>1, <1>4, <2>1, <3>1 DEF AddressInv, TableRuns
    <3>4. Live(b)
      BY <1>1, <3>1 DEF Live, InTable
    <3>5. batchers[b].model \in Referenced /\ m \in Referenced
      BY <1>1, <3>4, SubmitCalls, ReferencedBy DEF Refers
    <3> QED
      BY <2>1, <3>1, <3>2, <3>3, <3>5 DEF AddressInv, UniqueAddress
  <2>2. CASE batchers'[table'[m.id]] =
               [model |-> m, stage |-> "waiting", queue |-> <<NewJob(r, m)>>, batch |-> <<>>]
    BY <2>2
  <2> QED
    BY <2>1, <2>2, SubmitMoves
<1> QED
  BY <1>1, <1>3, <1>4, <1>5

\* _get_batcher leaves in the table the batchers of the models of its request.
LEMMA AddressSubmit ==
  ASSUME TypeInv, AddressInv, NEW r \in Requests, NEW m \in request[r].left, Submit(r, m)
  PROVE  AddressInv'
<1> USE DEF AddressInv
<1>1. /\ m \in Models /\ m.id \in Addresses /\ m.id \in ActiveIds(r)
      /\ m \in Items(request[r].models) /\ InFlight(r)
  <2>1. m \in Models /\ m.id \in ActiveIds(r)
    BY SubmitMoves
  <2>2. InFlight(r)
    BY SubmitCalls
  <2> QED
    BY <2>1, <2>2 DEF TypeInv, CallsOK, Models
<1>2. \A b \in DOMAIN batchers :
        /\ batchers'[b].model = batchers[b].model
        /\ batchers'[b].stage = IF b \in Others(r) /\ batchers[b].stage = "waiting"
                                  THEN "ended" ELSE batchers[b].stage
  BY SubmitMoves
<1>3. \A a \in Addresses \ {m.id} : table'[a] = IF a \in ActiveIds(r) THEN table[a] ELSE 0
  BY SubmitMoves
<1>4. /\ table'[m.id] \in DOMAIN batchers'
      /\ \A b \in DOMAIN batchers' :
              b # table'[m.id] => b \in DOMAIN batchers /\ Holds(b)' = Holds(b)
  BY SubmitMoves
<1>5. \/ table[m.id] \in DOMAIN batchers /\ table'[m.id] = table[m.id]
      \/ /\ table[m.id] = 0 /\ table'[m.id] \notin DOMAIN batchers
         /\ batchers'[table'[m.id]].stage = "waiting"
  <2>1. CASE batchers'[table'[m.id]] =
               [model |-> m, stage |-> "waiting", queue |-> <<NewJob(r, m)>>, batch |-> <<>>]
    BY <2>1, SubmitMoves
  <2> QED
    BY <2>1, SubmitMoves
<1>6. /\ batchers'[table'[m.id]].model = m
      /\ table[m.id] \in DOMAIN batchers => table[m.id] \notin Others(r)
      /\ \A a \in ActiveIds(r) : table[a] # 0 => table[a] \notin Others(r)
  BY SubmitsToItsModel
<1>7. 0 \notin DOMAIN batchers /\ \A a \in Addresses : table[a] \in {0} \cup DOMAIN batchers
  BY BatcherNumbers DEF TypeInv, TableOK
<1>8. TableRuns'
  <2>1. ASSUME NEW a \in Addresses, table'[a] # 0
        PROVE  batchers'[table'[a]].stage # "ended" /\ batchers'[table'[a]].model.id = a
    <3>1. CASE table'[a] \in DOMAIN batchers
      <4>1. table[a] = table'[a] /\ table[a] \notin Others(r)
        <5>1. CASE a = m.id
          BY <1>5, <1>6, <3>1, <5>1
        <5>2. CASE a # m.id
          BY <1>3, <1>6, <2>1, <5>2
        <5> QED
          BY <5>1, <5>2
      <4>2. batchers[table[a]].stage # "ended" /\ batchers[table[a]].model.id = a
        BY <2>1, <4>1 DEF TableRuns
      <4> QED
        BY <1>2, <3>1, <4>1, <4>2
    <3>2. CASE table'[a] \notin DOMAIN batchers
      <4>1. a = m.id
        BY <1>3, <1>7, <2>1, <3>2
      <4> QED
        BY <1>5, <1>6, <3>2, <4>1
    <3> QED
      BY <3>1, <3>2
  <2> QED
    BY <2>1 DEF TableRuns
<1>9. OrphansIdle'
  <2>1. ASSUME NEW b \in DOMAIN batchers', batchers'[b].stage = "waiting", ~InTable(b)'
        PROVE  Holds(b)' = <<>>
    <3>1. b # table'[m.id]
      BY <1>1, <2>1 DEF InTable
    <3>2. b \in DOMAIN batchers /\ Holds(b)' = Holds(b)
      BY <1>4, <3>1
    <3>3. batchers[b].stage = "waiting" /\ b \notin Others(r)
      BY <1>2, <2>1, <3>2
    <3>4. ~InTable(b)
      <4>1. SUFFICES ASSUME NEW a \in Addresses, table[a] = b PROVE FALSE
        BY DEF InTable
      <4>2. a \in ActiveIds(r)
        BY <3>3, <4>1 DEF Others
      <4>3. a # m.id
        BY <1>5, <1>7, <3>1, <3>2, <4>1
      <4> QED
        BY <1>3, <2>1, <4>1, <4>2, <4>3 DEF InTable
    <3> QED
      BY <3>2, <3>3, <3>4 DEF OrphansIdle
  <2> QED
    BY <2>1 DEF OrphansIdle
<1>10. ASSUME NEW b \in DOMAIN batchers, Live(b)' PROVE Live(b)
  <2>1. CASE batchers'[b].stage = "sleeping"
    BY <1>2, <2>1 DEF Live
  <2>2. CASE InTable(b)'
    <3>1. PICK a \in Addresses : table'[a] = b
      BY <2>2 DEF InTable
    <3>2. table[a] = b
      BY <1>3, <1>5, <1>7, <3>1
    <3> QED
      BY <3>2 DEF Live, InTable
  <2> QED
    BY <1>10, <2>1, <2>2 DEF Live
<1>11. ASSUME NEW n, (n \in Referenced)' PROVE n \in Referenced
  <2>1. \/ (n \in Items(current))'
        \/ (\E q \in Requests : InFlight(q) /\ n \in Items(request[q].models))'
        \/ (\E b \in DOMAIN batchers : Live(b) /\ n = batchers[b].model)'
    BY <1>11, ReferencedBy DEF Refers
  <2>2. CASE (n \in Items(current))'
    BY <2>2, ReferencedBy DEF Refers, Submit, Items
  <2>3. CASE (\E q \in Requests : InFlight(q) /\ n \in Items(request[q].models))'
    <3>1. PICK q \in Requests : InFlight(q)' /\ n \in Items(request'[q].models)
      BY <2>3 DEF Items
    <3>2. InFlight(q) /\ n \in Items(request[q].models)
      BY <3>1, SubmitCalls
    <3> QED
      BY <3>2, ReferencedBy DEF Refers
  <2>4. CASE (\E b \in DOMAIN batchers : Live(b) /\ n = batchers[b].model)'
    <3>1. PICK b \in DOMAIN batchers' : Live(b)' /\ n = batchers'[b].model
      BY <2>4
    <3>2. CASE b \in DOMAIN batchers
      BY <1>2, <1>10, <3>1, <3>2, ReferencedBy DEF Refers
    <3>3. CASE b \notin DOMAIN batchers
      <4>1. b = table'[m.id] /\ n = m
        BY <1>4, <1>6, <3>1, <3>3
      <4> QED
        BY <1>1, <4>1, ReferencedBy DEF Refers
    <3> QED
      BY <3>2, <3>3
  <2> QED
    BY <2>1, <2>2, <2>3, <2>4
<1> QED
  BY <1>8, <1>9, <1>11, FewerReferenced

\* A batcher that takes a job is in the table; one that has run its batch is idle
\* or goes on.
LEMMA AddressLoop ==
  ASSUME TypeInv, AddressInv, NEW b, Take(b) \/ \E ok \in BOOLEAN : Infer(b, ok)
  PROVE  AddressInv'
<1> USE DEF AddressInv
<1>1. UNCHANGED <<current, request, table>>
  BY DEF Take, Infer
<1>2. /\ b \in DOMAIN batchers /\ DOMAIN batchers' = DOMAIN batchers
      /\ \A c \in DOMAIN batchers : c # b => batchers'[c] = batchers[c]
      /\ batchers'[b].stage \in {"waiting", "sleeping"}
      /\ batchers'[b].model = batchers[b].model
      /\ batchers'[b].stage = "waiting" => Holds(b)' = <<>>
      /\ batchers[b].stage = "sleeping" \/ (batchers[b].stage = "waiting" /\ Holds(b) # <<>>)
  <2>1. CASE Take(b)
    BY <2>1, TakeMoves
  <2>2. ASSUME NEW ok \in BOOLEAN, Infer(b, ok)
        PROVE  /\ b \in DOMAIN batchers /\ DOMAIN batchers' = DOMAIN batchers
               /\ \A c \in DOMAIN batchers : c # b => batchers'[c] = batchers[c]
               /\ batchers'[b].stage \in {"waiting", "sleeping"}
               /\ batchers'[b].model = batchers[b].model
               /\ batchers'[b].stage = "waiting" => Holds(b)' = <<>>
               /\ batchers[b].stage = "sleeping"
    BY <2>2, InferMoves
  <2> QED
    BY <2>1, <2>2
<1>3. Live(b)
  BY <1>2 DEF Live, OrphansIdle
<1>4. TableRuns'
  <2>1. \A c \in DOMAIN batchers : batchers'[c].model = batchers[c].model
    BY <1>2
  <2>2. \A c \in DOMAIN batchers : batchers[c].stage # "ended" => batchers'[c].stage # "ended"
    BY <1>2
  <2>3. \A a \in Addresses : table[a] # 0 => table[a] \in DOMAIN batchers
    BY DEF TypeInv, TableOK
  <2> QED
    BY <1>1, <2>1, <2>2, <2>3 DEF TableRuns
<1>5. OrphansIdle'
  <2>1. ASSUME NEW c \in DOMAIN batchers, batchers'[c].stage = "waiting", ~InTable(c)'
        PROVE  Holds(c)' = <<>>
    <3>1. CASE c = b
      BY <1>2, <2>1, <3>1
    <3>2. CASE c # b
      BY <1>1, <1>2, <2>1, <3>2 DEF OrphansIdle, InTable, Holds
    <3> QED
      BY <3>1, <3>2
  <2> QED
    BY <1>2, <2>1 DEF OrphansIdle
<1>6. ASSUME NEW n, (n \in Referenced)' PROVE n \in Referenced
  <2>1. \/ (n \in Items(current))'
        \/ (\E q \in Requests : InFlight(q) /\ n \in Items(request[q].models))'
        \/ (\E c \in DOMAIN batchers : Live(c) /\ n = batchers[c].model)'
    BY <1>6, ReferencedBy DEF Refers
  <2>2. CASE (n \in Items(current))'
    BY <1>1, <2>2, ReferencedBy DEF Refers, Items
  <2>3. CASE (\E q \in Requests : InFlight(q) /\ n \in Items(request[q].models))'
    BY <1>1, <2>3, ReferencedBy DEF Refers, Items, InFlight
  <2>4. CASE (\E c \in DOMAIN batchers : Live(c) /\ n = batchers[c].model)'
    <3>1. PICK c \in DOMAIN batchers : Live(c)' /\ n = batchers'[c].model
      BY <1>2, <2>4
    <3>2. Live(c) /\ n = batchers[c].model
      <4>1. CASE c = b
        BY <1>2, <1>3, <3>1, <4>1
      <4>2. CASE c # b
        BY <1>1, <1>2, <3>1, <4>2 DEF Live, InTable
      <4> QED
        BY <4>1, <4>2
    <3> QED
      BY <3>1, <3>2, ReferencedBy DEF Refers
  <2> QED
    BY <2>1, <2>2, <2>3, <2>4
<1> QED
  BY <1>4, <1>5, <1>6, FewerReferenced

\* Initially only the handle refers to models, at different addresses.
LEMMA AddressInit == Init => AddressInv
<1> SUFFICES ASSUME Init PROVE AddressInv
  OBVIOUS
<1>1. TableRuns /\ OrphansIdle
  BY DEF Init, TableRuns, OrphansIdle
<1>2. \A m, n \in Items(current) : m.id = n.id => m = n
  <2>1. PICK a \in Addresses, b \in Addresses \cup {0} :
          current = IF b \in Addresses \ {a} THEN <<[id |-> a, born |-> 0], [id |-> b, born |-> 0]>>
                                             ELSE <<[id |-> a, born |-> 0]>>
    BY DEF Init
  <2> QED
    BY <2>1 DEF Items
<1>3. \A m \in Referenced : m \in Items(current)
  <2>1. DOMAIN batchers = {}
    BY DEF Init
  <2>2. \A r \in Requests : ~InFlight(r)
    BY DEF Init, New, InFlight
  <2>3. \A b : ~Live(b)
    BY <2>1 DEF Live
  <2> QED
    BY <2>2, <2>3, ReferencedBy DEF Refers
<1> QED
  BY <1>1, <1>2, <1>3 DEF AddressInv, UniqueAddress

\* Addresses are unique and the table runs, whatever is swapped.
LEMMA AddressStep == TypeInv /\ AddressInv /\ [Next]_vars => AddressInv'
  BY AddressBeside, AddressSubmit, AddressLoop, StepKinds

THEOREM AddressAlways == Spec => [](TypeInv /\ AddressInv)
  BY TypeInvInit, TypeInvStep, AddressInit, AddressStep, PTL DEF Spec

\* Whatever the table has runs, for the model of its address.
THEOREM TableAlwaysRuns == Spec => []TableRuns
<1>1. AddressInv => TableRuns
  BY DEF AddressInv
<1> QED
  BY <1>1, AddressAlways, PTL

-----------------------------------------------------------------------------
(* What is handed over is at one place until it is answered.               *)

Asked(r) == request[r].parts \ request[r].left
Answered(r, m) == \E a \in answers[r] : a.of = m

\* No job is twice at a batcher, or at two batchers.
HeldOnce ==
  \A b \in DOMAIN batchers :
    /\ Distinct(Holds(b))
    /\ \A c \in DOMAIN batchers : b # c => Items(Holds(b)) \cap Items(Holds(c)) = {}

\* A batcher holds jobs of its model that are handed over and not answered.
HeldPending ==
  \A b \in DOMAIN batchers : \A j \in Items(Holds(b)) :
    /\ j.model = batchers[b].model
    /\ j.model \in Asked(j.request) /\ ~Answered(j.request, j.model)

\* What is handed over and not answered is held.
HandedOver ==
  \A r \in Requests : \A m \in Asked(r) :
    Answered(r, m) \/ \E b \in DOMAIN batchers : NewJob(r, m) \in Items(Holds(b))

\* A result is of the model that is asked for.
RightAnswers == \A r \in Requests : \A a \in answers[r] : a.by = a.of /\ a.of \in Asked(r)

\* A batcher has ended because a request came that had not read its model.
EndedBySwap ==
  \A b \in DOMAIN batchers : batchers[b].stage = "ended" =>
    \E q \in Requests : /\ request[q].models # <<>>
                        /\ batchers[b].model \notin Items(request[q].models)

HeldInv == HeldOnce /\ HeldPending /\ HandedOver /\ RightAnswers /\ EndedBySwap

\* A request keeps the models it has read.
LEMMA ReadersStay ==
  ASSUME NEW m, \A r \in Requests : request[r].models # <<>> => request'[r].models = request[r].models,
         \E q \in Requests : request[q].models # <<>> /\ m \notin Items(request[q].models)
  PROVE  \E q \in Requests : request'[q].models # <<>> /\ m \notin Items(request'[q].models)
  OBVIOUS

\* A job is its request and its model.
LEMMA JobIs ==
  ASSUME TypeInv, NEW b \in DOMAIN batchers, NEW j \in Items(Holds(b))
  PROVE  j \in Job /\ j = NewJob(j.request, j.model)
<1>1. Items(Holds(b)) \subseteq Job
  BY BatcherNumbers DEF Items
<1> QED
  BY <1>1 DEF Job, NewJob

\* Steps beside the batchers leave what is held and what is asked.
LEMMA HeldBeside ==
  ASSUME TypeInv, HeldInv, Beside
  PROVE  HeldInv'
<1>1. UNCHANGED <<batchers, answers>> /\ CallsKept
  BY BesideMoves
<1>2. \A b : Holds(b)' = Holds(b)
  BY <1>1 DEF Holds
<1>3. \A r \in Requests : Asked(r)' = Asked(r)
  BY <1>1 DEF CallsKept, Asked
<1>4. \A r, m : Answered(r, m)' <=> Answered(r, m)
  BY <1>1 DEF Answered
<1>5. HeldOnce'
  BY <1>1, <1>2 DEF HeldInv, HeldOnce, Distinct, Items
<1>6. HeldPending'
  <2>1. ASSUME NEW b \in DOMAIN batchers, NEW j \in Items(Holds(b))
        PROVE  /\ j.model = batchers[b].model /\ j.model \in Asked(j.request)'
               /\ ~Answered(j.request, j.model)'
    <3>1. j.request \in Requests
      BY JobIs DEF Job
    <3> QED
      BY <1>3, <1>4, <3>1 DEF HeldInv, HeldPending
  <2>2. \A b \in DOMAIN batchers' : Items(Holds(b))' = Items(Holds(b))
    BY <1>2 DEF Items
  <2> QED
    BY <1>1, <2>1, <2>2 DEF HeldPending
<1>7. HandedOver'
  BY <1>1, <1>2, <1>3, <1>4 DEF HeldInv, HandedOver, Items
<1>8. RightAnswers'
  BY <1>1, <1>3 DEF HeldInv, RightAnswers
<1>9. EndedBySwap'
  <2>1. \A r \in Requests : request[r].models # <<>> => request'[r].models = request[r].models
    BY <1>1 DEF CallsKept
  <2> QED
    BY <1>1, <2>1, ReadersStay DEF HeldInv, EndedBySwap, Items
<1> QED
  BY <1>5, <1>6, <1>7, <1>8, <1>9 DEF HeldInv

\* Taking a job moves none.
LEMMA HeldTake ==
  ASSUME TypeInv, HeldInv, NEW b, Take(b)
  PROVE  HeldInv'
<1>1. /\ b \in DOMAIN batchers /\ DOMAIN batchers' = DOMAIN batchers
      /\ \A c \in DOMAIN batchers : c # b => batchers'[c] = batchers[c]
      /\ batchers'[b].stage = "sleeping" /\ batchers'[b].model = batchers[b].model
      /\ Holds(b)' = Holds(b)
  BY TakeMoves
<1>2. /\ UNCHANGED <<request, answers>>
      /\ \A r, m : Asked(r)' = Asked(r) /\ (Answered(r, m)' <=> Answered(r, m))
  BY DEF Take, Asked, Answered
<1>3. ASSUME NEW c \in DOMAIN batchers
      PROVE  Holds(c)' = Holds(c) /\ batchers'[c].model = batchers[c].model
             /\ (batchers'[c].stage = "ended" => batchers[c].stage = "ended")
  BY <1>1 DEF Holds
<1>4. \A c \in DOMAIN batchers : Items(Holds(c))' = Items(Holds(c)) /\ Distinct(Holds(c))' = Distinct(Holds(c))
  BY <1>3 DEF Items, Distinct
<1>5. HeldOnce'
  BY <1>1, <1>4 DEF HeldInv, HeldOnce
<1>6. HeldPending' /\ HandedOver' /\ RightAnswers'
  BY <1>1, <1>2, <1>3, <1>4 DEF HeldInv, HeldPending, HandedOver, RightAnswers
<1>7. EndedBySwap'
  BY <1>1, <1>2, <1>3 DEF HeldInv, EndedBySwap
<1> QED
  BY <1>5, <1>6, <1>7 DEF HeldInv

\* A job goes to one batcher, which is of its model.
LEMMA HeldSubmit ==
  ASSUME TypeInv, AddressInv, HeldInv, NEW r \in Requests, NEW m \in request[r].left, Submit(r, m)
  PROVE  HeldInv'
<1> USE DEF HeldInv
<1> DEFINE job == NewJob(r, m)
<1>1. /\ m \in Models /\ job \in Job
      /\ DOMAIN batchers \subseteq DOMAIN batchers'
      /\ \A b \in DOMAIN batchers : batchers'[b].model = batchers[b].model
  BY SubmitMoves
<1>2. PICK h \in DOMAIN batchers' : h = table'[m.id]
  BY SubmitMoves
<1>3. /\ batchers'[h].model = m
      /\ \A b \in DOMAIN batchers' : b # h => b \in DOMAIN batchers /\ Holds(b)' = Holds(b)
  BY <1>2, SubmitMoves, SubmitsToItsModel
<1>4. \A b \in DOMAIN batchers : job \notin Items(Holds(b))
  BY JobIs DEF HeldPending, Asked, NewJob
<1>5. ~Answered(r, m)
  BY DEF RightAnswers, Answered, Asked
<1>6. /\ Distinct(Holds(h))'
      /\ Items(Holds(h))' = (IF h \in DOMAIN batchers THEN Items(Holds(h)) ELSE {}) \cup {job}
  <2>1. CASE table[m.id] \in DOMAIN batchers /\ table'[m.id] = table[m.id]
    <3>1. h \in DOMAIN batchers /\ Holds(h)' = Append(Holds(h), job)
      <4>1. \A b \in DOMAIN batchers : b = table[m.id] =>
              Holds(b)' = Append(Holds(b), job) \/ table[m.id] = 0
        BY SubmitMoves
      <4> QED
        BY <1>2, <2>1, <4>1, BatcherNumbers
    <3>2. Holds(h) \in Seq(Job)
      BY <3>1, BatcherNumbers
    <3>3. /\ Items(Append(Holds(h), job)) = Items(Holds(h)) \cup {job}
          /\ Distinct(Append(Holds(h), job))
      BY <1>1, <1>4, <3>1, <3>2, ItemsAppend, DistinctAppend DEF HeldOnce
    <3> QED
      BY <3>1, <3>3 DEF Items, Distinct
  <2>2. CASE /\ table'[m.id] \notin DOMAIN batchers
             /\ batchers'[table'[m.id]] =
                  [model |-> m, stage |-> "waiting", queue |-> <<job>>, batch |-> <<>>]
    <3>1. batchers'[h].queue = <<job>> /\ batchers'[h].batch = <<>> /\ h \notin DOMAIN batchers
      BY <1>2, <2>2
    <3>2. <<>> \o <<job>> = <<job>>
      OBVIOUS
    <3>3. Holds(h)' = <<job>>
      BY <3>1, <3>2 DEF Holds
    <3> QED
      BY <3>1, <3>3 DEF Items, Distinct
  <2> QED
    BY <2>1, <2>2, SubmitMoves
<1>7. \A b \in DOMAIN batchers' : b # h =>
        /\ b \in DOMAIN batchers
        /\ Items(Holds(b))' = Items(Holds(b)) /\ Distinct(Holds(b))' = Distinct(Holds(b))
  BY <1>3 DEF Items, Distinct
<1>8. HeldOnce'
  <2>1. \A b \in DOMAIN batchers' : Distinct(Holds(b))'
    BY <1>6, <1>7 DEF HeldOnce
  <2>2. ASSUME NEW b \in DOMAIN batchers', b # h PROVE Items(Holds(b))' \cap Items(Holds(h))' = {}
    BY <1>4, <1>6, <1>7, <2>2 DEF HeldOnce
  <2>3. ASSUME NEW b \in DOMAIN batchers', NEW c \in DOMAIN batchers', b # c
        PROVE  Items(Holds(b))' \cap Items(Holds(c))' = {}
    <3>1. CASE b = h
      BY <2>2, <2>3, <3>1
    <3>2. CASE c = h
      BY <2>2, <2>3, <3>2
    <3>3. CASE b # h /\ c # h
      BY <1>7, <2>3, <3>3 DEF HeldOnce
    <3> QED
      BY <3>1, <3>2, <3>3
  <2> QED
    BY <2>1, <2>3 DEF HeldOnce
<1>9. \A q \in Requests : Asked(q)' = IF q = r THEN Asked(q) \cup {m} ELSE Asked(q)
  <2>1. m \in request[r].parts /\ m \in request[r].left
    BY DEF TypeInv, CallsOK
  <2>2. \A q \in Requests :
          /\ request'[q].parts = request[q].parts
          /\ request'[q].left = IF q = r THEN request[q].left \ {m} ELSE request[q].left
    BY SubmitCalls
  <2>3. ASSUME NEW q \in Requests
        PROVE  Asked(q)' = IF q = r THEN Asked(q) \cup {m} ELSE Asked(q)
    <3>1. CASE q = r
      BY <2>1, <2>2, <3>1 DEF Asked
    <3>2. CASE q # r
      BY <2>2, <3>2 DEF Asked
    <3> QED
      BY <3>1, <3>2
  <2> QED
    BY <2>3
<1>10. answers' = answers /\ \A q, n : Answered(q, n)' <=> Answered(q, n)
  BY DEF Submit, Answered
<1>11. HeldPending'
  <2>1. ASSUME NEW b \in DOMAIN batchers', NEW j \in Items(Holds(b))'
        PROVE  /\ j.model = batchers'[b].model /\ j.model \in Asked(j.request)'
               /\ ~Answered(j.request, j.model)'
    <3>1. CASE j = job
      <4>1. b = h
        BY <1>4, <1>7, <2>1, <3>1
      <4> QED
        BY <1>3, <1>5, <1>9, <1>10, <3>1, <4>1 DEF NewJob
    <3>2. CASE j # job
      <4>1. b \in DOMAIN batchers /\ j \in Items(Holds(b))
        BY <1>6, <1>7, <2>1, <3>2
      <4>2. j.request \in Requests
        BY <4>1, JobIs DEF Job
      <4> QED
        BY <1>1, <1>9, <1>10, <4>1, <4>2 DEF HeldPending
    <3> QED
      BY <3>1, <3>2
  <2> QED
    BY <2>1 DEF HeldPending
<1>12. HandedOver'
  <2>1. ASSUME NEW q \in Requests, NEW n \in Asked(q)', ~Answered(q, n)'
        PROVE  \E b \in DOMAIN batchers' : NewJob(q, n) \in Items(Holds(b))'
    <3>1. CASE q = r /\ n = m
      BY <1>6, <3>1
    <3>2. CASE ~(q = r /\ n = m)
      <4>1. n \in Asked(q) /\ ~Answered(q, n)
        BY <1>9, <1>10, <2>1, <3>2
      <4>2. PICK b \in DOMAIN batchers : NewJob(q, n) \in Items(Holds(b))
        BY <4>1 DEF HandedOver
      <4> QED
        BY <1>1, <1>6, <1>7, <4>2
    <3> QED
      BY <3>1, <3>2
  <2> QED
    BY <2>1 DEF HandedOver, NewJob
<1>13. RightAnswers'
  BY <1>9, <1>10 DEF RightAnswers
<1>14. EndedBySwap'
  <2>1. ASSUME NEW b \in DOMAIN batchers', batchers'[b].stage = "ended"
        PROVE  \E q \in Requests : /\ request'[q].models # <<>>
                                   /\ batchers'[b].model \notin Items(request'[q].models)
    <3>0. \A q \in Requests : request'[q].models = request[q].models
      BY SubmitCalls
    <3>1. b \in DOMAIN batchers
      <4>1. CASE b = h /\ h \notin DOMAIN batchers
        <5>1. batchers'[table'[m.id]] =
               [model |-> m, stage |-> "waiting", queue |-> <<NewJob(r, m)>>, batch |-> <<>>]
          BY <1>2, <4>1, SubmitMoves
        <5> QED
          BY <1>2, <2>1, <4>1, <5>1
      <4> QED
        BY <1>7, <4>1
    <3>2. batchers'[b].model = batchers[b].model
      BY <1>1, <3>1
    <3>3. CASE batchers[b].stage = "ended"
      BY <3>0, <3>1, <3>2, <3>3 DEF EndedBySwap
    <3>4. CASE batchers[b].stage # "ended"
      <4>1. batchers'[b].stage = IF b \in Others(r) /\ batchers[b].stage = "waiting"
                                 THEN "ended" ELSE batchers[b].stage
        BY <3>1, SubmitMoves
      <4>2. b \in Others(r)
        BY <2>1, <3>4, <4>1
      <4>3. PICK a \in Addresses \ ActiveIds(r) : table[a] = b
        BY <4>2 DEF Others
      <4>4. batchers[b].model.id = a
        BY <3>1, <4>3, BatcherNumbers DEF AddressInv, TableRuns
      <4>5. batchers[b].model \notin Items(request[r].models)
        BY <4>3, <4>4 DEF ActiveIds
      <4>6. request[r].models # <<>>
        <5>1. m \in Items(request[r].models)
          BY DEF TypeInv, CallsOK
        <5> QED
          BY <5>1, ItemsEmpty
      <4> QED
        BY <3>0, <3>2, <4>5, <4>6
    <3> QED
      BY <3>3, <3>4
  <2> QED
    BY <2>1 DEF EndedBySwap
<1> QED
  BY <1>8, <1>11, <1>12, <1>13, <1>14

\* A batch answers the jobs in front, each once, and leaves the others.
LEMMA HeldInfer ==
  ASSUME TypeInv, HeldInv, NEW b, NEW ok \in BOOLEAN, Infer(b, ok)
  PROVE  HeldInv'
<1> USE DEF HeldInv
<1>1. /\ b \in DOMAIN batchers /\ DOMAIN batchers' = DOMAIN batchers
      /\ \A c \in DOMAIN batchers : c # b => batchers'[c] = batchers[c]
      /\ batchers'[b].stage \in {"waiting", "sleeping"}
      /\ batchers'[b].model = batchers[b].model /\ batchers' \in Seq(Batcher)
  BY InferMoves
<1>2. PICK full \in Seq(Job) :
         /\ Holds(b) = full \o Holds(b)'
         /\ answers' = AnswersAfter(full, b, ok)
  BY InferMoves, Zenon
<1>3. request' = request /\ \A r : Asked(r)' = Asked(r)
  BY DEF Infer, Asked
<1>4. Holds(b) \in Seq(Job) /\ Holds(b)' \in Seq(Job)
  <2>1. Holds(b) \in Seq(Job)
    BY <1>1, BatcherNumbers
  <2>2. batchers'[b] \in Batcher
    BY <1>1
  <2>3. batchers'[b].batch \in Seq(Job) /\ batchers'[b].queue \in Seq(Job)
    BY <2>2 DEF Batcher
  <2>4. Holds(b)' \in Seq(Job)
    BY <2>3, ConcatProperties DEF Holds
  <2> QED
    BY <2>1, <2>4
<1>5. /\ Items(Holds(b)) = Items(full) \cup Items(Holds(b))'
      /\ Distinct(Holds(b))' /\ Items(full) \cap Items(Holds(b))' = {}
  <2> DEFINE t == batchers'[b].batch \o batchers'[b].queue
  <2>1. Holds(b)' = t
    BY DEF Holds
  <2>2. t \in Seq(Job) /\ Holds(b) = full \o t
    BY <1>2, <1>4, <2>1
  <2>3. Distinct(full \o t)
    BY <1>1, <2>2 DEF HeldOnce
  <2> HIDE DEF t
  <2>4. /\ Items(full \o t) = Items(full) \cup Items(t)
        /\ Distinct(t) /\ Items(full) \cap Items(t) = {}
    BY <2>2, <2>3, ItemsConcat, DistinctConcat
  <2>5. Items(Holds(b))' = Items(t) /\ Distinct(Holds(b))' = Distinct(t)
    BY <2>1 DEF Items, Distinct
  <2> QED
    BY <2>2, <2>4, <2>5
<1>6. \A c \in DOMAIN batchers : c # b =>
        /\ Items(Holds(c))' = Items(Holds(c)) /\ Distinct(Holds(c))' = Distinct(Holds(c))
  BY <1>1 DEF Holds, Items, Distinct
<1>7. \A c \in DOMAIN batchers : Items(Holds(c))' \subseteq Items(Holds(c))
  BY <1>5, <1>6
<1>8. HeldOnce'
  <2>1. \A c \in DOMAIN batchers : Distinct(Holds(c))'
    BY <1>5, <1>6 DEF HeldOnce
  <2>2. \A c, d \in DOMAIN batchers : c # d => Items(Holds(c))' \cap Items(Holds(d))' = {}
    BY <1>7 DEF HeldOnce
  <2> QED
    BY <1>1, <2>1, <2>2 DEF HeldOnce
<1>9. \A j \in Items(full) : /\ j \in Job /\ j = NewJob(j.request, j.model)
                             /\ j.model = batchers[b].model /\ j.model \in Asked(j.request)
  BY <1>1, <1>5, JobIs DEF HeldPending
<1>10. \A r \in Requests : \A m :
         Answered(r, m)' <=> Answered(r, m) \/ NewJob(r, m) \in Items(full)
  <2> SUFFICES ASSUME NEW r \in Requests, NEW m
               PROVE  Answered(r, m)' <=> Answered(r, m) \/ NewJob(r, m) \in Items(full)
    OBVIOUS
  <2>1. answers'[r] = answers[r] \cup {[of |-> j.model, by |-> batchers[b].model, ok |-> ok] :
                                         j \in {i \in Items(full) : i.request = r}}
    BY <1>2 DEF AnswersAfter
  <2>2. ASSUME NEW a \in answers'[r], a.of = m PROVE Answered(r, m) \/ NewJob(r, m) \in Items(full)
    <3>1. CASE a \in answers[r]
      BY <2>2, <3>1 DEF Answered
    <3>2. CASE a \notin answers[r]
      <4>1. PICK j \in Items(full) : j.request = r /\ a = [of |-> j.model, by |-> batchers[b].model, ok |-> ok]
        BY <2>1, <3>2
      <4> QED
        BY <1>9, <2>2, <4>1
    <3> QED
      BY <3>1, <3>2
  <2>3. ASSUME NewJob(r, m) \in Items(full) PROVE Answered(r, m)'
    <3>1. NewJob(r, m).request = r /\ NewJob(r, m).model = m
      BY DEF NewJob
    <3>2. [of |-> m, by |-> batchers[b].model, ok |-> ok] \in answers'[r]
      BY <2>1, <2>3, <3>1
    <3> QED
      BY <3>2 DEF Answered
  <2>4. Answered(r, m) => Answered(r, m)'
    BY <2>1 DEF Answered
  <2> QED
    BY <2>2, <2>3, <2>4 DEF Answered
<1>11. HeldPending'
  <2>1. ASSUME NEW c \in DOMAIN batchers, NEW j \in Items(Holds(c))'
        PROVE  /\ j.model = batchers'[c].model /\ j.model \in Asked(j.request)'
               /\ ~Answered(j.request, j.model)'
    <3>1. j \in Items(Holds(c)) /\ j \in Job /\ j = NewJob(j.request, j.model)
      BY <1>7, <2>1, JobIs
    <3>2. j.request \in Requests
      BY <3>1 DEF Job
    <3>3. j \notin Items(full)
      <4>1. CASE c = b
        BY <1>5, <2>1, <4>1
      <4>2. CASE c # b
        BY <1>1, <1>5, <3>1, <4>2 DEF HeldOnce
      <4> QED
        BY <4>1, <4>2
    <3>4. batchers'[c].model = batchers[c].model
      BY <1>1
    <3> QED
      BY <1>3, <1>10, <3>1, <3>2, <3>3, <3>4 DEF HeldPending
  <2> QED
    BY <1>1, <2>1 DEF HeldPending
<1>12. HandedOver'
  <2>1. ASSUME NEW r \in Requests, NEW m \in Asked(r)', ~Answered(r, m)'
        PROVE  \E c \in DOMAIN batchers : NewJob(r, m) \in Items(Holds(c))'
    <3>1. m \in Asked(r) /\ ~Answered(r, m) /\ NewJob(r, m) \notin Items(full)
      BY <1>3, <1>10, <2>1
    <3>2. PICK c \in DOMAIN batchers : NewJob(r, m) \in Items(Holds(c))
      BY <3>1 DEF HandedOver
    <3>3. NewJob(r, m) \in Items(Holds(c))'
      BY <1>5, <1>6, <3>1, <3>2
    <3> QED
      BY <3>3
  <2> QED
    BY <1>1, <2>1 DEF HandedOver, NewJob
<1>13. RightAnswers'
  <2>1. ASSUME NEW r \in Requests, NEW a \in answers'[r] PROVE a.by = a.of /\ a.of \in Asked(r)
    <3>1. CASE a \in answers[r]
      BY <3>1 DEF RightAnswers
    <3>2. CASE a \notin answers[r]
      <4>1. PICK j \in Items(full) : j.request = r /\ a = [of |-> j.model, by |-> batchers[b].model, ok |-> ok]
        BY <1>2, <3>2 DEF AnswersAfter
      <4> QED
        BY <1>9, <4>1
    <3> QED
      BY <3>1, <3>2
  <2> QED
    BY <1>3, <2>1 DEF RightAnswers
<1>14. EndedBySwap'
  <2>1. \A c \in DOMAIN batchers : /\ batchers'[c].model = batchers[c].model
                                   /\ batchers'[c].stage = "ended" => batchers[c].stage = "ended"
    BY <1>1
  <2> QED
    BY <1>1, <1>3, <2>1 DEF EndedBySwap
<1> QED
  BY <1>8, <1>11, <1>12, <1>13, <1>14

\* Initially nothing is asked.
LEMMA HeldInit == Init => HeldInv
  BY DEF Init, New, HeldInv, HeldOnce, HeldPending, HandedOver, RightAnswers, EndedBySwap, Asked

\* What is handed over is held once until it is answered, by a batcher of its model.
LEMMA HeldStep == TypeInv /\ AddressInv /\ HeldInv /\ [Next]_vars => HeldInv'
  BY HeldBeside, HeldTake, HeldSubmit, HeldInfer, StepKinds

THEOREM HeldAlways == Spec => []HeldInv
  BY HeldInit, HeldStep, AddressAlways, PTL DEF Spec

\* A request is scored by the model picked for it, never by another at its address.
THEOREM AlwaysScoredByItsModel == Spec => []ScoredByItsModel
<1>1. HeldInv => ScoredByItsModel
  BY DEF HeldInv, RightAnswers, ScoredByItsModel, Asked
<1> QED
  BY <1>1, HeldAlways, PTL

\* What is handed over is at one place until it is answered, and then at none.
THEOREM AlwaysInOnePlace == Spec => []InOnePlace
<1>1. TypeInv /\ HeldInv => InOnePlace
  <2> SUFFICES ASSUME TypeInv, HeldInv, NEW r \in Requests, NEW m \in Asked(r)
               PROVE  IF Answered(r, m) THEN Places(r, m) = {}
                                        ELSE \E p \in Places(r, m) : Places(r, m) = {p}
    BY DEF InOnePlace, Asked, Answered
  <2>1. ASSUME NEW p
        PROVE  p \in Places(r, m) <=>
                 \E b \in DOMAIN batchers : \E i \in DOMAIN Holds(b) :
                   p = <<b, i>> /\ Holds(b)[i] = NewJob(r, m)
    BY DEF Places, NewJob
  <2>2. CASE Answered(r, m)
    <3>1. ASSUME NEW b \in DOMAIN batchers, NEW i \in DOMAIN Holds(b) PROVE Holds(b)[i] # NewJob(r, m)
      <4>1. Holds(b)[i] \in Items(Holds(b))
        BY DEF Items
      <4> QED
        BY <2>2, <4>1 DEF HeldInv, HeldPending, NewJob
    <3> QED
      BY <2>1, <2>2, <3>1
  <2>3. CASE ~Answered(r, m)
    <3>1. PICK b \in DOMAIN batchers : NewJob(r, m) \in Items(Holds(b))
      BY <2>3 DEF HeldInv, HandedOver
    <3>2. PICK i \in DOMAIN Holds(b) : Holds(b)[i] = NewJob(r, m)
      BY <3>1 DEF Items
    <3>3. <<b, i>> \in Places(r, m)
      BY <2>1, <3>2
    <3>4. ASSUME NEW c \in DOMAIN batchers, NEW k \in DOMAIN Holds(c), Holds(c)[k] = NewJob(r, m)
          PROVE  c = b /\ k = i
      <4>1. NewJob(r, m) \in Items(Holds(c))
        BY <3>4 DEF Items
      <4>2. c = b
        BY <3>1, <4>1 DEF HeldInv, HeldOnce
      <4>3. k = i
        BY <3>2, <3>4, <4>2 DEF HeldInv, HeldOnce, Distinct
      <4> QED
        BY <4>2, <4>3
    <3>5. \A p \in Places(r, m) : p = <<b, i>>
      BY <2>1, <3>4
    <3>6. Places(r, m) = {<<b, i>>}
      BY <3>3, <3>5
    <3> QED
      BY <2>3, <3>3, <3>6
  <2> QED
    BY <2>2, <2>3
<1> QED
  BY <1>1, HeldAlways, AddressAlways, PTL

\* A request is stranded only where two requests have read different models.
THEOREM OnlySwapsStrand == Spec => []StrandedBySwap
<1>1. TypeInv /\ HeldInv => StrandedBySwap
  <2> SUFFICES ASSUME TypeInv, HeldInv, NEW r \in Requests, Stranded(r)
               PROVE  \E q \in Requests : /\ request[q].models # <<>>
                                          /\ Items(request[q].models) # Items(request[r].models)
    BY DEF StrandedBySwap
  <2>1. PICK b \in DOMAIN batchers : /\ batchers[b].stage = "ended"
                                     /\ \E j \in Items(Holds(b)) : j.request = r
    BY DEF Stranded
  <2>2. PICK j \in Items(Holds(b)) : j.request = r
    BY <2>1
  <2>3. batchers[b].model \in Items(request[r].models)
    BY <2>2 DEF HeldInv, HeldPending, Asked, TypeInv, CallsOK
  <2>4. PICK q \in Requests : /\ request[q].models # <<>>
                              /\ batchers[b].model \notin Items(request[q].models)
    BY <2>1 DEF HeldInv, EndedBySwap
  <2> QED
    BY <2>3, <2>4
<1> QED
  BY <1>1, HeldAlways, AddressAlways, PTL

-----------------------------------------------------------------------------
(* ModelBatcher implements Scoring.                                        *)

\* The batch of a batcher that sleeps is the one item its get returned.
SleepsWithOne ==
  \A b \in DOMAIN batchers : batchers[b].stage = "sleeping" => Len(batchers[b].batch) = 1

\* There are models to pick from, and some are picked.
PickedOK ==
  \A r \in Requests : /\ request[r].phase = "features" => request[r].models # <<>>
                      /\ request[r].phase = "scoring" => request[r].parts # {}

ScoringInv == SleepsWithOne /\ PickedOK

\* get returns one item, from which the loop fills up the batch when it has slept.
LEMMA SleepsStep ==
  ASSUME TypeInv, SleepsWithOne, [Next]_vars
  PROVE  SleepsWithOne'
<1>1. CASE Beside
  BY <1>1, BesideMoves DEF SleepsWithOne
<1>2. ASSUME NEW r \in Requests, NEW m \in request[r].left, Submit(r, m) PROVE SleepsWithOne'
  <2>1. \A b \in DOMAIN batchers :
          /\ batchers'[b].batch = batchers[b].batch
          /\ batchers'[b].stage = IF b \in Others(r) /\ batchers[b].stage = "waiting"
                                    THEN "ended" ELSE batchers[b].stage
    BY <1>2, SubmitMoves
  <2>2. \A b \in DOMAIN batchers' : b \notin DOMAIN batchers => batchers'[b].stage = "waiting"
    <3>1. ASSUME NEW b \in DOMAIN batchers', b \notin DOMAIN batchers PROVE batchers'[b].stage = "waiting"
      <4>1. b = table'[m.id]
        BY <1>2, <3>1, SubmitMoves
      <4>2. batchers'[table'[m.id]] =
              [model |-> m, stage |-> "waiting", queue |-> <<NewJob(r, m)>>, batch |-> <<>>]
        BY <1>2, <3>1, <4>1, SubmitMoves
      <4> QED
        BY <4>1, <4>2
    <3> QED
      BY <3>1
  <2> QED
    BY <2>1, <2>2 DEF SleepsWithOne
<1>3. ASSUME NEW b, Take(b) PROVE SleepsWithOne'
  BY <1>3, TakeMoves DEF SleepsWithOne
<1>4. ASSUME NEW b, NEW ok \in BOOLEAN, Infer(b, ok) PROVE SleepsWithOne'
  <2>1. /\ DOMAIN batchers' = DOMAIN batchers
        /\ \A c \in DOMAIN batchers : c # b => batchers'[c] = batchers[c]
        /\ batchers'[b].stage = "sleeping" => Len(batchers'[b].batch) = 1
    BY <1>4, InferMoves
  <2> QED
    BY <2>1 DEF SleepsWithOne
<1> QED
  BY <1>1, <1>2, <1>3, <1>4, StepKinds

\* A request comes with the models of the handle, and picks some of them.
LEMMA PickedStep ==
  ASSUME TypeInv, PickedOK, [Next]_vars
  PROVE  PickedOK'
<1> USE DEF TypeInv, CallsOK
<1>1. CASE UNCHANGED request
  BY <1>1 DEF PickedOK
<1>2. CASE UpdateMetrics
  <2>1. \A r \in Requests :
          /\ request'[r].phase = request[r].phase /\ request'[r].models = request[r].models
          /\ request'[r].parts = request[r].parts
    BY <1>2 DEF UpdateMetrics, Call
  <2> QED
    BY <2>1 DEF PickedOK
<1>3. ASSUME NEW r \in Requests, Receive(r) PROVE PickedOK'
  <2>1. request'[r].phase = "features" /\ request'[r].models = current
    BY <1>3 DEF Receive, Call
  <2>2. current # <<>>
    BY DEF CurrentOK
  <2>3. \A q \in Requests : q # r => request'[q] = request[q]
    BY <1>3 DEF Receive
  <2> QED
    BY <2>1, <2>2, <2>3 DEF PickedOK
<1>4. ASSUME NEW r \in Requests, Pick(r) PROVE PickedOK'
  <2>1. PICK P \in IF Shadows(r) THEN {Items(request[r].models)}
                                 ELSE {{m} : m \in Items(request[r].models)} :
          request' = [request EXCEPT ![r].phase = "scoring", ![r].parts = P, ![r].left = P]
    BY <1>4 DEF Pick
  <2>2. P # {}
    <3>1. request[r].models # <<>> /\ request[r].models \in Seq(Models)
      BY <1>4 DEF Pick, PickedOK, Call
    <3>2. 1 \in DOMAIN request[r].models
      BY <3>1
    <3>3. request[r].models[1] \in Items(request[r].models)
      BY <3>2 DEF Items
    <3> QED
      BY <3>3
  <2>3. request'[r].phase = "scoring" /\ request'[r].parts = P
    BY <2>1 DEF Call
  <2>4. \A q \in Requests : q # r => request'[q] = request[q]
    BY <2>1
  <2> QED
    BY <2>2, <2>3, <2>4 DEF PickedOK
<1>5. ASSUME NEW r \in Requests, Complete(r) PROVE PickedOK'
  <2>1. PICK p \in {"answered", "failed"} : request' = [request EXCEPT ![r].phase = p]
    BY <1>5 DEF Complete
  <2>2. request'[r].phase = p
    BY <2>1 DEF Call
  <2>3. \A q \in Requests : q # r => request'[q] = request[q]
    BY <2>1
  <2> QED
    BY <2>2, <2>3 DEF PickedOK
<1>6. ASSUME NEW r \in Requests, NEW m \in request[r].left, Submit(r, m) PROVE PickedOK'
  <2>1. request' = [request EXCEPT ![r].left = @ \ {m}]
    BY <1>6 DEF Submit
  <2>2. \A q \in Requests : /\ request'[q].phase = request[q].phase /\ request'[q].models = request[q].models
                            /\ request'[q].parts = request[q].parts
    BY <2>1 DEF Call
  <2> QED
    BY <2>2 DEF PickedOK
<1>7. UNCHANGED request \/ UpdateMetrics
      \/ (\E r \in Requests : Receive(r) \/ Pick(r) \/ Complete(r))
      \/ (\E r \in Requests : \E m \in request[r].left : Submit(r, m))
  <2>1. Beside => \/ UNCHANGED request \/ UpdateMetrics
                  \/ \E r \in Requests : Receive(r) \/ Pick(r) \/ Complete(r)
    BY DEF Beside, Swap, vars
  <2>2. \A b : Take(b) => UNCHANGED request
    BY DEF Take
  <2>3. \A b : \A ok \in BOOLEAN : Infer(b, ok) => UNCHANGED request
    BY DEF Infer
  <2> QED
    BY <2>1, <2>2, <2>3, StepKinds
<1> QED
  BY <1>1, <1>2, <1>3, <1>4, <1>5, <1>6, <1>7

LEMMA ScoringInvInit == Init => ScoringInv
<1> SUFFICES ASSUME Init PROVE ScoringInv
  OBVIOUS
<1>1. SleepsWithOne
  BY DEF Init, SleepsWithOne
<1>2. PickedOK
  BY DEF Init, New, PickedOK
<1> QED
  BY <1>1, <1>2 DEF ScoringInv

LEMMA ScoringInvAlways == Spec => []ScoringInv
<1>1. TypeInv /\ ScoringInv /\ [Next]_vars => ScoringInv'
  BY SleepsStep, PickedStep DEF ScoringInv
<1> QED
  BY <1>1, ScoringInvInit, AddressAlways, PTL DEF Spec

\* How the calls of this module look to Scoring.
Chosen == [r \in Requests |-> request[r].parts]
AskedOf == [r \in Requests |-> request[r].parts \ request[r].left]
Outcome == [r \in Requests |-> IF request[r].phase \in {"answered", "failed"}
                               THEN request[r].phase ELSE "open"]

LEMMA SeenByRequest ==
  DOMAIN Chosen = Requests /\ DOMAIN AskedOf = Requests /\ DOMAIN Outcome = Requests
  BY DEF Chosen, AskedOf, Outcome

\* What does not change the calls as Scoring sees them nor the answers is no step of it.
LEMMA SeenUnchanged ==
  ASSUME UNCHANGED answers,
         \A r \in Requests : /\ request'[r].parts = request[r].parts
                             /\ request'[r].left = request[r].left
                             /\ Outcome'[r] = Outcome[r]
  PROVE  UNCHANGED (Promise!vars)
<1>1. Outcome' = Outcome
  <2> DEFINE o(r) == IF request[r].phase \in {"answered", "failed"} THEN request[r].phase ELSE "open"
  <2>1. \A r \in Requests : o(r)' = o(r)
    BY DEF Outcome
  <2> QED
    BY <2>1 DEF Outcome
<1> QED
  BY <1>1 DEF Promise!vars, Outcome

\* A pick chooses.
LEMMA PickChooses ==
  ASSUME TypeInv, ScoringInv, NEW r \in Requests, Pick(r)
  PROVE  Promise!Choose(r)
<1> USE DEF TypeInv, CallsOK
<1>1. PICK P \in IF Shadows(r) THEN {Items(request[r].models)}
                               ELSE {{m} : m \in Items(request[r].models)} :
        request' = [request EXCEPT ![r].phase = "scoring", ![r].parts = P, ![r].left = P]
  BY DEF Pick
<1>2. /\ request[r].phase = "features" /\ request[r].parts = {} /\ request[r].left = {}
      /\ request[r] \in Call /\ UNCHANGED answers
  BY DEF Pick
<1>3. P \subseteq Models
  BY <1>2 DEF Items, Call
<1>4. P # {}
  <2>1. request[r].models # <<>> /\ request[r].models \in Seq(Models)
    BY <1>2 DEF ScoringInv, PickedOK, Call
  <2>2. 1 \in DOMAIN request[r].models
    BY <2>1
  <2>3. request[r].models[1] \in Items(request[r].models)
    BY <2>2 DEF Items
  <2> QED
    BY <2>3
<1>5. /\ request'[r].phase = "scoring" /\ request'[r].parts = P /\ request'[r].left = P
      /\ \A q \in Requests : q # r => request'[q] = request[q]
  BY <1>1, <1>2 DEF Call
<1>6. Chosen' = [Chosen EXCEPT ![r] = P]
  BY <1>5 DEF Chosen
<1>7. AskedOf' = AskedOf
  BY <1>2, <1>5 DEF AskedOf
<1>8. Outcome' = Outcome
  BY <1>2, <1>5 DEF Outcome
<1>9. Outcome[r] = "open" /\ Chosen[r] = {}
  BY <1>2 DEF Outcome, Chosen
<1> QED
  BY <1>2, <1>3, <1>4, <1>6, <1>7, <1>8, <1>9 DEF Promise!Choose, Chosen, AskedOf, Outcome

\* Handing over a job asks.
LEMMA SubmitAsks ==
  ASSUME TypeInv, NEW r \in Requests, NEW m \in request[r].left, Submit(r, m)
  PROVE  Promise!Ask(r)
<1> USE DEF TypeInv, CallsOK
<1>1. /\ request' = [request EXCEPT ![r].left = @ \ {m}] /\ request[r].phase = "scoring"
      /\ UNCHANGED answers
  BY DEF Submit
<1>2. \A q \in Requests : /\ request'[q].phase = request[q].phase
                          /\ request'[q].parts = request[q].parts
                          /\ request'[q].left = IF q = r THEN request[q].left \ {m} ELSE request[q].left
  BY <1>1 DEF Call
<1>3. m \in request[r].parts
  OBVIOUS
<1> HIDE DEF TypeInv, CallsOK
<1>4. Chosen' = Chosen /\ Outcome' = Outcome /\ Outcome[r] = "open"
  BY <1>1, <1>2 DEF Chosen, Outcome
<1>5. m \in Chosen[r] \ AskedOf[r]
  BY <1>3 DEF Chosen, AskedOf
<1>6. AskedOf' = [AskedOf EXCEPT ![r] = @ \cup {m}]
  <2>1. \A q \in Requests : AskedOf'[q] = IF q = r THEN AskedOf[q] \cup {m} ELSE AskedOf[q]
    <3>1. \A q \in Requests : AskedOf[q] = request[q].parts \ request[q].left
      BY DEF AskedOf
    <3>2. \A q \in Requests : AskedOf'[q] = request'[q].parts \ request'[q].left
      BY DEF AskedOf
    <3>3. AskedOf'[r] = AskedOf[r] \cup {m}
      <4>1. AskedOf'[r] = request[r].parts \ (request[r].left \ {m})
        BY <1>2, <3>2
      <4>2. \A P, L : m \in P => P \ (L \ {m}) = (P \ L) \cup {m}
        OBVIOUS
      <4> QED
        BY <1>3, <3>1, <4>1, <4>2
    <3>4. ASSUME NEW q \in Requests, q # r PROVE AskedOf'[q] = AskedOf[q]
      <4>1. request'[q].parts = request[q].parts /\ request'[q].left = request[q].left
        BY <1>2, <3>4
      <4> QED
        BY <3>1, <3>2, <4>1
    <3> QED
      BY <3>3, <3>4, Zenon
  <2>2. AskedOf = [q \in Requests |-> AskedOf[q]] /\ AskedOf' = [q \in Requests |-> AskedOf'[q]]
    BY Zenon DEF AskedOf
  <2> QED
    BY <2>1, <2>2
<1>7. /\ Outcome[r] = "open" /\ UNCHANGED <<Chosen, answers, Outcome>>
      /\ \E n \in Chosen[r] \ AskedOf[r] : AskedOf' = [AskedOf EXCEPT ![r] = @ \cup {n}]
  BY <1>1, <1>4, <1>5, <1>6, Zenon
<1> QED
  BY <1>7, Zenon DEF Promise!Ask, Chosen, AskedOf, Outcome

\* A request is completed at the end of what was chosen and asked.
LEMMA CompleteEnds ==
  ASSUME TypeInv, ScoringInv, NEW r \in Requests, Complete(r)
  PROVE  Promise!End(r)
<1> USE DEF TypeInv, CallsOK
<1>1. /\ request[r].phase = "scoring" /\ request[r].left = {} /\ UNCHANGED answers
      /\ request[r].parts # {}
  BY DEF Complete, ScoringInv, PickedOK
<1>2. PICK p \in {"answered", "failed"} :
        /\ request' = [request EXCEPT ![r].phase = p]
        /\ p = "answered" => \A m \in request[r].parts : \E a \in answers[r] : a.of = m /\ a.ok
        /\ p = "failed" => \E a \in answers[r] : ~a.ok
  BY DEF Complete
<1>3. \A q \in Requests : /\ request'[q].parts = request[q].parts /\ request'[q].left = request[q].left
                          /\ request'[q].phase = IF q = r THEN p ELSE request[q].phase
  BY <1>2 DEF Call
<1>4. Chosen' = Chosen /\ AskedOf' = AskedOf
  BY <1>3 DEF Chosen, AskedOf
<1>5. Outcome' = [Outcome EXCEPT ![r] = p] /\ Outcome[r] = "open"
  BY <1>1, <1>3 DEF Outcome
<1>6. Chosen[r] # {} /\ AskedOf[r] = Chosen[r] /\ Chosen[r] = request[r].parts
  BY <1>1 DEF Chosen, AskedOf
<1> QED
  BY <1>1, <1>2, <1>4, <1>5, <1>6 DEF Promise!End, Chosen, AskedOf, Outcome

\* A list of one up to max jobs, padded with its first to max of them.
LEMMA PaddedTo ==
  ASSUME NEW s \in Seq(Job), NEW max \in Nat, Len(s) \in 1..max
  PROVE  \E f \in [1..max -> {j.request : j \in Items(s)}] :
           \A r : (\E i \in 1..max : f[i] = r) <=> r \in {j.request : j \in Items(s)}
<1> DEFINE R == {j.request : j \in Items(s)}
           f == [i \in 1..max |-> IF i <= Len(s) THEN s[i].request ELSE s[1].request]
<1>1. DOMAIN s = 1..Len(s) /\ 1 \in 1..Len(s) /\ 1..Len(s) \subseteq 1..max
  OBVIOUS
<1>2. R = {s[i].request : i \in 1..Len(s)}
  BY <1>1 DEF Items
<1>3. \A i \in 1..max : f[i] \in R
  <2>1. \A i \in 1..max : i <= Len(s) => i \in 1..Len(s)
    OBVIOUS
  <2> QED
    BY <1>1, <1>2, <2>1
<1>4. \A x \in R : \E i \in 1..max : f[i] = x
  <2>1. \A i \in 1..Len(s) : i \in 1..max /\ f[i] = s[i].request
    BY <1>1
  <2> HIDE DEF f
  <2> QED
    BY <1>2, <2>1
<1>5. f \in [1..max -> R]
  BY <1>3
<1> HIDE DEF f, R
<1>6. \A r : (\E i \in 1..max : f[i] = r) <=> r \in R
  BY <1>3, <1>4
<1> QED
  BY <1>5, <1>6 DEF R

\* A run of a batch computes, for up to MaxBatch requests that wait for its model.
LEMMA InferComputes ==
  ASSUME TypeInv, HeldInv, ScoringInv, NEW b, NEW ok \in BOOLEAN, Infer(b, ok)
  PROVE  \E m \in Models : Promise!Compute(m, ok)
<1> DEFINE m == batchers[b].model
<1>1. /\ b \in DOMAIN batchers /\ batchers[b].stage = "sleeping" /\ Len(batchers[b].batch) = 1
  BY InferMoves DEF ScoringInv, SleepsWithOne
<1>2. PICK full \in Seq(Job) :
        /\ Len(full) \in Len(batchers[b].batch)..(Len(batchers[b].batch) + (MaxBatch - 1))
        /\ Holds(b) = full \o Holds(b)' /\ answers' = AnswersAfter(full, b, ok)
  BY InferMoves, Zenon
<1>3. m \in Models
  BY <1>1, BatcherNumbers DEF Batcher
<1>4. Items(full) \subseteq Items(Holds(b))
  <2>1. Holds(b)' \in Seq(Job)
    <3>1. batchers'[b] \in Batcher
      BY InferMoves
    <3>2. batchers'[b].batch \in Seq(Job) /\ batchers'[b].queue \in Seq(Job)
      BY <3>1 DEF Batcher
    <3> QED
      BY <3>2, ConcatProperties DEF Holds
  <2> DEFINE t == Holds(b)'
  <2>2. t \in Seq(Job) /\ Holds(b) = full \o t
    BY <1>2, <2>1
  <2> HIDE DEF t
  <2>3. Items(full \o t) = Items(full) \cup Items(t)
    BY <2>2, ItemsConcat
  <2> QED
    BY <2>2, <2>3
<1>5. \A j \in Items(full) :
        j \in Job /\ j.model = m /\ m \in Asked(j.request) /\ ~Answered(j.request, m)
  BY <1>1, <1>4, JobIs DEF HeldInv, HeldPending
<1> DEFINE R == {j.request : j \in Items(full)}
<1>6. R \subseteq Promise!Waiting(m)
  <2>1. \A r \in R : r \in Requests /\ m \in Asked(r) /\ ~Answered(r, m)
    BY <1>5 DEF Job
  <2> HIDE DEF R
  <2> QED
    BY <2>1 DEF Asked, Answered, Promise!Waiting
<1>7. PICK f \in [1..MaxBatch -> R] : \A r : (\E i \in 1..MaxBatch : f[i] = r) <=> r \in R
  <2>1. Len(full) \in 1..MaxBatch /\ MaxBatch \in Nat
    <3>1. Len(full) \in 1..(1 + (MaxBatch - 1))
      BY <1>1, <1>2
    <3> QED
      BY <3>1, BatcherAssumption
  <2> QED
    BY <2>1, PaddedTo
<1>8. answers' = [r \in Requests |->
        IF r \in R THEN answers[r] \cup {[of |-> m, by |-> m, ok |-> ok]} ELSE answers[r]]
  <2>1. \A r \in Requests :
          {[of |-> j.model, by |-> m, ok |-> ok] : j \in {i \in Items(full) : i.request = r}}
            = IF r \in R THEN {[of |-> m, by |-> m, ok |-> ok]} ELSE {}
    BY <1>5
  <2> HIDE DEF R
  <2>2. \A r \in Requests :
          answers[r] \cup {[of |-> j.model, by |-> m, ok |-> ok] : j \in {i \in Items(full) : i.request = r}}
            = IF r \in R THEN answers[r] \cup {[of |-> m, by |-> m, ok |-> ok]} ELSE answers[r]
    BY <2>1
  <2> QED
    BY <1>2, <2>2 DEF AnswersAfter
<1>9. UNCHANGED request
  BY DEF Infer
<1>10. Chosen' = Chosen /\ AskedOf' = AskedOf /\ Outcome' = Outcome
  BY <1>9 DEF Chosen, AskedOf, Outcome
<1> HIDE DEF m, R
<1>11. Promise!Compute(m, ok)
  <2>1. UNCHANGED <<Chosen, AskedOf, Outcome>>
    BY <1>10
  <2>2. f \in [1..MaxBatch -> Promise!Waiting(m)]
    BY <1>6, <1>7
  <2>3. answers' = [r \in Requests |->
          IF \E i \in 1..MaxBatch : f[i] = r
            THEN answers[r] \cup {[of |-> m, by |-> m, ok |-> ok]} ELSE answers[r]]
    BY <1>7, <1>8
  <2>4. \E batch \in [1..MaxBatch -> Promise!Waiting(m)] :
          answers' = [r \in Requests |->
            IF \E i \in 1..MaxBatch : batch[i] = r
              THEN answers[r] \cup {[of |-> m, by |-> m, ok |-> ok]} ELSE answers[r]]
    BY <2>2, <2>3, Zenon
  <2> QED
    BY <2>1, <2>4, Zenon DEF Promise!Compute, Chosen, AskedOf, Outcome
<1> QED
  BY <1>3, <1>11

\* Every step is one of Scoring, or none it sees.
LEMMA PromiseStep ==
  ASSUME TypeInv, HeldInv, ScoringInv, [Next]_vars
  PROVE  [Promise!Next]_(Promise!vars)
<1>1. CASE Swap \/ UNCHANGED vars \/ \E b : Take(b)
  <2>1. UNCHANGED <<request, answers>>
    <3>1. CASE Swap
      BY <3>1, Zenon DEF Swap
    <3>2. CASE UNCHANGED vars
      BY <3>2 DEF vars
    <3>3. ASSUME NEW b, Take(b) PROVE UNCHANGED <<request, answers>>
      BY <3>3, Zenon DEF Take
    <3> QED
      BY <1>1, <3>1, <3>2, <3>3
  <2>2. UNCHANGED (Promise!vars)
    BY <2>1 DEF Promise!vars
  <2> QED
    BY <2>2
<1>2. CASE UpdateMetrics \/ \E r \in Requests : Receive(r)
  <2>1. UNCHANGED answers
    BY <1>2 DEF UpdateMetrics, Receive
  <2>2. \A r \in Requests :
          /\ request'[r].parts = request[r].parts /\ request'[r].left = request[r].left
          /\ \/ request'[r].phase = request[r].phase
             \/ request[r].phase = "new" /\ request'[r].phase = "features"
    <3> USE DEF TypeInv, CallsOK
    <3>1. CASE UpdateMetrics
      BY <3>1 DEF UpdateMetrics, Call
    <3>2. ASSUME NEW q \in Requests, Receive(q)
          PROVE  \A r \in Requests :
                   /\ request'[r].parts = request[r].parts /\ request'[r].left = request[r].left
                   /\ \/ request'[r].phase = request[r].phase
                      \/ request[r].phase = "new" /\ request'[r].phase = "features"
      <4>1. /\ request[q].phase = "new"
            /\ request' = [request EXCEPT ![q].phase = "features", ![q].models = current]
        BY <3>2 DEF Receive
      <4>2. /\ request'[q].phase = "features"
            /\ request'[q].parts = request[q].parts /\ request'[q].left = request[q].left
        BY <4>1 DEF Call
      <4>3. \A r \in Requests : r # q => request'[r] = request[r]
        BY <4>1
      <4> QED
        BY <4>1, <4>2, <4>3
    <3> QED
      BY <1>2, <3>1, <3>2
  <2>3. \A r \in Requests : Outcome'[r] = Outcome[r]
    BY <2>2 DEF Outcome
  <2>4. UNCHANGED (Promise!vars)
    BY <2>1, <2>2, <2>3, SeenUnchanged
  <2> QED
    BY <2>4
<1>3. ASSUME NEW r \in Requests, Pick(r) PROVE Promise!Next
  BY <1>3, PickChooses DEF Promise!Next
<1>4. ASSUME NEW r \in Requests, Complete(r) PROVE Promise!Next
  BY <1>4, CompleteEnds DEF Promise!Next
<1>5. ASSUME NEW r \in Requests, NEW m \in request[r].left, Submit(r, m) PROVE Promise!Next
  BY <1>5, SubmitAsks DEF Promise!Next
<1>6. ASSUME NEW b, NEW ok \in BOOLEAN, Infer(b, ok) PROVE Promise!Next
  <2>1. PICK m \in Models : Promise!Compute(m, ok)
    BY <1>6, InferComputes
  <2> QED
    BY <2>1 DEF Promise!Next
<1> QED
  BY <1>1, <1>2, <1>3, <1>4, <1>5, <1>6, StepKinds DEF Beside

LEMMA PromiseInit == Init => Promise!Init
  BY DEF Init, New, Promise!Init

\* Scoring in a worker, with its batchers, its table keyed by addresses that are used
\* again and the swaps of its models, implements Scoring (score, ModelBatcher).
THEOREM ImplementsScoring == Spec => ScoringSpec
  BY PromiseInit, PromiseStep, HeldAlways, AddressAlways, ScoringInvAlways, PTL
     DEF Spec, ScoringSpec, Promise!Spec

-----------------------------------------------------------------------------
(* What Scoring promises, as an invariant of it.                           *)

Result == [of : Models, by : Models, ok : BOOLEAN]

OnceEach(r) ==
  /\ answers[r] \subseteq Result
  /\ \A a \in answers[r] : a.by = a.of /\ a.of \in AskedOf[r]
  /\ \A a, b \in answers[r] : a.of = b.of => a = b
  /\ Outcome[r] = "answered" =>
       \A m \in Chosen[r] : [of |-> m, by |-> m, ok |-> TRUE] \in answers[r]
  /\ Outcome[r] = "failed" => \E a \in answers[r] : ~a.ok

OnceInv == \A r \in Requests : OnceEach(r)

\* Choosing, asking and ending keep it: what is given does not change, and a request
\* that has ended chooses no more.
LEMMA OnceChoose ==
  ASSUME OnceInv, NEW r \in Requests, Promise!Choose(r)
  PROVE  OnceInv'
<1>1. /\ Outcome[r] = "open" /\ \E P : Chosen' = [Chosen EXCEPT ![r] = P]
      /\ AskedOf' = AskedOf /\ Outcome' = Outcome /\ answers' = answers
  BY DEF Promise!Choose, Chosen, AskedOf, Outcome
<1>2. \A q \in Requests : q # r => Chosen'[q] = Chosen[q]
  BY <1>1, SeenByRequest
<1>3. ASSUME NEW q \in Requests PROVE OnceEach(q)'
  BY <1>1, <1>2 DEF OnceInv, OnceEach
<1> QED
  BY <1>3 DEF OnceInv

LEMMA OnceAsk ==
  ASSUME OnceInv, NEW r \in Requests, Promise!Ask(r)
  PROVE  OnceInv'
<1>1. /\ \E m : AskedOf' = [AskedOf EXCEPT ![r] = @ \cup {m}]
      /\ Chosen' = Chosen /\ Outcome' = Outcome /\ answers' = answers
  BY DEF Promise!Ask, Chosen, AskedOf, Outcome
<1>2. \A q \in Requests : AskedOf[q] \subseteq AskedOf'[q]
  BY <1>1, SeenByRequest
<1>3. ASSUME NEW q \in Requests PROVE OnceEach(q)'
  BY <1>1, <1>2 DEF OnceInv, OnceEach
<1> QED
  BY <1>3 DEF OnceInv

LEMMA OnceEnd ==
  ASSUME OnceInv, NEW r \in Requests, Promise!End(r)
  PROVE  OnceInv'
<1>1. PICK p \in {"answered", "failed"} :
        /\ Outcome' = [Outcome EXCEPT ![r] = p]
        /\ p = "answered" => \A m \in Chosen[r] : \E a \in answers[r] : a.of = m /\ a.ok
        /\ p = "failed" => \E a \in answers[r] : ~a.ok
  BY DEF Promise!End, Chosen, AskedOf, Outcome
<1>2. Chosen' = Chosen /\ AskedOf' = AskedOf /\ answers' = answers
  BY DEF Promise!End, Chosen, AskedOf
<1>3. \A q \in Requests : Outcome'[q] = IF q = r THEN p ELSE Outcome[q]
  BY <1>1, SeenByRequest
<1>4. p = "answered" => \A m \in Chosen[r] : [of |-> m, by |-> m, ok |-> TRUE] \in answers[r]
  <2>1. ASSUME p = "answered", NEW m \in Chosen[r]
        PROVE  [of |-> m, by |-> m, ok |-> TRUE] \in answers[r]
    <3>1. PICK a \in answers[r] : a.of = m /\ a.ok
      BY <1>1, <2>1
    <3>2. a \in Result /\ a.by = a.of
      BY DEF OnceInv, OnceEach
    <3>3. a = [of |-> m, by |-> m, ok |-> TRUE]
      BY <3>1, <3>2 DEF Result
    <3> QED
      BY <3>3
  <2> QED
    BY <2>1
<1>5. ASSUME NEW q \in Requests PROVE OnceEach(q)'
  BY <1>1, <1>2, <1>3, <1>4 DEF OnceInv, OnceEach
<1> QED
  BY <1>5 DEF OnceInv

\* A computation gives a result only to requests that wait for one of that model.
LEMMA OnceCompute ==
  ASSUME OnceInv, NEW m \in Models, NEW ok \in BOOLEAN, Promise!Compute(m, ok)
  PROVE  OnceInv'
<1> DEFINE new == [of |-> m, by |-> m, ok |-> ok]
<1>1. PICK f \in [1..MaxBatch -> Promise!Waiting(m)] :
        answers' = [q \in Requests |->
          IF \E i \in 1..MaxBatch : f[i] = q THEN answers[q] \cup {new} ELSE answers[q]]
  BY Zenon DEF Promise!Compute
<1>2. Chosen' = Chosen /\ AskedOf' = AskedOf /\ Outcome' = Outcome
  BY DEF Promise!Compute, Chosen, AskedOf, Outcome
<1>3. \A q : q \in Promise!Waiting(m) => m \in AskedOf[q] /\ \A a \in answers[q] : a.of # m
  BY DEF Promise!Waiting, AskedOf
<1>4. new \in Result /\ new.of = m /\ new.by = m
  BY DEF Result
<1> HIDE DEF new
<1>5. ASSUME NEW q \in Requests PROVE OnceEach(q)'
  <2>1. CASE answers'[q] = answers[q]
    BY <1>2, <2>1 DEF OnceInv, OnceEach
  <2>2. CASE answers'[q] # answers[q]
    <3>1. \E i \in 1..MaxBatch : f[i] = q
      BY <1>1, <2>2
    <3>2. q \in Promise!Waiting(m) /\ answers'[q] = answers[q] \cup {new}
      BY <1>1, <3>1
    <3>3. m \in AskedOf[q] /\ \A a \in answers[q] : a.of # m
      BY <1>3, <3>2
    <3> QED
      BY <1>2, <1>4, <3>2, <3>3 DEF OnceInv, OnceEach
  <2> QED
    BY <2>1, <2>2
<1> QED
  BY <1>5 DEF OnceInv

LEMMA OnceNext ==
  ASSUME OnceInv, [Promise!Next]_(Promise!vars)
  PROVE  OnceInv'
<1>1. CASE UNCHANGED (Promise!vars)
  <2>1. Chosen' = Chosen /\ AskedOf' = AskedOf /\ Outcome' = Outcome /\ answers' = answers
    BY <1>1 DEF Promise!vars, Chosen, AskedOf, Outcome
  <2> QED
    BY <2>1 DEF OnceInv, OnceEach
<1>2. CASE Promise!Next
  BY <1>2, OnceChoose, OnceAsk, OnceEnd, OnceCompute DEF Promise!Next
<1> QED
  BY <1>1, <1>2

LEMMA OnceInit == Promise!Init => OnceInv
<1> SUFFICES ASSUME Promise!Init PROVE OnceInv
  OBVIOUS
<1>1. /\ answers = [r \in Requests |-> {}] /\ Outcome = [r \in Requests |-> "open"]
  BY DEF Promise!Init, Outcome
<1> QED
  BY <1>1 DEF OnceInv, OnceEach

LEMMA OnceMeans == OnceInv => Promise!OneResultEach
  BY DEF OnceInv, OnceEach, Promise!OneResultEach, Chosen, AskedOf, Outcome

\* What Scoring promises: a request has one result of a model, made by that model, of one
\* it has asked, and ends only when it has a score of each model chosen for it, or a failure.
THEOREM PromiseKept == Promise!Spec => []Promise!OneResultEach
  BY OnceInit, OnceNext, OnceMeans, PTL DEF Promise!Spec

\* So it is in a worker: a future of score has one result, of its own model.
THEOREM OneResultAlways == Spec => []Promise!OneResultEach
  BY ImplementsScoring, PromiseKept DEF ScoringSpec

=============================================================================
