------------------------- MODULE SlidingWindowProofs -------------------------
(***************************************************************************)
(* Proofs about SlidingWindow, for any number of callers, any settings and *)
(* any resolution of the clock: no window holds too many admissions, the   *)
(* tracked keys stay bounded, Retry-After is honest, and the lazy          *)
(* bookkeeping answers every call as AdmissionPolicy does.                 *)
(***************************************************************************)
EXTENDS SlidingWindow, FiniteSetTheorems, SequenceTheorems, TLAPS

-----------------------------------------------------------------------------
(* The inductive invariant. *)

(* What is in a queue: ascending times up to now, never none and never more
   than the limit. *)
QueueOK(queue) ==
  /\ queue \in Seq(Nat)
  /\ Len(queue) \in 1..MaxRequests
  /\ \A i, j \in 1..Len(queue) : i <= j => queue[i] <= queue[j]
  /\ \A i \in 1..Len(queue) : queue[i] <= now

QueueInv ==
  \A k \in DOMAIN events : QueueOK(events[k]) /\ last_seen[k] <= now

(* The keys in the two dicts, and room for them. *)
DictInv ==
  /\ DOMAIN last_seen = DOMAIN events
  /\ IsFiniteSet(DOMAIN events)
  /\ Cardinality(DOMAIN events) <= MaxKeys

Queue(k) == IF k \in DOMAIN events THEN events[k] ELSE <<>>

(* How many admissions of k were dropped from its queue. *)
Dropped(k) == Len(granted[k]) - Len(Queue(k))

(* The queue is the end of the history, and what is missing has expired. *)
HistoryInv ==
  \A k \in Keys :
    /\ Dropped(k) >= 0
    /\ \A i \in 1..Len(Queue(k)) : granted[k][Dropped(k) + i] = Queue(k)[i]
    /\ \A i \in 1..Dropped(k) : granted[k][i] <= now - Window

(* A refused caller finds its queue as the refusal left it, full and with the
   entry at its head that the answer was computed from; or it is gone. *)
RefusedInv ==
  \A k \in Keys :
    answers[k].verdict = "refused" =>
      LET free == answers[k].at + answers[k].retry * TicksPerSecond IN
      /\ k \in DOMAIN events =>
           /\ Len(events[k]) = MaxRequests
           /\ events[k][1] + Window < free + TicksPerSecond
           /\ answers[k].retry > 1 => free <= events[k][1] + Window
      /\ k \notin DOMAIN events =>
           granted[k] = <<>> \/ answers[k].retry <= 1 \/ free <= now

IInv ==
  /\ TypeOK
  /\ DictInv
  /\ QueueInv
  /\ HistoryInv
  /\ RefusedInv
  /\ WindowBound

-----------------------------------------------------------------------------
(* Queues. *)

LEMMA Settings ==
  /\ MaxRequests \in Nat \ {0} /\ MaxKeys \in Nat \ {0}
  /\ TicksPerSecond \in Nat \ {0} /\ MaxTime \in Nat
  /\ Window \in Nat \ {0}
BY SettingsAssumption, ClockAssumption DEF Window

Ascending(queue) ==
  \A i, j \in 1..Len(queue) : i <= j => queue[i] <= queue[j]

(* n is how many entries at the head of the queue are not later than t. *)
Splits(n, queue, t) ==
  \A i \in 1..Len(queue) : queue[i] <= t <=> i <= n

(* Those entries of an ascending queue are at its head. *)
LEMMA HeadExpires ==
  ASSUME NEW queue \in Seq(Nat), Ascending(queue), NEW t \in Int
  PROVE  \E n \in 0..Len(queue) : Splits(n, queue, t)
<1> DEFINE old == {i \in 1..Len(queue) : queue[i] <= t}
           n   == Cardinality(old)
<1>1. Len(queue) \in Nat
  OBVIOUS
<1>2. /\ IsFiniteSet(1..Len(queue)) /\ Cardinality(1..Len(queue)) = Len(queue)
      /\ IsFiniteSet(old) /\ n <= Len(queue) /\ n \in Nat
  <2>1. IsFiniteSet(1..Len(queue)) /\ Cardinality(1..Len(queue)) = Len(queue)
    <3>1. 1 \in Int /\ Len(queue) \in Int
      BY <1>1
    <3> HIDE DEF old
    <3>2. /\ IsFiniteSet(1..Len(queue))
          /\ Cardinality(1..Len(queue))
               = IF 1 > Len(queue) THEN 0 ELSE Len(queue) - 1 + 1
      BY <3>1, FS_Interval
    <3> QED
      BY <1>1, <3>2
  <2>2. old \in SUBSET (1..Len(queue))
    OBVIOUS
  <2> HIDE DEF old
  <2> QED
    BY <2>1, <2>2, FS_Subset, FS_CardinalityType
<1>3. ASSUME NEW i \in 1..Len(queue), queue[i] <= t
      PROVE  i <= n
  <2>1. 1..i \in SUBSET old
    BY <1>1, <1>3 DEF Ascending
  <2>2. Cardinality(1..i) = i
    BY FS_Interval
  <2> HIDE DEF old
  <2>3. IsFiniteSet(old)
    BY <1>2
  <2>4. Cardinality(1..i) <= n
    BY <2>1, <2>3, FS_Subset
  <2> HIDE DEF n
  <2> QED
    BY <2>2, <2>4
<1>4. ASSUME NEW i \in 1..Len(queue), ~(queue[i] <= t)
      PROVE  ~(i <= n)
  <2>1. old \in SUBSET (1..(i - 1))
    BY <1>1, <1>4 DEF Ascending
  <2>2. IsFiniteSet(1..(i - 1)) /\ Cardinality(1..(i - 1)) = i - 1
    BY FS_Interval
  <2> HIDE DEF old
  <2>3. Cardinality(old) <= Cardinality(1..(i - 1))
    BY <2>1, <2>2, FS_Subset
  <2>4. n <= i - 1
    BY <2>2, <2>3
  <2> HIDE DEF n
  <2> QED
    BY <1>2, <2>4
<1>5. n \in 0..Len(queue) /\ Splits(n, queue, t)
  <2> HIDE DEF n
  <2> QED
    BY <1>1, <1>2, <1>3, <1>4 DEF Splits
<1> QED
  BY <1>5

(* What is left: as the policy says it and as popleft() does it. *)
LEMMA WhatIsLeft ==
  ASSUME NEW queue \in Seq(Nat), NEW t \in Int, NEW n \in 0..Len(queue),
         Splits(n, queue, t)
  PROVE  /\ Later(queue, t) \in Seq(Nat)
         /\ Len(Later(queue, t)) = Len(queue) - n
         /\ \A i \in 1..Len(queue) - n : Later(queue, t)[i] = queue[n + i]
         /\ PopLeft(queue, t) = Later(queue, t)
<1>1. Len(queue) \in Nat /\ \A i \in 1..Len(queue) : queue[i] \in Nat
  OBVIOUS
<1>2. {i \in 1..Len(queue) : queue[i] <= t} = 1..n
  BY <1>1 DEF Splits
<1>3. Cardinality(1..n) = n
  BY <1>1, FS_Interval
<1>4. Later(queue, t) = SubSeq(queue, 1 + n, Len(queue))
  BY <1>2, <1>3 DEF Later
<1>5. \A i \in (1 + n)..Len(queue) : queue[i] \in Nat
  BY <1>1
<1>6. PopLeft(queue, t) = SubSeq(queue, 1 + n, Len(queue))
  <2> DEFINE First(i) == /\ \A j \in 1..i - 1 : queue[j] <= t
                         /\ i <= Len(queue) => queue[i] > t
  <2>1. n + 1 \in 1..Len(queue) + 1 /\ First(n + 1)
    BY <1>1 DEF Splits
  <2>2. ASSUME NEW i \in 1..Len(queue) + 1, First(i) PROVE i = n + 1
    <3>1. CASE i <= n
      BY <1>1, <2>2, <3>1 DEF Splits
    <3>2. CASE i > n + 1
      <4>1. n + 1 \in 1..i - 1 /\ n + 1 \in 1..Len(queue)
        BY <1>1, <3>2
      <4> QED
        BY <1>1, <2>2, <4>1 DEF Splits
    <3> QED
      BY <1>1, <3>1, <3>2
  <2>3. (CHOOSE i \in 1..Len(queue) + 1 : First(i)) = n + 1
    BY <2>1, <2>2
  <2> QED
    <3>1. PopLeft(queue, t)
            = SubSeq(queue, CHOOSE i \in 1..Len(queue) + 1 : First(i), Len(queue))
      BY DEF PopLeft
    <3> HIDE DEF First
    <3>2. n + 1 = 1 + n
      BY <1>1
    <3> QED
      BY <2>3, <3>1, <3>2
<1> QED
  <2>1. Len(queue) \in Int /\ 1 + n \in Int
    BY <1>1
  <2> QED
    BY <1>1, <1>4, <1>5, <1>6, <2>1, SubSeqProperties

(* Dropping twice is dropping once, up to the later time. *)
LEMMA LaterTwice ==
  ASSUME NEW queue \in Seq(Nat), Ascending(queue), NEW t \in Int, NEW u \in Int,
         t <= u
  PROVE  Later(Later(queue, t), u) = Later(queue, u)
<1>1. PICK n \in 0..Len(queue) : Splits(n, queue, t)
  BY HeadExpires
<1>2. PICK m \in 0..Len(queue) : Splits(m, queue, u)
  BY HeadExpires
<1> DEFINE left == Later(queue, t)
<1>3. Len(queue) \in Nat /\ \A i \in 1..Len(queue) : queue[i] \in Nat
  OBVIOUS
<1>4. /\ left \in Seq(Nat) /\ Len(left) = Len(queue) - n
      /\ \A i \in 1..Len(queue) - n : left[i] = queue[n + i]
  BY <1>1, WhatIsLeft
<1>5. n <= m
  BY <1>1, <1>2, <1>3 DEF Splits
<1>6. Splits(m - n, left, u) /\ m - n \in 0..Len(left)
  <2>1. m - n \in 0..Len(left)
    BY <1>3, <1>4, <1>5
  <2>2. ASSUME NEW i \in 1..Len(left)
        PROVE  left[i] <= u <=> i <= m - n
    <3>1. left[i] = queue[n + i] /\ n + i \in 1..Len(queue)
      BY <1>3, <1>4
    <3>2. queue[n + i] <= u <=> n + i <= m
      BY <1>2, <3>1 DEF Splits
    <3> HIDE DEF left
    <3> QED
      BY <1>3, <1>4, <3>1, <3>2
  <2> HIDE DEF left
  <2> QED
    BY <2>1, <2>2 DEF Splits
<1>7. /\ Later(left, u) \in Seq(Nat) /\ Len(Later(left, u)) = Len(left) - (m - n)
      /\ \A i \in 1..Len(left) - (m - n) : Later(left, u)[i] = left[(m - n) + i]
  <2> HIDE DEF left
  <2> QED
    BY <1>4, <1>6, WhatIsLeft
<1>8. /\ Later(queue, u) \in Seq(Nat) /\ Len(Later(queue, u)) = Len(queue) - m
      /\ \A i \in 1..Len(queue) - m : Later(queue, u)[i] = queue[m + i]
  BY <1>2, WhatIsLeft
<1>9. Len(Later(left, u)) = Len(Later(queue, u))
  BY <1>3, <1>4, <1>7, <1>8
<1>10. ASSUME NEW i \in 1..Len(Later(queue, u))
       PROVE  Later(left, u)[i] = Later(queue, u)[i]
  <2>1. Later(left, u)[i] = left[(m - n) + i]
    BY <1>3, <1>4, <1>7, <1>8
  <2>2. left[(m - n) + i] = queue[n + ((m - n) + i)]
    <3>1. (m - n) + i \in 1..Len(queue) - n
      BY <1>3, <1>5, <1>8
    <3> HIDE DEF left
    <3> QED
      BY <1>4, <3>1
  <2>3. n + ((m - n) + i) = m + i
    BY <1>3
  <2> QED
    BY <1>8, <2>1, <2>2, <2>3
<1> HIDE DEF left
<1> QED
  BY <1>7, <1>8, <1>9, <1>10, SeqEqual DEF left

(* The recent admissions of a key, in terms of its queue. *)
LEMMA RecentIs ==
  ASSUME TypeOK, QueueInv, NEW k \in Keys
  PROVE  /\ Recent(k) \in Seq(Nat) /\ Queue(k) \in Seq(Nat)
         /\ \E n \in 0..Len(Queue(k)) :
              /\ Len(Recent(k)) = Len(Queue(k)) - n
              /\ \A i \in 1..Len(Recent(k)) : Recent(k)[i] = Queue(k)[n + i]
              /\ \A i \in 1..Len(Queue(k)) : Queue(k)[i] <= now - Window <=> i <= n
         /\ k \in Unpruned(now - Window) <=> Recent(k) # <<>>
         /\ k \in Unpruned(now - Window)
              => PopLeft(events[k], now - Window) = Recent(k)
<1>0. now \in Nat /\ now - Window \in Int
  BY Settings DEF TypeOK
<1>1. CASE k \notin DOMAIN events
  <2>1. Recent(k) = <<>> /\ Queue(k) = <<>> /\ k \notin Unpruned(now - Window)
    BY <1>1 DEF Recent, Queue, Unpruned
  <2> QED
    BY <2>1
<1>2. CASE k \in DOMAIN events
  <2> DEFINE q == events[k]
  <2>1. /\ q \in Seq(Nat) /\ Ascending(q) /\ Len(q) \in Nat \ {0} /\ q # <<>>
        /\ \A i \in 1..Len(q) : q[i] \in Nat
    <3>1. /\ q \in Seq(Nat) /\ Len(q) \in 1..MaxRequests
          /\ \A i, j \in 1..Len(q) : i <= j => q[i] <= q[j]
      BY <1>2 DEF QueueInv, QueueOK
    <3> HIDE DEF q
    <3> QED
      BY <3>1, Settings DEF Ascending
  <2>2. PICK n \in 0..Len(q) : Splits(n, q, now - Window)
    BY <1>0, <2>1, HeadExpires
  <2>3. Recent(k) = Later(q, now - Window) /\ Queue(k) = q
    BY <1>2 DEF Recent, Queue
  <2>4. /\ Recent(k) \in Seq(Nat) /\ Len(Recent(k)) = Len(q) - n
        /\ \A i \in 1..Len(q) - n : Recent(k)[i] = q[n + i]
        /\ PopLeft(q, now - Window) = Recent(k)
    <3> HIDE DEF q
    <3>1. /\ Later(q, now - Window) \in Seq(Nat)
          /\ Len(Later(q, now - Window)) = Len(q) - n
          /\ \A i \in 1..Len(q) - n : Later(q, now - Window)[i] = q[n + i]
          /\ PopLeft(q, now - Window) = Later(q, now - Window)
      BY <1>0, <2>1, <2>2, WhatIsLeft
    <3> QED
      BY <2>3, <3>1
  <2>5. k \in Unpruned(now - Window) <=> q[Len(q)] > now - Window
    BY <1>2, <2>1 DEF Unpruned
  <2>6. Recent(k) # <<>> <=> n < Len(q)
    BY <2>1, <2>4, EmptySeq
  <2>7. q[Len(q)] > now - Window <=> n < Len(q)
    <3> HIDE DEF q
    <3>1. Len(q) \in 1..Len(q) /\ q[Len(q)] \in Nat
      BY <2>1
    <3>2. q[Len(q)] <= now - Window <=> Len(q) <= n
      BY <2>2, <3>1 DEF Splits
    <3> QED
      BY <1>0, <2>1, <3>1, <3>2
  <2> QED
    BY <2>1, <2>2, <2>3, <2>4, <2>5, <2>6, <2>7 DEF Splits
<1> QED
  BY <1>1, <1>2

(* What is recent is in order, after the start of the window and not more
   than the limit. *)
LEMMA RecentOrdered ==
  ASSUME TypeOK, QueueInv, NEW k \in Keys
  PROVE  /\ Len(Recent(k)) \in 0..MaxRequests
         /\ \A i, j \in 1..Len(Recent(k)) :
              i <= j => Recent(k)[i] <= Recent(k)[j]
         /\ \A i \in 1..Len(Recent(k)) :
              /\ Recent(k)[i] \in Nat
              /\ Recent(k)[i] <= now /\ Recent(k)[i] > now - Window
<1>1. /\ Recent(k) \in Seq(Nat) /\ Queue(k) \in Seq(Nat)
      /\ Len(Queue(k)) \in 0..MaxRequests
      /\ \A i, j \in 1..Len(Queue(k)) : i <= j => Queue(k)[i] <= Queue(k)[j]
      /\ \A i \in 1..Len(Queue(k)) : Queue(k)[i] <= now /\ Queue(k)[i] \in Nat
  <2>1. CASE k \in DOMAIN events
    BY <2>1, RecentIs, Settings DEF QueueInv, QueueOK, Queue
  <2>2. CASE k \notin DOMAIN events
    BY <2>2, RecentIs, Settings DEF Queue
  <2> QED
    BY <2>1, <2>2
<1>2. PICK n \in 0..Len(Queue(k)) :
        /\ Len(Recent(k)) = Len(Queue(k)) - n
        /\ \A i \in 1..Len(Recent(k)) : Recent(k)[i] = Queue(k)[n + i]
        /\ \A i \in 1..Len(Queue(k)) : Queue(k)[i] <= now - Window <=> i <= n
  BY RecentIs
<1>3. now - Window \in Int
  BY Settings DEF TypeOK
<1>4. \A i \in 1..Len(Recent(k)) : n + i \in 1..Len(Queue(k)) /\ ~(n + i <= n)
  BY <1>1, <1>2
<1>5. Len(Recent(k)) \in 0..MaxRequests
  BY <1>1, <1>2, Settings
<1>6. ASSUME NEW i \in 1..Len(Recent(k)), NEW j \in 1..Len(Recent(k)), i <= j
      PROVE  Recent(k)[i] <= Recent(k)[j]
  <2>1. n + i <= n + j
    BY <1>1, <1>6
  <2> QED
    BY <1>1, <1>2, <1>4, <2>1
<1>7. ASSUME NEW i \in 1..Len(Recent(k))
      PROVE  /\ Recent(k)[i] \in Nat
             /\ Recent(k)[i] <= now /\ Recent(k)[i] > now - Window
  <2>1. Recent(k)[i] = Queue(k)[n + i] /\ n + i \in 1..Len(Queue(k))
    BY <1>2, <1>4
  <2>2. ~(Queue(k)[n + i] <= now - Window) /\ Queue(k)[n + i] \in Nat
    BY <1>1, <1>2, <1>4
  <2> QED
    BY <1>1, <1>3, <2>1, <2>2
<1> QED
  BY <1>5, <1>6, <1>7

-----------------------------------------------------------------------------
(* What a call of check() leaves. *)

Kept == Unpruned(now - Window)

NewQueue(k) == IF WouldAdmit(k) THEN Append(Recent(k), now) ELSE Recent(k)

LEMMA CheckIs ==
  ASSUME TypeOK, QueueInv, NEW k \in Keys, Check(k)
  PROVE  \E gone \in Evictions(k, Kept) :
           /\ events' = [x \in (Kept \ gone) \cup {k} |->
                           IF x # k THEN events[x] ELSE NewQueue(k)]
           /\ last_seen' = [x \in (Kept \ gone) \cup {k} |->
                              IF x = k THEN now ELSE last_seen[x]]
           /\ answers' =
                [answers EXCEPT ![k] =
                   IF WouldAdmit(k)
                   THEN [verdict |-> "admitted", at |-> now, retry |-> 0]
                   ELSE [verdict |-> "refused", at |-> now,
                         retry |-> RetryAfter(Recent(k), now)]]
           /\ granted' = [x \in Keys |->
                            IF x \in gone THEN <<>>
                            ELSE IF x = k /\ WouldAdmit(k)
                                 THEN Append(granted[x], now)
                                 ELSE granted[x]]
           /\ now' = now
<1>1. (IF k \in Kept THEN PopLeft(events[k], now - Window) ELSE <<>>) = Recent(k)
  BY RecentIs DEF Kept
<1>2. (Len(Recent(k)) < MaxRequests) = WouldAdmit(k)
  BY DEF WouldAdmit
<1> QED
  BY <1>1, <1>2, ZenonT(30) DEF Check, Kept, NewQueue

(* Only tracked keys are evicted, never the one that calls. *)
LEMMA EvictedAreKept ==
  ASSUME NEW k, NEW kept, NEW gone \in Evictions(k, kept)
  PROVE  gone \subseteq kept \ {k}
BY DEF Evictions, OldestKey

LEMMA NewQueueIs ==
  ASSUME TypeOK, QueueInv, NEW k \in Keys
  PROVE  /\ QueueOK(NewQueue(k))
         /\ ~WouldAdmit(k) => NewQueue(k) = Recent(k) /\ Len(Recent(k)) = MaxRequests
         /\ WouldAdmit(k) =>
              /\ NewQueue(k) = Append(Recent(k), now)
              /\ Len(NewQueue(k)) = Len(Recent(k)) + 1
              /\ NewQueue(k)[Len(Recent(k)) + 1] = now
              /\ \A i \in 1..Len(Recent(k)) : NewQueue(k)[i] = Recent(k)[i]
         /\ \A i \in 1..Len(NewQueue(k)) : NewQueue(k)[i] > now - Window
<1>1. now \in Nat /\ Recent(k) \in Seq(Nat) /\ now > now - Window
  BY RecentIs, Settings DEF TypeOK
<1> DEFINE r == Recent(k)
           m == Len(r)
<1>2. /\ m \in 0..MaxRequests /\ m \in Nat
      /\ \A i, j \in 1..m : i <= j => r[i] <= r[j]
      /\ \A i \in 1..m : r[i] \in Nat /\ r[i] <= now /\ r[i] > now - Window
  BY <1>1, RecentOrdered
<1>3. CASE ~WouldAdmit(k)
  <2>1. NewQueue(k) = r /\ m = MaxRequests
    BY <1>2, <1>3, Settings DEF NewQueue, WouldAdmit
  <2>2. QueueOK(r)
    BY <1>1, <1>2, <2>1, Settings DEF QueueOK
  <2> QED
    BY <1>2, <1>3, <2>1, <2>2
<1>4. CASE WouldAdmit(k)
  <2> DEFINE q == Append(r, now)
  <2>1. NewQueue(k) = q /\ m < MaxRequests
    BY <1>4 DEF NewQueue, WouldAdmit
  <2> HIDE DEF r
  <2>2. /\ q \in Seq(Nat) /\ Len(q) = m + 1 /\ q[m + 1] = now
        /\ \A i \in 1..m : q[i] = r[i]
    BY <1>1, AppendProperties DEF r
  <2> HIDE DEF q
  <2>3. \A i \in 1..Len(q) : q[i] <= now /\ q[i] > now - Window
    <3> SUFFICES ASSUME NEW i \in 1..Len(q) PROVE q[i] <= now /\ q[i] > now - Window
      OBVIOUS
    <3>1. CASE i = m + 1
      BY <1>1, <2>2, <3>1
    <3>2. CASE i \in 1..m
      BY <1>2, <2>2, <3>2
    <3> QED
      BY <1>2, <2>2, <3>1, <3>2
  <2>4. \A i, j \in 1..Len(q) : i <= j => q[i] <= q[j]
    <3> SUFFICES ASSUME NEW i \in 1..Len(q), NEW j \in 1..Len(q), i <= j
                 PROVE  q[i] <= q[j]
      OBVIOUS
    <3>1. CASE j = m + 1
      BY <2>2, <2>3, <3>1
    <3>2. CASE j \in 1..m
      <4>1. i \in 1..m
        BY <1>2, <3>2
      <4>2. q[i] = r[i] /\ q[j] = r[j]
        BY <2>2, <3>2, <4>1
      <4>3. r[i] <= r[j]
        BY <1>2, <3>2, <4>1
      <4> QED
        BY <4>2, <4>3
    <3> QED
      BY <1>2, <2>2, <3>1, <3>2
  <2>5. Len(q) \in 1..MaxRequests
    BY <1>2, <2>1, <2>2, Settings
  <2>6. QueueOK(q)
    BY <2>2, <2>3, <2>4, <2>5 DEF QueueOK
  <2> QED
    BY <1>4, <2>1, <2>2, <2>3, <2>6 DEF q, r
<1> QED
  BY <1>3, <1>4

(* max(1, int(...)): truncated, but never to 0. *)
LEMMA RetryBounds ==
  ASSUME NEW queue, queue[1] \in Nat, NEW current \in Nat,
         queue[1] + Window - current \in Nat
  PROVE  LET retry == RetryAfter(queue, current)
             ticks == retry * TicksPerSecond
         IN /\ retry \in Nat /\ retry >= 1 /\ ticks \in Nat
            /\ queue[1] + Window < current + ticks + TicksPerSecond
            /\ retry > 1 => current + ticks <= queue[1] + Window
<1> DEFINE t == queue[1] + Window - current
           s == t \div TicksPerSecond
<1>1. /\ s \in Nat /\ s * TicksPerSecond <= t
      /\ t < s * TicksPerSecond + TicksPerSecond
      /\ s * TicksPerSecond \in Nat
  BY Settings
<1>2. RetryAfter(queue, current) = IF s > 1 THEN s ELSE 1
  BY DEF RetryAfter
<1>3. CASE s > 1
  BY <1>1, <1>2, <1>3, Settings
<1>4. CASE ~(s > 1)
  <2>1. RetryAfter(queue, current) = 1 /\ 1 * TicksPerSecond = TicksPerSecond
    BY <1>2, <1>4, Settings
  <2>2. s * TicksPerSecond <= TicksPerSecond
    BY <1>1, <1>4, Settings
  <2> HIDE DEF s
  <2> QED
    BY <1>1, <2>1, <2>2, Settings
<1> QED
  BY <1>3, <1>4

-----------------------------------------------------------------------------
(* The invariant is inductive. *)

LEMMA StartInv == Init => IInv
<1> SUFFICES ASSUME Init PROVE IInv
  OBVIOUS
<1>1. /\ DOMAIN events = {} /\ DOMAIN last_seen = {}
      /\ \A k \in Keys : granted[k] = <<>> /\ answers[k].verdict = "none"
      /\ \A k \in Keys : Len(granted[k]) = 0 /\ Queue(k) = <<>>
  BY DEF Init, Queue
<1>2. TypeOK
  <2>1. answers \in [Keys -> Answer] /\ granted \in [Keys -> Seq(Nat)]
    BY DEF Init, Answer
  <2> QED
    BY <1>1, <2>1 DEF Init, TypeOK
<1>3. DictInv
  BY <1>1, FS_EmptySet, Settings DEF DictInv
<1>4. QueueInv
  BY <1>1 DEF QueueInv
<1>5. HistoryInv
  BY <1>1 DEF HistoryInv, Dropped
<1>6. RefusedInv
  BY <1>1 DEF RefusedInv
<1>7. WindowBound
  BY <1>1, Settings DEF WindowBound
<1> QED
  BY <1>2, <1>3, <1>4, <1>5, <1>6, <1>7 DEF IInv

(* As time passes nothing becomes recent again. *)
LEMMA TickInv ==
  ASSUME IInv, Tick
  PROVE  IInv'
<1> USE DEF IInv
<1>1. /\ UNCHANGED <<events, last_seen, answers, granted>>
      /\ now \in Nat /\ now' = now + 1 /\ now' \in Nat
  BY DEF Tick, TypeOK
<1>2. TypeOK' /\ DictInv' /\ WindowBound'
  BY <1>1 DEF TypeOK, DictInv, WindowBound
<1>3. QueueInv'
  <2> SUFFICES ASSUME NEW k \in DOMAIN events
               PROVE  QueueOK(events[k])' /\ last_seen[k] <= now'
    BY <1>1 DEF QueueInv
  <2>1. /\ QueueOK(events[k]) /\ last_seen[k] <= now /\ last_seen[k] \in Nat
        /\ \A i \in 1..Len(events[k]) : events[k][i] \in Nat
    BY DEF QueueInv, QueueOK, DictInv, TypeOK
  <2> QED
    BY <1>1, <2>1 DEF QueueOK
<1>4. HistoryInv'
  <2> SUFFICES ASSUME NEW k \in Keys
               PROVE  /\ Dropped(k) >= 0
                      /\ \A i \in 1..Len(Queue(k)) :
                           granted[k][Dropped(k) + i] = Queue(k)[i]
                      /\ \A i \in 1..Dropped(k) : granted[k][i] <= now' - Window
    BY <1>1 DEF HistoryInv, Dropped, Queue
  <2>1. granted[k] \in Seq(Nat) /\ Len(Queue(k)) \in Nat
    BY RecentIs DEF TypeOK
  <2>2. \A i \in 1..Dropped(k) : i \in 1..Len(granted[k])
    BY <2>1 DEF Dropped
  <2>3. \A i \in 1..Dropped(k) : granted[k][i] <= now - Window /\ granted[k][i] \in Nat
    BY <2>1, <2>2 DEF HistoryInv
  <2>4. \A i \in 1..Dropped(k) : granted[k][i] <= now' - Window
    BY <1>1, <2>3, Settings
  <2> QED
    BY <2>4 DEF HistoryInv
<1>5. RefusedInv'
  <2> SUFFICES ASSUME NEW k \in Keys, answers[k].verdict = "refused",
                      k \notin DOMAIN events,
                      answers[k].at + answers[k].retry * TicksPerSecond <= now
               PROVE  answers[k].at + answers[k].retry * TicksPerSecond <= now'
    BY <1>1 DEF RefusedInv
  <2>1. answers[k].at \in Nat /\ answers[k].retry \in Nat
    BY DEF TypeOK, Answer
  <2>2. answers[k].retry * TicksPerSecond \in Nat
    BY <2>1, Settings
  <2> QED
    BY <1>1, <2>1, <2>2
<1> QED
  BY <1>2, <1>3, <1>4, <1>5

(* check(): by key, the one that calls and the others. *)
LEMMA CheckInv ==
  ASSUME IInv, NEW k \in Keys, Check(k)
  PROVE  IInv'
<1> USE DEF IInv
<1>1. PICK gone \in Evictions(k, Kept) :
        /\ events' = [x \in (Kept \ gone) \cup {k} |->
                        IF x # k THEN events[x] ELSE NewQueue(k)]
        /\ last_seen' = [x \in (Kept \ gone) \cup {k} |->
                           IF x = k THEN now ELSE last_seen[x]]
        /\ answers' =
             [answers EXCEPT ![k] =
                IF WouldAdmit(k)
                THEN [verdict |-> "admitted", at |-> now, retry |-> 0]
                ELSE [verdict |-> "refused", at |-> now,
                      retry |-> RetryAfter(Recent(k), now)]]
        /\ granted' = [x \in Keys |->
                         IF x \in gone THEN <<>>
                         ELSE IF x = k /\ WouldAdmit(k)
                              THEN Append(granted[x], now)
                              ELSE granted[x]]
        /\ now' = now
  BY CheckIs
<1>2. /\ Kept \subseteq DOMAIN events /\ Kept \subseteq Keys
      /\ gone \subseteq Kept \ {k} /\ now \in Nat
      /\ \A x \in Keys : granted[x] \in Seq(Nat)
  BY EvictedAreKept DEF Kept, Unpruned, TypeOK
<1>3. /\ DOMAIN events' = (Kept \ gone) \cup {k}
      /\ \A x \in Kept \ gone : x # k => events'[x] = events[x]
      /\ events'[k] = NewQueue(k)
      /\ DOMAIN last_seen' = (Kept \ gone) \cup {k}
      /\ \A x \in Kept \ gone : x # k => last_seen'[x] = last_seen[x]
      /\ last_seen'[k] = now
  BY <1>1, <1>2
<1>4. /\ \A x \in gone : granted'[x] = <<>>
      /\ \A x \in Keys \ gone : x # k => granted'[x] = granted[x]
      /\ granted'[k] = IF WouldAdmit(k) THEN Append(granted[k], now) ELSE granted[k]
      /\ WouldAdmit(k) =>
           /\ granted'[k] \in Seq(Nat)
           /\ Len(granted'[k]) = Len(granted[k]) + 1
           /\ granted'[k][Len(granted[k]) + 1] = now
           /\ \A i \in 1..Len(granted[k]) : granted'[k][i] = granted[k][i]
  BY <1>1, <1>2, AppendProperties
<1>5. NewQueue(k) \in Seq(Nat) /\ QueueOK(NewQueue(k))
  BY NewQueueIs DEF QueueOK
<1>6. /\ Recent(k) \in Seq(Nat) /\ Len(Recent(k)) \in 0..MaxRequests
      /\ \A i \in 1..Len(Recent(k)) :
           Recent(k)[i] \in Nat /\ Recent(k)[i] <= now /\ Recent(k)[i] > now - Window
  BY RecentIs, RecentOrdered
<1>7. /\ \A x \in Keys : x # k => answers'[x] = answers[x]
      /\ answers'[k] = IF WouldAdmit(k)
                       THEN [verdict |-> "admitted", at |-> now, retry |-> 0]
                       ELSE [verdict |-> "refused", at |-> now,
                             retry |-> RetryAfter(Recent(k), now)]
  BY <1>1 DEF TypeOK
<1>8. ~WouldAdmit(k) =>
        LET retry == RetryAfter(Recent(k), now)
            ticks == retry * TicksPerSecond
        IN /\ retry \in Nat /\ retry >= 1 /\ ticks \in Nat
           /\ Recent(k)[1] + Window < now + ticks + TicksPerSecond
           /\ retry > 1 => now + ticks <= Recent(k)[1] + Window
  <2> SUFFICES ASSUME ~WouldAdmit(k)
               PROVE  Recent(k)[1] \in Nat /\ Recent(k)[1] + Window - now \in Nat
    BY <1>2, RetryBounds
  <2>1. 1 \in 1..Len(Recent(k))
    BY <1>6, Settings DEF WouldAdmit
  <2> QED
    BY <1>2, <1>6, <2>1, Settings
<1>9. TypeOK'
  <2>1. \A x \in DOMAIN events' : x \in Keys /\ events'[x] \in Seq(Nat)
    BY <1>2, <1>3, <1>5 DEF TypeOK
  <2>2. \A x \in DOMAIN last_seen' : last_seen'[x] \in Nat
    BY <1>2, <1>3 DEF TypeOK, DictInv
  <2>3. answers' \in [Keys -> Answer]
    <3>1. answers'[k] \in Answer
      BY <1>2, <1>7, <1>8 DEF Answer
    <3>2. answers' = [answers EXCEPT ![k] = answers'[k]]
      BY <1>1, <1>7
    <3> QED
      BY <3>1, <3>2 DEF TypeOK
  <2>4. granted' \in [Keys -> Seq(Nat)]
    BY <1>1, <1>2
  <2> QED
    BY <1>1, <1>2, <2>1, <2>2, <2>3, <2>4 DEF TypeOK
<1>10. DictInv'
  <2>1. /\ IsFiniteSet(Kept) /\ Cardinality(Kept) <= MaxKeys
        /\ Cardinality(Kept) \in Nat
    BY <1>2, FS_Subset, FS_CardinalityType, Settings DEF DictInv
  <2>2. /\ IsFiniteSet((Kept \ gone) \cup {k})
        /\ Cardinality((Kept \ gone) \cup {k}) <= MaxKeys
    <3>1. CASE gone = {} /\ k \in Kept
      <4>1. (Kept \ gone) \cup {k} = Kept
        BY <3>1
      <4> QED
        BY <2>1, <4>1
    <3>2. CASE gone = {} /\ k \notin Kept /\ Cardinality(Kept) < MaxKeys
      <4>1. (Kept \ gone) \cup {k} = Kept \cup {k}
        BY <3>2
      <4> QED
        <5>1. /\ IsFiniteSet(Kept \cup {k})
              /\ Cardinality(Kept \cup {k}) = Cardinality(Kept) + 1
          BY <2>1, <3>2, FS_AddElement
        <5> QED
          BY <2>1, <3>2, <4>1, <5>1, Settings
    <3>3. CASE \E v \in Kept : gone = {v}
      <4>1. PICK v \in Kept : gone = {v}
        BY <3>3
      <4>2. k \notin Kept
        BY <4>1 DEF Evictions
      <4>3. /\ IsFiniteSet(Kept \ {v})
            /\ Cardinality(Kept \ {v}) = Cardinality(Kept) - 1
        BY <2>1, <4>1, FS_RemoveElement
      <4>4. /\ IsFiniteSet((Kept \ {v}) \cup {k})
            /\ Cardinality((Kept \ {v}) \cup {k}) = Cardinality(Kept \ {v}) + 1
        BY <4>2, <4>3, FS_AddElement
      <4> QED
        BY <2>1, <4>1, <4>3, <4>4, Settings
    <3>4. \/ gone = {} /\ ~(k \notin Kept /\ Cardinality(Kept) >= MaxKeys)
          \/ \E v \in Kept : gone = {v}
      BY DEF Evictions, OldestKey
    <3> QED
      BY <2>1, <3>1, <3>2, <3>3, <3>4, Settings
  <2> QED
    BY <1>3, <2>2 DEF DictInv
<1>11. QueueInv'
  <2> SUFFICES ASSUME NEW x \in (Kept \ gone) \cup {k}
               PROVE  QueueOK(events[x])' /\ last_seen'[x] <= now'
    BY <1>3 DEF QueueInv
  <2>1. CASE x = k
    BY <1>1, <1>2, <1>3, <1>5, <2>1 DEF QueueOK
  <2>2. CASE x # k
    <3>1. x \in DOMAIN events /\ events'[x] = events[x] /\ last_seen'[x] = last_seen[x]
      BY <1>2, <1>3, <2>2
    <3> QED
      BY <1>1, <3>1 DEF QueueInv, QueueOK
  <2> QED
    BY <2>1, <2>2
<1>12. /\ Queue(k)' = NewQueue(k)
       /\ \A x \in Keys : /\ x # k /\ x \in Kept \ gone => events'[x] = Queue(x)
                          /\ x # k /\ x \notin Kept \ gone => x \notin DOMAIN events'
  BY <1>2, <1>3 DEF Queue
(* What Recent(x) leaves out of the history of x has expired. *)
<1>13. ASSUME NEW x \in Keys
       PROVE  /\ Len(granted[x]) - Len(Recent(x)) >= 0
              /\ \A i \in 1..Len(Recent(x)) :
                   granted[x][Len(granted[x]) - Len(Recent(x)) + i] = Recent(x)[i]
              /\ \A i \in 1..Len(granted[x]) - Len(Recent(x)) :
                   granted[x][i] <= now - Window
  <2>1. /\ Recent(x) \in Seq(Nat) /\ Queue(x) \in Seq(Nat)
        /\ Len(Queue(x)) \in Nat /\ Len(granted[x]) \in Nat
    BY <1>2, RecentIs
  <2>2. PICK n \in 0..Len(Queue(x)) :
          /\ Len(Recent(x)) = Len(Queue(x)) - n
          /\ \A i \in 1..Len(Recent(x)) : Recent(x)[i] = Queue(x)[n + i]
          /\ \A i \in 1..Len(Queue(x)) : Queue(x)[i] <= now - Window <=> i <= n
    BY RecentIs
  <2> DEFINE d == Len(granted[x]) - Len(Queue(x))
  <2>3. /\ d \in Nat
        /\ \A i \in 1..Len(Queue(x)) : granted[x][d + i] = Queue(x)[i]
        /\ \A i \in 1..d : granted[x][i] <= now - Window
    BY <2>1 DEF HistoryInv, Dropped
  <2>4. Len(granted[x]) - Len(Recent(x)) = d + n
    BY <2>1, <2>2
  <2> HIDE DEF d
  <2>5. ASSUME NEW i \in 1..Len(Recent(x))
        PROVE  granted[x][(d + n) + i] = Recent(x)[i]
    <3>1. n + i \in 1..Len(Queue(x)) /\ (d + n) + i = d + (n + i)
      BY <2>1, <2>2, <2>3
    <3> QED
      BY <2>2, <2>3, <3>1
  <2>6. ASSUME NEW i \in 1..(d + n)
        PROVE  granted[x][i] <= now - Window
    <3>1. CASE i <= d
      BY <2>3, <3>1
    <3>2. CASE ~(i <= d)
      <4>1. i - d \in 1..Len(Queue(x)) /\ i - d <= n /\ d + (i - d) = i
        BY <2>1, <2>2, <2>3, <3>2
      <4> QED
        BY <2>2, <2>3, <4>1
    <3> QED
      BY <3>1, <3>2
  <2> QED
    BY <2>3, <2>4, <2>5, <2>6
<1>14. HistoryInv'
  <2> SUFFICES ASSUME NEW x \in Keys
               PROVE  /\ Dropped(x)' >= 0
                      /\ \A i \in 1..Len(Queue(x)') :
                           granted'[x][Dropped(x)' + i] = Queue(x)'[i]
                      /\ \A i \in 1..Dropped(x)' : granted'[x][i] <= now - Window
    BY <1>1 DEF HistoryInv
  <2>1. Dropped(x)' = Len(granted'[x]) - Len(Queue(x)')
    BY DEF Dropped
  <2>2. CASE x = k
    <3> DEFINE h == granted[k]
               r == Recent(k)
    <3>1. /\ Len(h) \in Nat /\ Len(r) \in Nat /\ Len(h) - Len(r) >= 0
          /\ \A i \in 1..Len(r) : h[Len(h) - Len(r) + i] = r[i]
          /\ \A i \in 1..Len(h) - Len(r) : h[i] <= now - Window
      BY <1>2, <1>6, <1>13
    <3>2. CASE ~WouldAdmit(k)
      <4>1. granted'[k] = h /\ Queue(k)' = r
        BY <1>4, <1>12, <3>2, NewQueueIs
      <4>2. Dropped(k)' = Len(h) - Len(r)
        BY <2>1, <2>2, <4>1
      <4> HIDE DEF h, r
      <4> QED
        BY <2>2, <3>1, <4>1, <4>2
    <3>3. CASE WouldAdmit(k)
      <4> DEFINE g == granted'[k]
                 q == NewQueue(k)
      <4>1. /\ Len(g) = Len(h) + 1 /\ g[Len(h) + 1] = now
            /\ \A i \in 1..Len(h) : g[i] = h[i]
        BY <1>4, <3>3
      <4>2. /\ Len(q) = Len(r) + 1 /\ q[Len(r) + 1] = now
            /\ \A i \in 1..Len(r) : q[i] = r[i]
        BY <3>3, NewQueueIs
      <4>3. Dropped(k)' = Len(g) - Len(q) /\ Queue(k)' = q
        BY <1>12, <2>1, <2>2
      <4> HIDE DEF g, q, h, r
      <4>4. Len(g) - Len(q) = Len(h) - Len(r)
        BY <3>1, <4>1, <4>2
      <4>5. ASSUME NEW i \in 1..Len(h) - Len(r)
            PROVE  g[i] <= now - Window
        <5>1. i \in 1..Len(h)
          BY <3>1
        <5> QED
          BY <3>1, <4>1, <5>1
      <4>6. ASSUME NEW i \in 1..Len(q)
            PROVE  g[Len(h) - Len(r) + i] = q[i]
        <5>1. CASE i = Len(r) + 1
          <6>1. Len(h) - Len(r) + i = Len(h) + 1
            BY <3>1, <5>1
          <6> QED
            BY <4>1, <4>2, <5>1, <6>1
        <5>2. CASE i \in 1..Len(r)
          <6>1. Len(h) - Len(r) + i \in 1..Len(h)
            BY <3>1, <5>2
          <6> QED
            BY <3>1, <4>1, <4>2, <5>2, <6>1
        <5> QED
          BY <3>1, <4>2, <5>1, <5>2
      <4> QED
        BY <2>2, <3>1, <4>3, <4>4, <4>5, <4>6 DEF g
    <3> QED
      BY <3>2, <3>3
  <2>3. CASE x # k /\ x \in Kept \ gone
    <3>1. granted'[x] = granted[x] /\ Queue(x)' = Queue(x)
      BY <1>2, <1>3, <1>4, <1>12, <2>3 DEF Queue
    <3> QED
      BY <2>1, <3>1 DEF HistoryInv, Dropped
  <2>4. CASE x # k /\ x \notin Kept \ gone
    <3>1. Queue(x)' = <<>> /\ Dropped(x)' = Len(granted'[x])
      <4>1. Queue(x)' = <<>> /\ Len(<<>>) = 0
        BY <1>12, <2>4 DEF Queue
      <4>2. Len(granted'[x]) \in Nat
        <5>1. granted'[x] \in Seq(Nat)
          BY <1>9 DEF TypeOK
        <5> QED
          BY <5>1
      <4> QED
        BY <2>1, <4>1, <4>2
    <3>2. CASE x \in gone
      BY <1>4, <3>1, <3>2
    <3>3. CASE x \notin gone
      <4>1. Recent(x) = <<>> /\ granted'[x] = granted[x]
        BY <1>4, <2>4, <3>3, RecentIs DEF Kept
      <4>2. Len(granted[x]) - Len(Recent(x)) = Len(granted[x])
        BY <1>2, <4>1
      <4> QED
        BY <1>2, <1>13, <3>1, <4>1, <4>2
    <3> QED
      BY <3>2, <3>3
  <2> QED
    BY <2>2, <2>3, <2>4
<1>15. WindowBound'
  <2> SUFFICES ASSUME NEW x \in Keys, NEW i \in 1..Len(granted'[x]) - MaxRequests
               PROVE  granted'[x][i + MaxRequests] - granted'[x][i] >= Window
    BY DEF WindowBound
  <2>1. CASE x \in gone
    BY <1>4, <2>1, Settings
  <2>2. CASE granted'[x] = granted[x]
    BY <2>2 DEF WindowBound
  <2>3. CASE x = k /\ WouldAdmit(k)
    <3> DEFINE h == granted[k]
    <3>1. /\ Len(h) \in Nat /\ Len(granted'[x]) = Len(h) + 1
          /\ \A j \in 1..Len(h) : granted'[x][j] = h[j] /\ h[j] \in Nat
          /\ granted'[x][Len(h) + 1] = now
      <4>1. h \in Seq(Nat)
        BY <1>2
      <4>2. Len(h) \in Nat /\ \A j \in 1..Len(h) : h[j] \in Nat
        BY <4>1
      <4> QED
        BY <1>4, <2>3, <4>2
    <3>2. CASE i + MaxRequests <= Len(h)
      <4>1. i \in 1..Len(h) - MaxRequests /\ i \in 1..Len(h)
            /\ i + MaxRequests \in 1..Len(h)
        BY <3>1, <3>2, Settings
      <4> QED
        BY <2>3, <3>1, <4>1 DEF WindowBound
    <3>3. CASE i + MaxRequests = Len(h) + 1
      <4>1. Len(Recent(k)) < MaxRequests
        BY <2>3 DEF WouldAdmit
      <4>2. i \in 1..Len(h) - Len(Recent(k)) /\ i \in 1..Len(h)
        BY <1>6, <3>1, <3>3, <4>1, Settings
      <4>3. h[i] <= now - Window /\ granted'[x][i] = h[i] /\ h[i] \in Nat
        BY <1>13, <3>1, <4>2
      <4> QED
        <5>1. granted'[x][i + MaxRequests] = now
          BY <3>1, <3>3
        <5> HIDE DEF h
        <5> QED
          BY <1>2, <4>3, <5>1, Settings
    <3> QED
      BY <3>1, <3>2, <3>3, Settings
  <2> QED
    BY <1>4, <2>1, <2>2, <2>3
<1>16. RefusedInv'
  <2> DEFINE Free(x) == answers'[x].at + answers'[x].retry * TicksPerSecond
  <2> SUFFICES ASSUME NEW x \in Keys, answers'[x].verdict = "refused"
               PROVE  /\ x \in DOMAIN events' =>
                           /\ Len(events'[x]) = MaxRequests
                           /\ events'[x][1] + Window < Free(x) + TicksPerSecond
                           /\ answers'[x].retry > 1 => Free(x) <= events'[x][1] + Window
                      /\ x \notin DOMAIN events' =>
                           \/ granted'[x] = <<>> \/ answers'[x].retry <= 1
                           \/ Free(x) <= now
    BY <1>1 DEF RefusedInv
  <2>1. CASE x = k
    <3>1. ~WouldAdmit(k)
      BY <1>7, <2>1
    <3>2. answers'[k].at = now /\ answers'[k].retry = RetryAfter(Recent(k), now)
      BY <1>7, <3>1
    <3>3. events'[k] = Recent(k) /\ Len(Recent(k)) = MaxRequests /\ k \in DOMAIN events'
      BY <1>3, <3>1, NewQueueIs
    <3> QED
      BY <1>8, <2>1, <3>1, <3>2, <3>3
  <2>2. CASE x # k
    <3>1. answers'[x] = answers[x] /\ answers[x].verdict = "refused"
          /\ answers[x].at \in Nat /\ answers[x].retry \in Nat
      BY <1>7, <2>2 DEF TypeOK, Answer
    <3>2. CASE x \in Kept \ gone
      BY <1>2, <1>3, <2>2, <3>1, <3>2 DEF RefusedInv
    <3>3. CASE x \notin DOMAIN events
      BY <1>2, <1>3, <1>4, <2>2, <3>1, <3>3 DEF RefusedInv
    <3>4. CASE x \in gone
      BY <1>2, <1>3, <1>4, <2>2, <3>4
    <3>5. CASE x \in DOMAIN events /\ x \notin Kept /\ x \notin gone
      <4>1. Recent(x) = <<>> /\ x \notin DOMAIN events'
        BY <1>3, <2>2, <3>5, RecentIs DEF Kept
      <4>2. events[x][1] <= now - Window /\ events[x][1] \in Nat
        <5>1. /\ Queue(x) = events[x] /\ Len(events[x]) \in Nat \ {0}
              /\ events[x][1] \in Nat
          BY <3>5, Settings DEF Queue, QueueInv, QueueOK
        <5>2. PICK n \in 0..Len(Queue(x)) :
                /\ Len(Recent(x)) = Len(Queue(x)) - n
                /\ \A i \in 1..Len(Queue(x)) : Queue(x)[i] <= now - Window <=> i <= n
          BY RecentIs
        <5>3. n = Len(Queue(x)) /\ 1 \in 1..Len(Queue(x))
          BY <4>1, <5>1, <5>2
        <5> QED
          BY <5>1, <5>2, <5>3
      <4>3. answers[x].retry > 1 => Free(x) <= events[x][1] + Window
        BY <3>1, <3>5 DEF RefusedInv
      <4>4. Free(x) \in Nat
        BY <3>1, Settings
      <4> HIDE DEF Free
      <4> QED
        BY <1>2, <3>1, <4>1, <4>2, <4>3, <4>4, Settings
    <3> QED
      BY <3>2, <3>3, <3>4, <3>5
  <2> QED
    BY <2>1, <2>2
<1> QED
  BY <1>9, <1>10, <1>11, <1>14, <1>15, <1>16

LEMMA StutterInv ==
  ASSUME IInv, UNCHANGED vars
  PROVE  IInv'
BY DEF IInv, vars, TypeOK, DictInv, QueueInv, QueueOK, HistoryInv, Dropped, Queue,
       RefusedInv, WindowBound

-----------------------------------------------------------------------------

(* The inductive invariant holds of every reachable state. *)
THEOREM Invariance == Spec => []IInv
<1>1. IInv /\ [Next]_vars => IInv'
  BY TickInv, CheckInv, StutterInv DEF Next
<1> QED
  BY <1>1, StartInv, PTL DEF Spec

(* The limiter's dicts, its answers and the history are well formed. *)
THEOREM TypeCorrect == Spec => []TypeOK
BY Invariance, PTL DEF IInv

(* Wherever a window starts, it holds no more than max_requests admissions of
   a key that was not evicted in between. *)
THEOREM WindowsAreBounded == Spec => []WindowBound
BY Invariance, PTL DEF IInv

(* The two dicts track the same keys, never more than max_keys. *)
THEOREM MemoryIsBounded == Spec => []TrackedKeysBounded
<1>1. IInv => TrackedKeysBounded
  BY DEF IInv, DictInv, TrackedKeysBounded
<1> QED
  BY <1>1, Invariance, PTL

(* A refused caller that waits a second more than it was told is admitted, and
   one told more than a second gains nothing by asking earlier. *)
THEOREM RetryIsHonest == Spec => []RetryAfterHonest
<1>1. IInv => RetryAfterHonest
  <2> SUFFICES ASSUME IInv, NEW k \in Keys, answers[k].verdict = "refused"
               PROVE  LET a == answers[k] IN
                      /\ now >= a.at + (a.retry + 1) * TicksPerSecond => WouldAdmit(k)
                      /\ /\ a.retry > 1
                         /\ now < a.at + a.retry * TicksPerSecond
                         /\ Len(granted[k]) >= MaxRequests
                         => ~WouldAdmit(k)
    BY DEF RetryAfterHonest
  <2> USE DEF IInv
  <2> DEFINE at    == answers[k].at
             retry == answers[k].retry
             ticks == retry * TicksPerSecond
  <2>1. /\ now \in Nat /\ at \in Nat /\ retry \in Nat /\ ticks \in Nat
        /\ (retry + 1) * TicksPerSecond = ticks + TicksPerSecond
    <3>1. answers[k] \in Answer /\ now \in Nat
      BY DEF TypeOK
    <3>2. at \in Nat /\ retry \in Nat
      BY <3>1 DEF Answer
    <3> HIDE DEF at, retry
    <3> QED
      BY <3>1, <3>2, Settings
  <2>2. CASE k \notin DOMAIN events
    <3>1. WouldAdmit(k)
      BY <2>2, Settings DEF Recent, WouldAdmit
    <3>2. ~(/\ retry > 1 /\ now < at + ticks /\ Len(granted[k]) >= MaxRequests)
      <4>1. granted[k] = <<>> \/ retry <= 1 \/ at + ticks <= now
        BY <2>2 DEF RefusedInv
      <4>2. granted[k] = <<>> => Len(granted[k]) = 0
        OBVIOUS
      <4> HIDE DEF at, retry, ticks
      <4> QED
        BY <2>1, <4>1, <4>2, Settings
    <3> QED
      BY <3>1, <3>2
  <2>3. CASE k \in DOMAIN events
    <3>1. /\ Queue(k) = events[k] /\ events[k][1] \in Nat
          /\ Len(events[k]) = MaxRequests /\ 1 \in 1..Len(Queue(k))
      BY <2>3, Settings DEF Queue, QueueInv, QueueOK, RefusedInv
    <3>2. /\ events[k][1] + Window < at + ticks + TicksPerSecond
          /\ retry > 1 => at + ticks <= events[k][1] + Window
      BY <2>3 DEF RefusedInv
    <3>3. PICK n \in 0..Len(Queue(k)) :
            /\ Len(Recent(k)) = Len(Queue(k)) - n
            /\ \A i \in 1..Len(Queue(k)) : Queue(k)[i] <= now - Window <=> i <= n
      BY RecentIs
    <3>4. events[k][1] <= now - Window <=> 1 <= n
      BY <3>1, <3>3
    <3> HIDE DEF at, retry, ticks
    <3>5. ASSUME now >= at + (retry + 1) * TicksPerSecond
          PROVE  WouldAdmit(k)
      <4>1. events[k][1] <= now - Window
        BY <2>1, <3>1, <3>2, <3>5, Settings
      <4> QED
        BY <3>1, <3>3, <3>4, <4>1, Settings DEF WouldAdmit
    <3>6. ASSUME retry > 1, now < at + ticks
          PROVE  ~WouldAdmit(k)
      <4>1. ~(events[k][1] <= now - Window)
        BY <2>1, <3>1, <3>2, <3>6, Settings
      <4> QED
        BY <3>1, <3>3, <3>4, <4>1, Settings DEF WouldAdmit
    <3> QED
      BY <3>5, <3>6 DEF at, retry, ticks
  <2> QED
    BY <2>2, <2>3
<1> QED
  BY <1>1, Invariance, PTL

-----------------------------------------------------------------------------
(* The refinement: each step is a step of the policy, or none. *)

LEMMA StartStarts == Init => Policy!Init
<1> SUFFICES ASSUME Init PROVE Policy!Init
  OBVIOUS
<1>1. \A k \in Keys : Recent(k) = <<>> /\ answers[k].verdict = "none"
  BY DEF Init, Recent
<1>2. /\ [k \in Keys |-> Recent(k)] = [k \in Keys |-> <<>>]
      /\ [k \in Keys |-> IF Recent(k) # <<>> THEN last_seen[k] ELSE -1]
           = [k \in Keys |-> -1]
      /\ [k \in Keys |-> answers[k].verdict] = [k \in Keys |-> "none"]
  BY <1>1
<1> QED
  BY <1>2 DEF Policy!Init, Policy!Never, Init

(* The operators AdmissionPolicy brings along are those of this module. *)
LEMMA SameCardinality ==
  ASSUME NEW S
  PROVE  Policy!Cardinality(S) = Cardinality(S)
BY DEF Policy!Cardinality, Cardinality

LEMMA SameLater ==
  ASSUME NEW queue, NEW t
  PROVE  Policy!Later(queue, t) = Later(queue, t)
BY SameCardinality DEF Policy!Later, Later

(* The queues keep what the policy forgets; nobody sees it. *)
LEMMA TickTicks ==
  ASSUME IInv, Tick
  PROVE  Policy!Tick
<1> USE DEF IInv
<1>1. /\ UNCHANGED <<events, last_seen, answers, granted>>
      /\ now \in Nat /\ now' = now + 1 /\ now < MaxTime
  BY DEF Tick, TypeOK
<1>2. now - Window \in Int /\ now' - Window \in Int /\ now - Window <= now' - Window
  BY <1>1, Settings
<1>3. ASSUME NEW k \in Keys
      PROVE  Recent(k)' = Policy!Later(Recent(k), now' - Window)
  <2>1. CASE k \in DOMAIN events
    <3> DEFINE q == events[k]
    <3>1. q \in Seq(Nat) /\ Ascending(q)
      BY <2>1 DEF QueueInv, QueueOK, Ascending
    <3>2. Recent(k) = Later(q, now - Window) /\ Recent(k)' = Later(q, now' - Window)
      BY <1>1, <2>1 DEF Recent, Later
    <3>3. Later(Later(q, now - Window), now' - Window) = Later(q, now' - Window)
      <4> HIDE DEF q
      <4> QED
        BY <1>2, <3>1, LaterTwice
    <3> HIDE DEF q
    <3> QED
      BY <3>2, <3>3, SameLater
  <2>2. CASE k \notin DOMAIN events
    <3>1. Recent(k) = <<>> /\ Recent(k)' = <<>>
      BY <1>1, <2>2 DEF Recent
    <3>2. Policy!Later(<<>>, now' - Window) = <<>>
      <4> DEFINE n == Cardinality({i \in 1..Len(<<>>) : <<>>[i] <= now' - Window})
      <4>1. {i \in 1..Len(<<>>) : <<>>[i] <= now' - Window} = {}
        OBVIOUS
      <4>2. n = 0
        BY <4>1, FS_EmptySet
      <4>3. SubSeq(<<>>, 1 + 0, Len(<<>>)) = <<>>
        BY SubSeqEmpty
      <4> QED
        BY <4>2, <4>3 DEF Policy!Later
    <3> QED
      BY <3>1, <3>2
  <2> QED
    BY <2>1, <2>2
<1>4. ASSUME NEW k \in Keys, Recent(k)' # <<>>
      PROVE  Recent(k) # <<>>
  <2>1. Recent(k) = <<>> => Recent(k)' = Policy!Later(<<>>, now' - Window)
    BY <1>3
  <2>2. k \in DOMAIN events
    BY <1>1, <1>4 DEF Recent
  <2> DEFINE q == events[k]
  <2>3. q \in Seq(Nat) /\ Ascending(q) /\ Len(q) \in Nat
    <3>1. QueueOK(q)
      BY <2>2 DEF QueueInv
    <3> HIDE DEF q
    <3> QED
      BY <3>1 DEF QueueOK, Ascending
  <2>4. Recent(k) = Later(q, now - Window) /\ Recent(k)' = Later(q, now' - Window)
    BY <1>1, <2>2 DEF Recent, Later
  <2> HIDE DEF q
  <2>5. PICK n \in 0..Len(q) : Splits(n, q, now - Window)
    BY <1>2, <2>3, HeadExpires
  <2>6. PICK m \in 0..Len(q) : Splits(m, q, now' - Window)
    BY <1>2, <2>3, HeadExpires
  <2>7. /\ Recent(k) \in Seq(Nat) /\ Len(Recent(k)) = Len(q) - n
        /\ Recent(k)' \in Seq(Nat) /\ Len(Recent(k)') = Len(q) - m
    BY <1>2, <2>3, <2>4, <2>5, <2>6, WhatIsLeft
  <2>8. n <= m
    <3>1. n = 0 \/ n \in 1..Len(q)
      BY <2>3
    <3>2. \A i \in 1..Len(q) : q[i] \in Nat
      BY <2>3
    <3> QED
      BY <1>2, <2>3, <2>5, <2>6, <3>1, <3>2 DEF Splits
  <2>9. Len(Recent(k)') # 0
    BY <1>4, <2>7, EmptySeq
  <2>10. Len(Recent(k)) # 0
    BY <2>3, <2>7, <2>8, <2>9
  <2> QED
    BY <2>10
<1>5. [k \in Keys |-> Recent(k)]'
        = [k \in Keys |-> Policy!Later([x \in Keys |-> Recent(x)][k], now' - Window)]
  BY <1>3
<1>6. [k \in Keys |-> IF Recent(k) # <<>> THEN last_seen[k] ELSE -1]'
        = [k \in Keys |->
             IF [x \in Keys |-> Recent(x)]'[k] = <<>> THEN -1
             ELSE [x \in Keys |-> IF Recent(x) # <<>> THEN last_seen[x] ELSE -1][k]]
  BY <1>1, <1>4
<1> QED
  BY <1>1, <1>5, <1>6 DEF Policy!Tick, Policy!Never

(* The keys that the pruning leaves are the ones the policy remembers, seen
   last when they asked last. *)
LEMMA SameEvictions ==
  ASSUME TypeOK, QueueInv, NEW k \in Keys
  PROVE  Evictions(k, Kept) = Policy!Forgettable(k)
<1>1. Kept \subseteq Keys /\ \A x \in Keys : x \in Kept <=> Recent(x) # <<>>
  BY RecentIs DEF Kept, Unpruned, TypeOK
<1>2. Policy!Active = Kept
  BY <1>1 DEF Policy!Active
<1>3. \A x \in Kept :
        [y \in Keys |-> IF Recent(y) # <<>> THEN last_seen[y] ELSE -1][x]
          = last_seen[x]
  BY <1>1
<1>4. {{v} : v \in {w \in Kept : \A x \in Kept : last_seen[w] <= last_seen[x]}}
        = {{v} : v \in {w \in Kept : \A x \in Kept :
             [y \in Keys |-> IF Recent(y) # <<>> THEN last_seen[y] ELSE -1][w]
               <= [y \in Keys |-> IF Recent(y) # <<>> THEN last_seen[y] ELSE -1][x]}}
  BY <1>3
<1>5. [x \in Keys |-> Recent(x)][k] = <<>> <=> k \notin Kept
  BY <1>1
<1> DEFINE asked  == [y \in Keys |-> IF Recent(y) # <<>> THEN last_seen[y] ELSE -1]
           oldest == {{v} : v \in {w \in Kept :
                                    \A x \in Kept : asked[w] <= asked[x]}}
<1>6. Evictions(k, Kept)
        = IF k \notin Kept /\ Cardinality(Kept) >= MaxKeys THEN oldest ELSE {{}}
  BY <1>4 DEF Evictions, OldestKey
<1>7. Policy!Forgettable(k)
        = IF [x \in Keys |-> Recent(x)][k] = <<>> /\ Cardinality(Kept) >= MaxKeys
          THEN oldest ELSE {{}}
  BY <1>2, SameCardinality DEF Policy!Forgettable
<1> HIDE DEF oldest
<1> QED
  BY <1>5, <1>6, <1>7

LEMMA CheckAsks ==
  ASSUME IInv, IInv', NEW k \in Keys, Check(k)
  PROVE  Policy!Ask(k)
<1> USE DEF IInv
<1>1. PICK gone \in Evictions(k, Kept) :
        /\ events' = [x \in (Kept \ gone) \cup {k} |->
                        IF x # k THEN events[x] ELSE NewQueue(k)]
        /\ last_seen' = [x \in (Kept \ gone) \cup {k} |->
                           IF x = k THEN now ELSE last_seen[x]]
        /\ answers' =
             [answers EXCEPT ![k] =
                IF WouldAdmit(k)
                THEN [verdict |-> "admitted", at |-> now, retry |-> 0]
                ELSE [verdict |-> "refused", at |-> now,
                      retry |-> RetryAfter(Recent(k), now)]]
        /\ now' = now
  BY CheckIs
<1>2. /\ Kept \subseteq DOMAIN events /\ gone \subseteq Kept \ {k}
      /\ \A x \in Keys : x \in Kept <=> Recent(x) # <<>>
  BY EvictedAreKept, RecentIs DEF Kept, Unpruned
<1>3. /\ DOMAIN events' = (Kept \ gone) \cup {k}
      /\ events'[k] = NewQueue(k) /\ last_seen'[k] = now
      /\ \A x \in Kept \ gone : x # k => /\ events'[x] = events[x]
                                         /\ last_seen'[x] = last_seen[x]
  BY <1>1, <1>2
<1>4. Recent(k)' = NewQueue(k) /\ NewQueue(k) # <<>>
  <2> DEFINE q == NewQueue(k)
  <2>1. /\ q \in Seq(Nat) /\ Len(q) \in 1..MaxRequests
        /\ \A i \in 1..Len(q) : q[i] > now - Window
        /\ \A i \in 1..Len(q) : q[i] \in Nat
    BY NewQueueIs DEF QueueOK
  <2>2. Recent(k)' = Later(q, now - Window)
    BY <1>1, <1>3 DEF Recent, Later
  <2> HIDE DEF q
  <2>3. now - Window \in Int /\ Len(q) \in Nat
    BY <2>1, Settings DEF TypeOK
  <2>4. Splits(0, q, now - Window) /\ 0 \in 0..Len(q)
    BY <2>1, <2>3 DEF Splits
  <2>5. /\ Later(q, now - Window) \in Seq(Nat)
        /\ Len(Later(q, now - Window)) = Len(q) - 0
        /\ \A i \in 1..Len(q) - 0 : Later(q, now - Window)[i] = q[0 + i]
    BY <2>1, <2>3, <2>4, WhatIsLeft
  <2>6. Later(q, now - Window) = q
    <3>1. Len(Later(q, now - Window)) = Len(q)
      BY <2>3, <2>5
    <3>2. \A i \in 1..Len(q) : Later(q, now - Window)[i] = q[i]
      BY <2>3, <2>5
    <3> QED
      BY <2>1, <2>5, <3>1, <3>2, SeqEqual
  <2>7. q # <<>>
    BY <2>1, Settings
  <2> QED
    BY <2>2, <2>6, <2>7 DEF q
<1>5. \A x \in Keys : x # k /\ x \in Kept \ gone => Recent(x)' = Recent(x)
  BY <1>1, <1>2, <1>3 DEF Recent, Later
<1>6. \A x \in Keys : x # k /\ x \notin Kept \ gone => Recent(x)' = <<>>
  BY <1>3 DEF Recent
<1>7. [x \in Keys |-> Recent(x)]'
        = [x \in Keys |-> IF x \in gone THEN <<>>
                          ELSE IF x = k /\ WouldAdmit(k) THEN Append(Recent(x), now)
                          ELSE Recent(x)]
  <2> SUFFICES ASSUME NEW x \in Keys
               PROVE  Recent(x)' = IF x \in gone THEN <<>>
                                   ELSE IF x = k /\ WouldAdmit(k)
                                        THEN Append(Recent(x), now)
                                        ELSE Recent(x)
    OBVIOUS
  <2>1. CASE x = k
    BY <1>2, <1>4, <2>1 DEF NewQueue
  <2>2. CASE x # k
    BY <1>2, <1>5, <1>6, <2>2
  <2> QED
    BY <2>1, <2>2
<1>8. [x \in Keys |-> IF Recent(x) # <<>> THEN last_seen[x] ELSE -1]'
        = [x \in Keys |-> IF x \in gone THEN -1
                          ELSE IF x = k THEN now
                          ELSE IF Recent(x) # <<>> THEN last_seen[x] ELSE -1]
  <2> SUFFICES ASSUME NEW x \in Keys
               PROVE  (IF Recent(x)' # <<>> THEN last_seen'[x] ELSE -1)
                        = IF x \in gone THEN -1
                          ELSE IF x = k THEN now
                          ELSE IF Recent(x) # <<>> THEN last_seen[x] ELSE -1
    OBVIOUS
  <2>1. CASE x = k
    BY <1>2, <1>3, <1>4, <2>1
  <2>2. CASE x # k
    BY <1>2, <1>3, <1>5, <1>6, <2>2
  <2> QED
    BY <2>1, <2>2
<1>9. [x \in Keys |-> answers[x].verdict]'
        = [[x \in Keys |-> answers[x].verdict]
             EXCEPT ![k] = IF WouldAdmit(k) THEN "admitted" ELSE "refused"]
  <2>1. \A x \in Keys :
          answers'[x].verdict = IF x = k
                                THEN IF WouldAdmit(k) THEN "admitted" ELSE "refused"
                                ELSE answers[x].verdict
    BY <1>1 DEF TypeOK
  <2> QED
    BY <2>1
<1>10. gone \in Policy!Forgettable(k)
  BY SameEvictions
<1> DEFINE recent  == [x \in Keys |-> Recent(x)]
           asked   == [x \in Keys |-> IF Recent(x) # <<>> THEN last_seen[x] ELSE -1]
           verdict == [x \in Keys |-> answers[x].verdict]
<1>11. (Len(recent[k]) < MaxRequests) = WouldAdmit(k)
  BY DEF WouldAdmit
<1>12. recent' = [x \in Keys |->
                    IF x \in gone THEN <<>>
                    ELSE IF x = k /\ Len(recent[k]) < MaxRequests
                         THEN Append(recent[x], now)
                         ELSE recent[x]]
  BY <1>7, <1>11
<1>13. asked' = [x \in Keys |-> IF x \in gone THEN Policy!Never
                                ELSE IF x = k THEN now ELSE asked[x]]
  BY <1>8 DEF Policy!Never
<1>14. verdict' = [verdict EXCEPT ![k] = IF Len(recent[k]) < MaxRequests
                                         THEN "admitted" ELSE "refused"]
  BY <1>9, <1>11
<1> QED
  BY <1>1, <1>10, <1>12, <1>13, <1>14 DEF Policy!Ask

LEMMA StutterStutters == UNCHANGED vars => UNCHANGED Policy!vars
BY DEF vars, Policy!vars, Recent, Later

(* Pruning, popping and evicting on somebody's next call answers every call
   as the policy that forgets each admission on time. *)
THEOREM Refinement == Spec => ImplementsPolicy
<1>1. IInv /\ IInv' /\ [Next]_vars => [Policy!Next]_Policy!vars
  <2> SUFFICES ASSUME IInv, IInv', [Next]_vars
               PROVE  Policy!Next \/ UNCHANGED Policy!vars
    OBVIOUS
  <2>1. CASE Tick
    BY <2>1, TickTicks DEF Policy!Next
  <2>2. CASE \E k \in Keys : Check(k)
    BY <2>2, CheckAsks DEF Policy!Next
  <2>3. CASE UNCHANGED vars
    BY <2>3, StutterStutters
  <2> QED
    BY <2>1, <2>2, <2>3 DEF Next
<1> QED
  BY <1>1, StartStarts, Invariance, PTL DEF Spec, ImplementsPolicy, Policy!Spec

-----------------------------------------------------------------------------

(* The converse of WindowBound: whoever is refused was admitted max_requests
   times during the last window_seconds.  No admission counts twice, or
   longer than its window, however late it is dropped. *)
RefusedOnlyAtLimit ==
  [][\A k \in Keys :
       answers'[k] # answers[k] /\ answers'[k].verdict = "refused" =>
         LET n == Len(granted[k]) IN
         n >= MaxRequests /\ granted[k][n - MaxRequests + 1] > now - Window]_vars

(* A full queue of recent admissions is the end of the history. *)
LEMMA FullQueueIsRecent ==
  ASSUME IInv, NEW k \in Keys, ~WouldAdmit(k)
  PROVE  LET n == Len(granted[k]) IN
         n >= MaxRequests /\ granted[k][n - MaxRequests + 1] > now - Window
<1> USE DEF IInv
<1>1. MaxRequests \in Nat \ {0} /\ now \in Nat /\ now - Window \in Int
  BY Settings DEF TypeOK
<1>2. Len(Recent(k)) = MaxRequests /\ Recent(k) \in Seq(Nat)
  BY NewQueueIs, RecentIs
<1>3. Recent(k) # <<>>
  BY <1>1, <1>2
<1>4. k \in DOMAIN events /\ Queue(k) = events[k]
  BY <1>3 DEF Recent, Queue
<1>5. Queue(k) \in Seq(Nat) /\ Len(Queue(k)) \in 1..MaxRequests
  BY <1>4 DEF QueueInv, QueueOK
<1> DEFINE q == Queue(k)
           r == Recent(k)
           g == granted[k]
<1>6. PICK n \in 0..Len(q) :
        /\ Len(r) = Len(q) - n
        /\ \A i \in 1..Len(q) : q[i] <= now - Window <=> i <= n
  BY RecentIs
<1>7. Len(g) \in Nat
  BY DEF TypeOK
<1>8. Dropped(k) >= 0 /\ \A i \in 1..Len(q) : g[Dropped(k) + i] = q[i]
  BY DEF HistoryInv
<1>9. Dropped(k) = Len(g) - Len(q)
  BY DEF Dropped
<1> DEFINE a == Len(q)
           b == Len(g)
<1>10. a = MaxRequests /\ n = 0 /\ b \in Nat
  BY <1>1, <1>2, <1>5, <1>6, <1>7
<1>11. q[1] \in Nat /\ ~(q[1] <= now - Window)
  BY <1>1, <1>5, <1>6, <1>10
<1>12. g[b - MaxRequests + 1] = q[1] /\ b >= MaxRequests
  BY <1>1, <1>8, <1>9, <1>10
<1> QED
  BY <1>1, <1>11, <1>12

(* A refusal always has its cause: max_requests admissions that still
   count. *)
THEOREM RefusalsHaveACause == Spec => RefusedOnlyAtLimit
<1>1. IInv /\ [Next]_vars =>
        [\A k \in Keys :
           answers'[k] # answers[k] /\ answers'[k].verdict = "refused" =>
             LET n == Len(granted[k]) IN
             n >= MaxRequests
               /\ granted[k][n - MaxRequests + 1] > now - Window]_vars
  <2> SUFFICES ASSUME IInv, [Next]_vars, NEW k \in Keys,
                      answers'[k] # answers[k],
                      answers'[k].verdict = "refused"
               PROVE  LET n == Len(granted[k]) IN
                      n >= MaxRequests
                        /\ granted[k][n - MaxRequests + 1] > now - Window
    OBVIOUS
  <2>1. ASSUME NEW x \in Keys, Check(x) PROVE ~WouldAdmit(k)
    <3>1. answers' = [answers EXCEPT ![x] =
                        IF WouldAdmit(x)
                        THEN [verdict |-> "admitted", at |-> now, retry |-> 0]
                        ELSE [verdict |-> "refused", at |-> now,
                              retry |-> RetryAfter(Recent(x), now)]]
      BY <2>1, CheckIs DEF IInv
    <3>2. x = k
      BY <3>1
    <3> QED
      BY <3>1, <3>2 DEF IInv, TypeOK
  <2>2. ~Tick /\ ~UNCHANGED vars
    BY DEF Tick, vars
  <2>3. ~WouldAdmit(k)
    BY <2>1, <2>2 DEF Next
  <2> QED
    BY <2>3, FullQueueIsRecent
<1> QED
  BY <1>1, Invariance, PTL DEF Spec, RefusedOnlyAtLimit
=============================================================================
