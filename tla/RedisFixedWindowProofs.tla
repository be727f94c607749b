------------------------ MODULE RedisFixedWindowProofs ------------------------
(***************************************************************************)
(* Theorems about RedisFixedWindow, for any requests, instances, clocks,   *)
(* windows, limits and timeouts that TimingAssumption admits, and either   *)
(* setting of fail_open.                                                   *)
(***************************************************************************)
EXTENDS RedisFixedWindow, FiniteSetTheorems, TLAPS

(* When a bucket's window begins, by the clock of the instance. *)
WindowStart(b) == b * Window

Begun == {r \in Requests : pc[r] # "idle"}

(* The requests that are or may yet be let through by b's counter. *)
Admitted(b) ==
  {r \in Requests :
     (verdict[r] = "allowed" \/ pc[r] = "expire") /\ bucket(r) = b}

(* The requests whose INCR is over, with whatever result. *)
Came(b) == {r \in Requests : pc[r] \in {"expire", "done"} /\ bucket(r) = b}

(* By every clock the window is over, and so is every check begun in it. *)
Past(b) ==
  \A i \in Instances :
    now + Skew[i] - Timeout >= WindowStart(b) + Window

(* A check was begun by its instance's clock, not longer ago than the
   timeout; only finitely many were. *)
CheckInv ==
  /\ IsFiniteSet(Begun)
  /\ \A r \in Requests :
       /\ pc[r] # "idle" => /\ instance[r] \in Instances
                            /\ stamp[r] = started[r] + Skew[instance[r]]
                            /\ started[r] <= now
       /\ Checking(r) => now <= started[r] + Timeout
       /\ pc[r] # "done" => verdict[r] = "none"
       /\ pc[r] = "done" => verdict[r] # "none"

(* An expiry lies a whole window after the window of its bucket, by the
   clock of the instance that set it. *)
DeadlineInv ==
  \A b \in Buckets :
    deadline[b] # NoTTL =>
      \E i \in Instances :
        deadline[b] + Skew[i] >= WindowStart(b) + 2 * Window

(* A counter counts every request it may let through, until all of them are
   over; and never more than came. *)
CountInv ==
  \A b \in Buckets :
    /\ Past(b) \/ Cardinality(Admitted(b)) <= counters[b]
    /\ Cardinality(Admitted(b)) <= MaxRequests
    /\ counters[b] <= Cardinality(Came(b))

RetryInv ==
  \A r \in Requests :
    verdict[r] = "429" => retry[r] = RetryAfterSeconds(stamp[r])

IInv ==
  /\ TypeOK /\ CheckInv /\ DeadlineInv /\ CountInv /\ RetryInv
  /\ LeakOnlyAfterFailure /\ RefusedOnlyWhenFull

-----------------------------------------------------------------------------
(* Arithmetic of windows. *)

(* The settings in ticks; a counter lives two windows. *)
LEMMA Units ==
  /\ Window \in Nat \ {0} /\ Timeout \in Nat \ {0}
  /\ TTL * TicksPerSecond = 2 * Window
  /\ TTL * TicksPerSecond \in Nat \ {0}
<1>1. /\ Window = WindowSeconds * TicksPerSecond
      /\ TTL * TicksPerSecond = (WindowSeconds * 2) * TicksPerSecond
      /\ WindowSeconds \in Nat \ {0} /\ TicksPerSecond \in Nat \ {0}
  BY SettingsAssumption DEF Window, TTL
<1>2. Window \in Nat \ {0} /\ Timeout \in Nat \ {0}
  BY SettingsAssumption DEF Window, Timeout
<1>3. (WindowSeconds * 2) * TicksPerSecond
        = 2 * (WindowSeconds * TicksPerSecond)
  BY <1>1
<1> QED
  BY <1>1, <1>2, <1>3

(* A time lies in the window of its bucket, and in no other. *)
LEMMA WindowBounds ==
  ASSUME NEW t \in Nat
  PROVE  /\ BucketAt(t) \in Nat
         /\ WindowStart(BucketAt(t)) \in Nat
         /\ WindowStart(BucketAt(t)) <= t
         /\ t < WindowStart(BucketAt(t)) + Window
BY SettingsAssumption, Units DEF BucketAt, WindowStart

(* A quotient is determined by what is left. *)
LEMMA Quotient ==
  ASSUME NEW d \in Nat \ {0}, NEW b \in Nat, NEW k \in 0..d - 1, NEW t,
         t = d * b + k
  PROVE  t \div d = b
<1>1. /\ t \in Nat /\ t \div d \in Nat /\ t % d \in 0..d - 1
      /\ t = d * (t \div d) + (t % d)
  OBVIOUS
<1>2. ASSUME NEW x \in Nat, NEW y \in Nat, x < y
      PROVE  d * x + d <= d * y
  BY <1>2
<1> QED
  BY <1>1, <1>2

(* Retry-After of a time, in seconds, is what is left of its window, rounded
   up: exact on a whole second, less than one too long otherwise. *)
LEMMA RetryIsRest ==
  ASSUME NEW t \in Nat
  PROVE  LET end == WindowStart(BucketAt(t)) + Window
             ask == RetryAfterSeconds(t)
         IN  /\ ask \in 1..WindowSeconds
             /\ t + ask * TicksPerSecond >= end
             /\ t + (ask - 1) * TicksPerSecond < end
<1> DEFINE T == TicksPerSecond
           W == WindowSeconds
           n == t \div T
           f == t % T
           b == n \div W
           m == n % W
<1>1. T \in Nat \ {0} /\ W \in Nat \ {0}
  BY SettingsAssumption
<1>2. n \in Nat /\ f \in 0..T - 1 /\ t = T * n + f
  BY <1>1
<1>3. b \in Nat /\ m \in 0..W - 1 /\ n = W * b + m
  BY <1>1, <1>2
<1> HIDE DEF T, W, n, f, b, m
<1>4. T * n = (W * T) * b + T * m
  <2>1. T * n = T * (W * b) + T * m
    BY <1>1, <1>3
  <2>2. T * (W * b) = (W * T) * b
    BY <1>1, <1>3
  <2> QED
    BY <2>1, <2>2
<1>5. /\ T * m \in Nat /\ T * m + T <= W * T
      /\ W * T \in Nat \ {0}
  <2>1. m + 1 <= W /\ m + 1 \in Nat
    BY <1>1, <1>3
  <2>2. T * (m + 1) <= T * W
    BY <1>1, <2>1
  <2>3. T * (m + 1) = T * m + T /\ T * W = W * T
    BY <1>1, <1>3
  <2>4. T * m \in Nat /\ W * T \in Nat \ {0}
    BY <1>1, <1>3
  <2> QED
    BY <2>2, <2>3, <2>4
<1>6. t = (W * T) * b + (T * m + f) /\ T * m + f \in 0..(W * T) - 1
  <2>1. (W * T) * b \in Nat
    BY <1>1, <1>3, <1>5
  <2> QED
    BY <1>1, <1>2, <1>4, <1>5, <2>1
<1>7. t \div (W * T) = b
  BY <1>3, <1>5, <1>6, Quotient
<1>8. WindowStart(BucketAt(t)) = b * (W * T) /\ Window = W * T
  BY <1>7 DEF WindowStart, BucketAt, Window, W, T
<1>9. RetryAfterSeconds(t) = W - m
  BY DEF RetryAfterSeconds, Seconds, W, m, n, T
<1>10. /\ (W - m) * T = W * T - T * m
       /\ ((W - m) - 1) * T = W * T - T * m - T
  <2>1. W - m \in Nat /\ W - m - 1 \in Nat
    BY <1>1, <1>3
  <2> QED
    BY <1>1, <1>3, <2>1
<1>11. b * (W * T) = (W * T) * b /\ b * (W * T) \in Nat
  BY <1>1, <1>3, <1>5
<1>12. /\ W - m \in 1..W
       /\ t + (W - m) * T >= b * (W * T) + W * T
       /\ t + ((W - m) - 1) * T < b * (W * T) + W * T
  BY <1>1, <1>2, <1>3, <1>5, <1>6, <1>10, <1>11
<1> QED
  BY <1>8, <1>9, <1>12 DEF W, T

(* Windows follow one another. *)
LEMMA WindowsInOrder ==
  ASSUME NEW a \in Nat, NEW b \in Nat, a < b
  PROVE  WindowStart(a) + Window <= WindowStart(b)
BY SettingsAssumption, Units DEF WindowStart

(* Buckets are numbers; a check's bucket is one of them. *)
LEMMA BucketTypes ==
  ASSUME TypeOK, CheckInv
  PROVE  /\ Buckets \subseteq Nat
         /\ \A b \in Buckets : WindowStart(b) \in Nat
         /\ \A r \in Requests : /\ bucket(r) \in Nat
                                /\ pc[r] # "idle" => bucket(r) \in Buckets
<1>1. Buckets \subseteq Nat
  BY ClockAssumption, WindowBounds DEF Buckets
<1>2. \A b \in Buckets : WindowStart(b) \in Nat
  BY <1>1, SettingsAssumption, Units DEF WindowStart
<1>3. \A r \in Requests : bucket(r) \in Nat
  BY WindowBounds DEF bucket, TypeOK
<1>4. ASSUME NEW r \in Requests, pc[r] # "idle"
      PROVE  bucket(r) \in Buckets
  <2>1. /\ instance[r] \in Instances /\ started[r] \in 0..MaxTime
        /\ stamp[r] = started[r] + Skew[instance[r]]
    BY <1>4, ClockAssumption DEF TypeOK, CheckInv
  <2> QED
    BY <2>1 DEF Buckets, bucket
<1> QED
  BY <1>1, <1>2, <1>3, <1>4

(* While a check is under way, its bucket is not past. *)
LEMMA NotPast ==
  ASSUME TypeOK, CheckInv, NEW r \in Requests, Checking(r)
  PROVE  ~Past(bucket(r))
<1>1. /\ instance[r] \in Instances /\ started[r] \in Nat /\ now \in Nat
      /\ stamp[r] = started[r] + Skew[instance[r]]
      /\ Skew[instance[r]] \in Nat
      /\ now <= started[r] + Timeout
  BY ClockAssumption DEF TypeOK, CheckInv, Checking
<1>2. /\ stamp[r] < WindowStart(bucket(r)) + Window
      /\ WindowStart(bucket(r)) \in Nat
  BY WindowBounds DEF TypeOK, bucket
<1>3. now + Skew[instance[r]] - Timeout
        < WindowStart(bucket(r)) + Window
  BY <1>1, <1>2, SettingsAssumption, Units
<1>4. ~(now + Skew[instance[r]] - Timeout
          >= WindowStart(bucket(r)) + Window)
  BY <1>1, <1>2, <1>3, SettingsAssumption, Units
<1> QED
  BY <1>1, <1>4 DEF Past

(* An expiry that has come is past the bucket's window and all its checks:
   here the deployment rule is needed. *)
LEMMA ExpiredIsPast ==
  ASSUME TypeOK, CheckInv, DeadlineInv, NEW b \in Buckets,
         deadline[b] # NoTTL, now' = now + 1, deadline[b] <= now'
  PROVE  Past(b)'
<1>1. PICK i \in Instances :
        deadline[b] + Skew[i] >= WindowStart(b) + 2 * Window
  BY DEF DeadlineInv
<1>2. /\ deadline[b] \in Nat /\ now \in Nat /\ WindowStart(b) \in Nat
      /\ Skew[i] \in Nat
  BY BucketTypes, ClockAssumption DEF TypeOK
<1>3. ASSUME NEW j \in Instances
      PROVE  now' + Skew[j] - Timeout >= WindowStart(b) + Window
  <2>1. /\ Timeout + Skew[i] - Skew[j] <= Window
        /\ Skew[j] \in Nat
    BY TimingAssumption, ClockAssumption
  <2> QED
    BY <1>1, <1>2, <2>1, SettingsAssumption, Units
<1> QED
  BY <1>3 DEF Past, WindowStart

(* The expiry that EXPIRE sets. *)
LEMMA NewDeadline ==
  ASSUME TypeOK, CheckInv, NEW r \in Requests, Checking(r)
  PROVE  /\ now + TTL * TicksPerSecond # NoTTL
         /\ now + TTL * TicksPerSecond \in Nat
         /\ \E i \in Instances :
              now + TTL * TicksPerSecond + Skew[i]
                >= WindowStart(bucket(r)) + 2 * Window
<1>1. /\ instance[r] \in Instances /\ started[r] \in Nat /\ now \in Nat
      /\ stamp[r] = started[r] + Skew[instance[r]]
      /\ Skew[instance[r]] \in Nat
      /\ started[r] <= now
  BY ClockAssumption DEF TypeOK, CheckInv, Checking
<1>2. /\ WindowStart(bucket(r)) <= stamp[r]
      /\ WindowStart(bucket(r)) \in Nat
  BY WindowBounds DEF TypeOK, bucket
<1>3. now + TTL * TicksPerSecond + Skew[instance[r]]
        >= WindowStart(bucket(r)) + 2 * Window
  BY <1>1, <1>2, SettingsAssumption, Units DEF TTL
<1> QED
  BY <1>1, <1>3, SettingsAssumption, Units DEF TTL, NoTTL

-----------------------------------------------------------------------------
(* Who is counted. *)

(* The sets of requests are finite. *)
LEMMA FiniteCounts ==
  ASSUME TypeOK, CheckInv, NEW b
  PROVE  /\ IsFiniteSet(Admitted(b)) /\ Cardinality(Admitted(b)) \in Nat
         /\ IsFiniteSet(Came(b)) /\ Cardinality(Came(b)) \in Nat
<1>1. Admitted(b) \subseteq Begun /\ Came(b) \subseteq Begun
  BY DEF CheckInv, Admitted, Came, Begun
<1> QED
  BY <1>1, FS_Subset, FS_CardinalityType DEF CheckInv

(* A request that was counted for a refusal is counted for good: the others
   of its bucket stay. *)
LEMMA RefusalsStay ==
  ASSUME RefusedOnlyWhenFull, IsFiniteSet(Begun'),
         NEW r \in Requests, verdict[r] = "429", bucket(r)' = bucket(r),
         \A q \in Begun : q \in Begun' /\ bucket(q)' = bucket(q),
         MaxRequests \in Nat
  PROVE  Cardinality({q \in Requests \ {r} :
                        pc'[q] # "idle" /\ bucket(q)' = bucket(r)'})
           >= MaxRequests
<1> DEFINE Before == {q \in Requests \ {r} :
                        pc[q] # "idle" /\ bucket(q) = bucket(r)}
           After  == {q \in Requests \ {r} :
                        pc'[q] # "idle" /\ bucket(q)' = bucket(r)'}
<1>1. Before \subseteq After /\ After \subseteq Begun'
  BY DEF Begun
<1>2. IsFiniteSet(After)
  BY <1>1, FS_Subset
<1>3. IsFiniteSet(Before) /\ Cardinality(Before) <= Cardinality(After)
  BY <1>1, <1>2, FS_Subset
<1>4. Cardinality(Before) >= MaxRequests
  BY DEF RefusedOnlyWhenFull
<1>5. Cardinality(Before) \in Nat /\ Cardinality(After) \in Nat
  BY <1>2, <1>3, FS_CardinalityType
<1> HIDE DEF Before, After
<1>6. Cardinality(After) >= MaxRequests
  BY <1>3, <1>4, <1>5
<1> QED
  BY <1>6 DEF After

(* A check that goes on to EXPIRE or ends: it has come, and may or may not
   be admitted; nothing changes for other buckets. *)
LEMMA StepSets ==
  ASSUME TypeOK, NEW r \in Requests, Checking(r), UNCHANGED stamp,
         NEW next \in {"expire", "done"}, NEW answer \in Verdicts,
         pc' = [pc EXCEPT ![r] = next],
         verdict' = [verdict EXCEPT ![r] = answer]
  PROVE  /\ \A q \in Requests : bucket(q)' = bucket(q)
         /\ Begun' = Begun
         /\ \A b : b # bucket(r) => /\ Admitted(b)' = Admitted(b)
                                    /\ Came(b)' = Came(b)
         /\ Came(bucket(r))' = Came(bucket(r)) \cup {r}
         /\ next = "expire" \/ answer = "allowed" =>
              Admitted(bucket(r))' = Admitted(bucket(r)) \cup {r}
         /\ next = "done" /\ answer # "allowed" =>
              Admitted(bucket(r))' = Admitted(bucket(r)) \ {r}
<1>1. \A q \in Requests : bucket(q)' = bucket(q)
  BY DEF bucket
<1>2. /\ pc'[r] = next /\ verdict'[r] = answer
      /\ \A q \in Requests \ {r} : pc'[q] = pc[q] /\ verdict'[q] = verdict[q]
  BY DEF TypeOK
<1>3. Begun' = Begun
  BY <1>2 DEF Begun, Checking
<1>4. ASSUME NEW b, b # bucket(r)
      PROVE  Admitted(b)' = Admitted(b) /\ Came(b)' = Came(b)
  BY <1>1, <1>2, <1>4 DEF Admitted, Came
<1>5. Came(bucket(r))' = Came(bucket(r)) \cup {r}
  BY <1>1, <1>2 DEF Came
<1>6. ASSUME next = "expire" \/ answer = "allowed"
      PROVE  Admitted(bucket(r))' = Admitted(bucket(r)) \cup {r}
  BY <1>1, <1>2, <1>6 DEF Admitted
<1>7. ASSUME next = "done", answer # "allowed"
      PROVE  Admitted(bucket(r))' = Admitted(bucket(r)) \ {r}
  BY <1>1, <1>2, <1>7 DEF Admitted
<1> QED
  BY <1>1, <1>3, <1>4, <1>5, <1>6, <1>7

-----------------------------------------------------------------------------
(* The steps. *)

(* The inductive invariant holds initially. *)
LEMMA InitInv == Init => IInv
<1> SUFFICES ASSUME Init PROVE IInv
  OBVIOUS
<1>1. Begun = {} /\ \A b : Admitted(b) = {} /\ Came(b) = {}
  BY DEF Init, Begun, Admitted, Came
<1>2. CheckInv
  BY <1>1, FS_EmptySet DEF Init, CheckInv, Checking
<1>3. CountInv
  <2>1. Cardinality({}) = 0
    BY FS_EmptySet
  <2> QED
    BY <1>1, <2>1, SettingsAssumption DEF Init, CountInv
<1>4. TypeOK
  BY SettingsAssumption, Units, ClockAssumption
  DEF Init, TypeOK, Verdicts, NoTTL
<1> QED
  BY <1>2, <1>3, <1>4
  DEF Init, IInv, DeadlineInv, RetryInv, LeakOnlyAfterFailure,
      RefusedOnlyWhenFull

(* Redis drops counters only when their bucket is past. *)
LEMMA TickInv ==
  ASSUME IInv, Tick
  PROVE  IInv'
<1> USE DEF IInv
<1>1. TypeOK'
  BY ClockAssumption DEF Tick, TypeOK, origin
<1>2. /\ now \in Nat /\ now' = now + 1
      /\ UNCHANGED <<pc, stamp, started, instance, verdict, retry>>
  BY DEF Tick, TypeOK, origin
<1>3. /\ Begun' = Begun
      /\ \A b : Admitted(b)' = Admitted(b) /\ Came(b)' = Came(b)
      /\ \A q \in Requests : bucket(q)' = bucket(q)
  BY <1>2 DEF Begun, Admitted, Came, bucket
<1>4. CheckInv'
  <2>1. \A r \in Requests : Checking(r) => now + 1 <= started[r] + Timeout
    BY <1>2, SettingsAssumption, Units DEF Tick, TypeOK
  <2>2. \A r \in Requests : started[r] <= now => started[r] <= now + 1
    BY <1>2 DEF TypeOK
  <2> QED
    BY <1>2, <1>3, <2>1, <2>2 DEF CheckInv, Checking
<1>5. DeadlineInv'
  BY DEF Tick, DeadlineInv, WindowStart, TypeOK
<1>6. CountInv'
  <2> SUFFICES ASSUME NEW b \in Buckets
               PROVE  /\ Past(b)' \/ Cardinality(Admitted(b)) <= counters'[b]
                      /\ Cardinality(Admitted(b)) <= MaxRequests
                      /\ counters'[b] <= Cardinality(Came(b))
    BY <1>3 DEF CountInv
  <2>1. CASE deadline[b] # NoTTL /\ deadline[b] <= now + 1
    <3>1. Past(b)'
      BY <1>2, <2>1, ExpiredIsPast
    <3>2. counters'[b] = 0
      BY <2>1 DEF Tick, TypeOK
    <3>3. 0 <= Cardinality(Came(b))
      BY FiniteCounts
    <3> QED
      BY <3>1, <3>2, <3>3 DEF CountInv
  <2>2. CASE ~(deadline[b] # NoTTL /\ deadline[b] <= now + 1)
    <3>1. counters'[b] = counters[b]
      BY <2>2 DEF Tick, TypeOK
    <3>2. ASSUME Past(b) PROVE Past(b)'
      <4>1. ASSUME NEW i \in Instances
            PROVE  now' + Skew[i] - Timeout
                     >= WindowStart(b) + Window
        <5>1. now + Skew[i] - Timeout >= WindowStart(b) + Window
          BY <3>2 DEF Past
        <5> QED
          BY <5>1, <1>2, BucketTypes, ClockAssumption, SettingsAssumption, Units
      <4> QED
        BY <4>1 DEF Past, WindowStart
    <3> QED
      BY <3>1, <3>2 DEF CountInv
  <2> QED
    BY <2>1, <2>2
<1>7. RetryInv'
  BY <1>2 DEF RetryInv
<1>8. LeakOnlyAfterFailure'
  BY <1>2, <1>3 DEF Tick, LeakOnlyAfterFailure, TypeOK, NoTTL
<1>9. RefusedOnlyWhenFull'
  BY <1>2, <1>3 DEF RefusedOnlyWhenFull
<1> QED
  BY <1>1, <1>4, <1>5, <1>6, <1>7, <1>8, <1>9

(* A check begins: nobody is counted yet. *)
LEMMA StartCheckInv ==
  ASSUME IInv, NEW r \in Requests, NEW i \in Instances, StartCheck(r, i)
  PROVE  IInv'
<1> USE DEF IInv
<1>1. now \in Nat /\ Skew[i] \in Nat /\ now + Skew[i] \in Nat
  BY ClockAssumption DEF TypeOK
<1>2. TypeOK'
  BY <1>1 DEF StartCheck, TypeOK, redis
<1>3. /\ pc[r] = "idle" /\ pc'[r] = "incr"
      /\ UNCHANGED <<now, counters, deadline, verdict, retry>>
      /\ \A q \in Requests \ {r} :
           /\ pc'[q] = pc[q] /\ stamp'[q] = stamp[q]
           /\ instance'[q] = instance[q] /\ started'[q] = started[q]
      /\ verdict[r] = "none"
  BY DEF StartCheck, TypeOK, redis, CheckInv
<1>4. /\ Begun' = Begun \cup {r}
      /\ \A b : Admitted(b)' = Admitted(b) /\ Came(b)' = Came(b)
      /\ \A q \in Requests \ {r} : bucket(q)' = bucket(q)
  BY <1>3 DEF Begun, Admitted, Came, bucket
<1>5. CheckInv'
  <2>1. IsFiniteSet(Begun')
    BY <1>4, FS_AddElement DEF CheckInv
  <2>2. /\ instance'[r] = i /\ started'[r] = now /\ stamp'[r] = now + Skew[i]
    BY DEF StartCheck, TypeOK
  <2>3. now <= now + Timeout
    BY <1>1, SettingsAssumption, Units
  <2> QED
    BY <1>1, <1>3, <2>1, <2>2, <2>3 DEF CheckInv, Checking
<1>6. DeadlineInv'
  BY <1>3 DEF DeadlineInv, WindowStart
<1>7. CountInv'
  BY <1>3, <1>4 DEF CountInv, Past, WindowStart
<1>8. RetryInv'
  BY <1>3 DEF RetryInv
<1>9. LeakOnlyAfterFailure'
  BY <1>3, <1>4 DEF LeakOnlyAfterFailure
<1>10. RefusedOnlyWhenFull'
  <2> SUFFICES ASSUME NEW s \in Requests, verdict'[s] = "429"
               PROVE  Cardinality({q \in Requests \ {s} :
                         pc'[q] # "idle" /\ bucket(q)' = bucket(s)'})
                        >= MaxRequests
    BY DEF RefusedOnlyWhenFull
  <2>1. verdict[s] = "429" /\ s # r
    BY <1>3
  <2>2. \A q \in Begun : q \in Begun' /\ bucket(q)' = bucket(q)
    BY <1>3, <1>4 DEF Begun
  <2> QED
    BY <1>4, <1>5, <2>1, <2>2, RefusalsStay, SettingsAssumption
    DEF CheckInv
<1> QED
  BY <1>2, <1>5, <1>6, <1>7, <1>8, <1>9, <1>10

(* What the end of a command never disturbs, whatever it did to Redis: the
   request goes on to EXPIRE or is over. *)
LEMMA ProgressInv ==
  ASSUME IInv, NEW r \in Requests, Checking(r), UNCHANGED <<now, origin>>,
         NEW next \in {"expire", "done"}, NEW answer \in Verdicts,
         pc' = [pc EXCEPT ![r] = next],
         verdict' = [verdict EXCEPT ![r] = answer],
         answer = "none" <=> next = "expire",
         \/ retry' = retry /\ answer # "429"
         \/ retry' = [retry EXCEPT ![r] = IF answer = "429"
                                          THEN RetryAfterSeconds(stamp[r])
                                          ELSE 0],
         answer = "429" => Cardinality(Came(bucket(r))) >= MaxRequests,
         pc[r] = "expire" => answer # "429"
  PROVE  /\ pc' \in [Requests -> {"idle", "incr", "expire", "done"}]
         /\ verdict' \in [Requests -> Verdicts]
         /\ retry' \in [Requests -> 0..WindowSeconds]
         /\ CheckInv' /\ RetryInv' /\ RefusedOnlyWhenFull'
<1> USE DEF IInv
<1>1. /\ stamp[r] \in Nat /\ RetryAfterSeconds(stamp[r]) \in 0..WindowSeconds
      /\ 0 \in 0..WindowSeconds
  BY RetryIsRest, SettingsAssumption, Units DEF TypeOK
<1>2. /\ pc' \in [Requests -> {"idle", "incr", "expire", "done"}]
      /\ verdict' \in [Requests -> Verdicts]
      /\ retry' \in [Requests -> 0..WindowSeconds]
  BY <1>1 DEF TypeOK
<1>3. /\ \A q \in Requests : bucket(q)' = bucket(q)
      /\ Begun' = Begun
  BY StepSets DEF origin
<1>4. CheckInv'
  BY <1>3 DEF CheckInv, Checking, TypeOK, origin
<1>5. RetryInv'
  BY <1>1 DEF RetryInv, TypeOK, origin, RetryAfterSeconds
<1>6. RefusedOnlyWhenFull'
  <2> SUFFICES ASSUME NEW t \in Requests, verdict'[t] = "429"
               PROVE  Cardinality({q \in Requests \ {t} :
                         pc'[q] # "idle" /\ bucket(q)' = bucket(t)'})
                        >= MaxRequests
    BY DEF RefusedOnlyWhenFull
  <2>1. CASE t # r
    <3>1. verdict[t] = "429"
      BY <2>1 DEF TypeOK
    <3>2. /\ IsFiniteSet(Begun') /\ bucket(t)' = bucket(t)
          /\ \A q \in Begun : q \in Begun' /\ bucket(q)' = bucket(q)
      BY <1>3, <1>4 DEF CheckInv, Begun
    <3> QED
      BY <3>1, <3>2, RefusalsStay, SettingsAssumption, Units
  <2>2. CASE t = r
    <3> DEFINE After == {q \in Requests \ {t} :
                           pc'[q] # "idle" /\ bucket(q)' = bucket(t)'}
    <3>1. answer = "429" /\ pc[r] = "incr"
      BY <2>2 DEF TypeOK, Checking
    <3>2. Came(bucket(r)) \subseteq After
      BY <1>3, <2>2, <3>1 DEF Came, TypeOK
    <3>3. After \subseteq Begun
      BY <1>3 DEF Begun
    <3>4. IsFiniteSet(After)
      BY <3>3, FS_Subset DEF CheckInv
    <3>5. /\ Cardinality(Came(bucket(r))) <= Cardinality(After)
          /\ Cardinality(After) \in Nat /\ Cardinality(Came(bucket(r))) \in Nat
      BY <3>2, <3>4, FS_Subset, FS_CardinalityType
    <3>6. Cardinality(Came(bucket(r))) >= MaxRequests
      BY <3>1
    <3> HIDE DEF After
    <3>7. Cardinality(After) >= MaxRequests
      BY <3>5, <3>6, SettingsAssumption, Units
    <3> QED
      BY <3>7 DEF After
  <2> QED
    BY <2>1, <2>2
<1> QED
  BY <1>2, <1>4, <1>5, <1>6

(* INCR is carried out and answered. *)
LEMMA IncrementWindowInv ==
  ASSUME IInv, NEW r \in Requests, IncrementWindow(r)
  PROVE  IInv'
<1> USE DEF IInv
<1>0. Checking(r) /\ bucket(r) \in Buckets
  BY BucketTypes DEF IncrementWindow, Checking
<1> PICK b \in Buckets : b = bucket(r)
  BY <1>0
<1> DEFINE count == counters[b] + 1
           next == IF IsFirst(count) THEN "expire" ELSE "done"
           answer == IF IsFirst(count) THEN "none"
                     ELSE IF TooMany(count) THEN "429" ELSE "allowed"
<1>1. /\ pc[r] = "incr" /\ Checking(r) /\ verdict[r] = "none"
      /\ counters[b] \in Nat
      /\ UNCHANGED <<now, origin, deadline, stamp>>
  BY BucketTypes DEF IncrementWindow, Checking, CheckInv, TypeOK, origin
<1>2. /\ counters' = [counters EXCEPT ![b] = count]
      /\ pc' = [pc EXCEPT ![r] = next]
      /\ verdict' = [verdict EXCEPT ![r] = answer]
  BY <1>1 DEF IncrementWindow, INCR, Decide, TypeOK
<1>3. \/ retry' = retry /\ answer # "429"
      \/ retry' = [retry EXCEPT ![r] = IF answer = "429"
                                       THEN RetryAfterSeconds(stamp[r])
                                       ELSE 0]
  BY DEF IncrementWindow, Decide
<1>4. /\ ~Past(b) /\ Cardinality(Admitted(b)) <= counters[b]
      /\ counters[b] <= Cardinality(Came(b))
      /\ Cardinality(Admitted(b)) <= MaxRequests
      /\ Cardinality(Admitted(b)) \in Nat /\ Cardinality(Came(b)) \in Nat
  BY <1>1, NotPast, FiniteCounts DEF CountInv
<1>5. answer = "429" => Cardinality(Came(b)) >= MaxRequests
  BY <1>1, <1>4, SettingsAssumption, Units DEF TooMany
<1>6. /\ next \in {"expire", "done"} /\ answer \in Verdicts
      /\ answer = "none" <=> next = "expire"
  BY DEF Verdicts
<1>7. /\ pc' \in [Requests -> {"idle", "incr", "expire", "done"}]
      /\ verdict' \in [Requests -> Verdicts]
      /\ retry' \in [Requests -> 0..WindowSeconds]
      /\ CheckInv' /\ RetryInv' /\ RefusedOnlyWhenFull'
  <2> HIDE DEF next, answer
  <2> QED
    BY <1>1, <1>2, <1>3, <1>5, <1>6, ProgressInv
<1>8. TypeOK'
  BY <1>1, <1>2, <1>7 DEF TypeOK, origin
<1>9. DeadlineInv'
  BY <1>1 DEF DeadlineInv, WindowStart
<1>10. /\ \A q \in Requests : bucket(q)' = bucket(q)
       /\ \A c : c # b => Admitted(c)' = Admitted(c) /\ Came(c)' = Came(c)
       /\ Came(b)' = Came(b) \cup {r}
       /\ next = "expire" \/ answer = "allowed" =>
            Admitted(b)' = Admitted(b) \cup {r}
       /\ next = "done" /\ answer # "allowed" =>
            Admitted(b)' = Admitted(b) \ {r}
  <2> HIDE DEF next, answer
  <2> QED
    BY <1>1, <1>2, <1>6, StepSets
<1>11. CountInv'
  <2>1. r \notin Came(b) /\ r \notin Admitted(b)
    BY <1>1 DEF Came, Admitted
  <2>2. Cardinality(Came(b)') = Cardinality(Came(b)) + 1
    BY <1>10, <2>1, FiniteCounts, FS_AddElement
  <2>3. /\ Cardinality(Admitted(b)') <= count
        /\ Cardinality(Admitted(b)') <= MaxRequests
    <3>1. CASE answer = "429"
      <4>1. Admitted(b)' = Admitted(b)
        BY <1>10, <2>1, <3>1
      <4> QED
        BY <1>1, <1>4, <4>1
    <3>2. CASE answer # "429"
      <4>1. Admitted(b)' = Admitted(b) \cup {r}
        BY <1>10, <3>2
      <4>2. Cardinality(Admitted(b)') = Cardinality(Admitted(b)) + 1
        BY <2>1, <4>1, FiniteCounts, FS_AddElement
      <4>3. count <= MaxRequests
        BY <1>1, <3>2, SettingsAssumption, Units DEF IsFirst, TooMany
      <4> QED
        BY <1>1, <1>4, <4>2, <4>3, SettingsAssumption, Units
    <3> QED
      BY <3>1, <3>2
  <2>4. /\ counters'[b] = count
        /\ \A c \in Buckets \ {b} : counters'[c] = counters[c]
    BY <1>1, <1>2 DEF TypeOK
  <2>5. count <= Cardinality(Came(b)')
    BY <1>1, <1>4, <2>2
  <2>6. ASSUME NEW c \in Buckets, c # b
        PROVE  /\ Past(c)' \/ Cardinality(Admitted(c)') <= counters'[c]
               /\ Cardinality(Admitted(c)') <= MaxRequests
               /\ counters'[c] <= Cardinality(Came(c)')
    BY <1>1, <1>10, <2>4, <2>6 DEF CountInv, Past, WindowStart
  <2> HIDE DEF count
  <2> QED
    BY <2>3, <2>4, <2>5, <2>6 DEF CountInv
<1>12. LeakOnlyAfterFailure'
  <2> SUFFICES ASSUME NEW c \in Buckets, counters'[c] > 0, deadline'[c] = NoTTL
               PROVE  \E q \in Requests :
                        /\ pc'[q] # "idle" /\ bucket(q)' = c
                        /\ \/ pc'[q] = "expire"
                           \/ verdict'[q] \in {"uncounted", "503", "cut_off"}
    BY DEF LeakOnlyAfterFailure
  <2>1. CASE c = b /\ IsFirst(count)
    BY <1>1, <1>2, <1>10, <2>1 DEF TypeOK
  <2>2. CASE c # b \/ ~IsFirst(count)
    <3>1. counters[c] > 0 /\ deadline[c] = NoTTL
      BY <1>1, <1>2, <2>2 DEF TypeOK, IsFirst
    <3>2. PICK q \in Requests :
            /\ pc[q] # "idle" /\ bucket(q) = c
            /\ pc[q] = "expire" \/ verdict[q] \in {"uncounted", "503", "cut_off"}
      BY <3>1 DEF LeakOnlyAfterFailure
    <3>3. q # r
      BY <1>1, <3>2
    <3> QED
      BY <1>2, <1>10, <3>2, <3>3 DEF TypeOK
  <2> QED
    BY <2>1, <2>2
<1> QED
  BY <1>7, <1>8, <1>9, <1>11, <1>12

(* EXPIRE is carried out, for the one who was first or for nobody. *)
LEMMA ExpireDeadline ==
  ASSUME IInv, NEW r \in Requests, Checking(r), EXPIRE(bucket(r), TTL)
  PROVE  /\ DeadlineInv'
         /\ deadline' \in [Buckets -> Nat \cup {NoTTL}]
         /\ \A b \in Buckets : deadline'[b] = NoTTL => deadline[b] = NoTTL
         /\ counters[bucket(r)] > 0 => deadline'[bucket(r)] # NoTTL
<1> USE DEF IInv
<1>1. PICK b \in Buckets : b = bucket(r)
  BY BucketTypes DEF Checking
<1>2. /\ now + TTL * TicksPerSecond # NoTTL
      /\ now + TTL * TicksPerSecond \in Nat
      /\ \E i \in Instances :
           now + TTL * TicksPerSecond + Skew[i] >= WindowStart(b) + 2 * Window
  BY <1>1, NewDeadline
<1>3. deadline' = [deadline EXCEPT ![b] =
                     IF counters[b] > 0 THEN now + TTL * TicksPerSecond ELSE @]
  BY <1>1 DEF EXPIRE
<1>4. /\ deadline' \in [Buckets -> Nat \cup {NoTTL}]
      /\ \A c \in Buckets \ {b} : deadline'[c] = deadline[c]
      /\ deadline'[b] \in {deadline[b], now + TTL * TicksPerSecond}
      /\ counters[b] > 0 => deadline'[b] = now + TTL * TicksPerSecond
  BY <1>2, <1>3 DEF TypeOK
<1>5. DeadlineInv'
  BY <1>2, <1>4 DEF DeadlineInv, WindowStart
<1> QED
  BY <1>1, <1>2, <1>4, <1>5

LEMMA ExpireWindowInv ==
  ASSUME IInv, NEW r \in Requests, ExpireWindow(r)
  PROVE  IInv'
<1> USE DEF IInv
<1>1. /\ pc[r] = "expire" /\ Checking(r) /\ EXPIRE(bucket(r), TTL)
      /\ UNCHANGED <<now, origin, counters, stamp>>
  BY DEF ExpireWindow, Checking, origin
<1>2. ~TooMany(1)
  BY SettingsAssumption, Units DEF TooMany
<1>3. /\ pc' = [pc EXCEPT ![r] = "done"]
      /\ verdict' = [verdict EXCEPT ![r] = "allowed"]
      /\ retry' = [retry EXCEPT ![r] = 0]
  BY <1>2 DEF ExpireWindow, Decide
<1>4. /\ pc' \in [Requests -> {"idle", "incr", "expire", "done"}]
      /\ verdict' \in [Requests -> Verdicts]
      /\ retry' \in [Requests -> 0..WindowSeconds]
      /\ CheckInv' /\ RetryInv' /\ RefusedOnlyWhenFull'
  BY <1>1, <1>3, ProgressInv DEF Verdicts
<1>5. /\ \A q \in Requests : bucket(q)' = bucket(q)
      /\ \A b : b # bucket(r) => Admitted(b)' = Admitted(b)
                                 /\ Came(b)' = Came(b)
      /\ Came(bucket(r))' = Came(bucket(r)) \cup {r}
      /\ Admitted(bucket(r))' = Admitted(bucket(r)) \cup {r}
  BY <1>1, <1>3, StepSets DEF Verdicts
<1>6. r \in Came(bucket(r)) /\ r \in Admitted(bucket(r))
  BY <1>1 DEF Came, Admitted
<1>7. bucket(r)' = bucket(r)
  BY <1>5
<1>8. \A b \in Buckets : Admitted(b)' = Admitted(b) /\ Came(b)' = Came(b)
  <2> TAKE b \in Buckets
  <2>1. CASE b = bucket(r)
    <3>1. b = bucket(r)'
      BY <1>7, <2>1
    <3> QED
      BY <1>5, <1>6, <2>1, <3>1
  <2>2. CASE b # bucket(r)
    BY <1>5, <2>2
  <2> QED
    BY <2>1, <2>2
<1>9. CountInv'
  BY <1>1, <1>8 DEF CountInv, Past, WindowStart
<1>10. TypeOK' /\ DeadlineInv'
  BY <1>1, <1>4, ExpireDeadline DEF TypeOK, origin
<1>11. LeakOnlyAfterFailure'
  <2> SUFFICES ASSUME NEW c \in Buckets, counters'[c] > 0, deadline'[c] = NoTTL
               PROVE  \E q \in Requests :
                        /\ pc'[q] # "idle" /\ bucket(q)' = c
                        /\ \/ pc'[q] = "expire"
                           \/ verdict'[q] \in {"uncounted", "503", "cut_off"}
    BY DEF LeakOnlyAfterFailure
  <2>1. c # bucket(r) /\ counters[c] > 0 /\ deadline[c] = NoTTL
    BY <1>1, ExpireDeadline
  <2>2. PICK q \in Requests :
          /\ pc[q] # "idle" /\ bucket(q) = c
          /\ pc[q] = "expire" \/ verdict[q] \in {"uncounted", "503", "cut_off"}
    BY <2>1 DEF LeakOnlyAfterFailure
  <2>3. q # r
    BY <2>1, <2>2
  <2> QED
    BY <1>3, <1>5, <2>2, <2>3 DEF TypeOK
<1> QED
  BY <1>4, <1>9, <1>10, <1>11

(* A check ends without a decision of the limiter; its command may have been
   carried out all the same. *)
LEMMA UnheardInv ==
  ASSUME IInv, NEW r \in Requests, BackendFails(r) \/ CutOff(r)
  PROVE  IInv'
<1> USE DEF IInv
<1>1. PICK answer \in {"uncounted", "503", "cut_off"} : Decide(r, answer)
  BY DEF BackendFails, CutOff
<1>2. /\ Checking(r) /\ Unheard(r) /\ UNCHANGED <<now, origin, stamp>>
      /\ pc' = [pc EXCEPT ![r] = "done"]
      /\ verdict' = [verdict EXCEPT ![r] = answer]
      /\ retry' = [retry EXCEPT ![r] = 0]
  BY <1>1 DEF BackendFails, CutOff, Decide, origin
<1>3. /\ pc' \in [Requests -> {"idle", "incr", "expire", "done"}]
      /\ verdict' \in [Requests -> Verdicts]
      /\ retry' \in [Requests -> 0..WindowSeconds]
      /\ CheckInv' /\ RetryInv' /\ RefusedOnlyWhenFull'
  BY <1>1, <1>2, ProgressInv DEF Verdicts
<1>4. PICK b \in Buckets : b = bucket(r)
  BY <1>2, BucketTypes DEF Checking
<1>5. /\ \A q \in Requests : bucket(q)' = bucket(q)
      /\ \A c : c # b => Admitted(c)' = Admitted(c) /\ Came(c)' = Came(c)
      /\ Came(b)' = Came(b) \cup {r}
      /\ Admitted(b)' = Admitted(b) \ {r}
  <2>1. answer \in Verdicts /\ answer # "allowed"
    BY DEF Verdicts
  <2>2. bucket(r)' = bucket(r)
    BY <1>2 DEF bucket
  <2> QED
    BY <1>2, <1>4, <2>1, <2>2, StepSets
<1>6. /\ counters' \in [Buckets -> Nat]
      /\ \A c \in Buckets \ {b} : counters'[c] = counters[c]
      /\ \/ counters'[b] = counters[b]
         \/ pc[r] = "incr" /\ counters'[b] = counters[b] + 1
  BY <1>2, <1>4 DEF Unheard, INCR, redis, TypeOK
<1>7. /\ DeadlineInv' /\ deadline' \in [Buckets -> Nat \cup {NoTTL}]
      /\ \A c \in Buckets : deadline'[c] = NoTTL => deadline[c] = NoTTL
  <2>1. CASE deadline' = deadline
    BY <2>1 DEF DeadlineInv, WindowStart, TypeOK
  <2>2. CASE EXPIRE(bucket(r), TTL)
    BY <1>2, <2>2, ExpireDeadline
  <2> QED
    BY <1>2, <2>1, <2>2 DEF Unheard, redis
<1>8. TypeOK'
  BY <1>2, <1>3, <1>6, <1>7 DEF TypeOK, origin
<1>9. CountInv'
  <2>0. /\ IsFiniteSet(Admitted(b)) /\ IsFiniteSet(Came(b))
        /\ Cardinality(Admitted(b)) \in Nat /\ Cardinality(Came(b)) \in Nat
        /\ counters[b] \in Nat
    BY FiniteCounts DEF TypeOK
  <2>1. /\ Cardinality(Admitted(b)') \in Nat
        /\ Cardinality(Admitted(b)') <= Cardinality(Admitted(b))
    <3>1. Admitted(b)' \subseteq Admitted(b)
      BY <1>5
    <3> QED
      BY <2>0, <3>1, FS_Subset, FS_CardinalityType
  <2>2. ~Past(b) /\ Cardinality(Admitted(b)) <= counters[b]
    BY <1>2, <1>4, NotPast DEF CountInv
  <2>3. /\ Cardinality(Admitted(b)') <= counters'[b]
        /\ Cardinality(Admitted(b)') <= MaxRequests
    BY <1>6, <2>0, <2>1, <2>2, SettingsAssumption, Units DEF CountInv
  <2>4. counters'[b] <= Cardinality(Came(b)')
    <3>1. CASE pc[r] = "incr"
      <4>1. r \notin Came(b)
        BY <3>1 DEF Came
      <4>2. Cardinality(Came(b)') = Cardinality(Came(b)) + 1
        BY <1>5, <2>0, <4>1, FS_AddElement
      <4> QED
        BY <1>6, <2>0, <4>2 DEF CountInv
    <3>2. CASE pc[r] # "incr"
      <4>1. r \in Came(b)
        BY <1>2, <1>4, <3>2 DEF Came, Checking
      <4>2. Came(b)' = Came(b)
        BY <1>5, <4>1
      <4> QED
        BY <1>6, <3>2, <4>2 DEF CountInv
    <3> QED
      BY <3>1, <3>2
  <2>5. ASSUME NEW c \in Buckets, c # b
        PROVE  /\ Past(c)' \/ Cardinality(Admitted(c)') <= counters'[c]
               /\ Cardinality(Admitted(c)') <= MaxRequests
               /\ counters'[c] <= Cardinality(Came(c)')
    BY <1>2, <1>5, <1>6, <2>5 DEF CountInv, Past, WindowStart
  <2> QED
    BY <2>3, <2>4, <2>5 DEF CountInv
<1>10. LeakOnlyAfterFailure'
  <2> SUFFICES ASSUME NEW c \in Buckets, counters'[c] > 0, deadline'[c] = NoTTL
               PROVE  \E q \in Requests :
                        /\ pc'[q] # "idle" /\ bucket(q)' = c
                        /\ \/ pc'[q] = "expire"
                           \/ verdict'[q] \in {"uncounted", "503", "cut_off"}
    BY DEF LeakOnlyAfterFailure
  <2>1. CASE c = b
    BY <1>2, <1>4, <1>5, <2>1 DEF TypeOK
  <2>2. CASE c # b
    <3>1. PICK q \in Requests :
            /\ pc[q] # "idle" /\ bucket(q) = c
            /\ pc[q] = "expire" \/ verdict[q] \in {"uncounted", "503", "cut_off"}
      BY <1>6, <1>7, <2>2 DEF LeakOnlyAfterFailure
    <3>2. q # r
      BY <1>4, <2>2, <3>1
    <3> QED
      BY <1>2, <1>5, <3>1, <3>2 DEF TypeOK
  <2> QED
    BY <2>1, <2>2
<1> QED
  BY <1>3, <1>7, <1>8, <1>9, <1>10

(* Every step preserves it. *)
LEMMA NextInv == IInv /\ [Next]_vars => IInv'
<1> SUFFICES ASSUME IInv, [Next]_vars PROVE IInv'
  OBVIOUS
<1>1. CASE UNCHANGED vars
  BY <1>1 DEF vars, IInv, TypeOK, CheckInv, DeadlineInv, CountInv, RetryInv,
     LeakOnlyAfterFailure, RefusedOnlyWhenFull, Begun, Admitted, Came, Past,
     WindowStart, Checking, bucket, RetryAfterSeconds
<1>2. CASE Finished
  BY <1>1, <1>2 DEF Finished
<1>3. CASE Tick
  BY <1>3, TickInv
<1>4. ASSUME NEW r \in Requests,
             \/ \E i \in Instances : StartCheck(r, i)
             \/ IncrementWindow(r) \/ ExpireWindow(r)
             \/ BackendFails(r) \/ CutOff(r)
      PROVE  IInv'
  BY <1>4, StartCheckInv, IncrementWindowInv, ExpireWindowInv, UnheardInv
<1> QED
  BY <1>1, <1>2, <1>3, <1>4 DEF Next

(* The inductive invariant holds in every reachable state. *)
THEOREM Invariance == Spec => []IInv
BY InitInv, NextInv, PTL DEF Spec

(* Type correctness. *)
THEOREM TypeCorrect == Spec => []TypeOK
<1>1. IInv => TypeOK
  BY DEF IInv
<1> QED
  BY <1>1, Invariance, PTL

(* The counter of a bucket lets no more than max_requests through, whatever
   instances share it and however far apart their clocks are, if the
   deployment rule holds. *)
THEOREM BucketsAreLimited == Spec => []BucketLimit
<1>1. IInv => BucketLimit
  <2> SUFFICES ASSUME IInv, NEW b \in Buckets
               PROVE  Cardinality(Counted(b)) <= MaxRequests
    BY DEF BucketLimit
  <2>1. Counted(b) \subseteq Admitted(b)
    BY DEF Counted, Admitted
  <2>2. /\ IsFiniteSet(Admitted(b)) /\ Cardinality(Admitted(b)) \in Nat
        /\ Cardinality(Admitted(b)) <= MaxRequests
    BY FiniteCounts DEF IInv, CountInv
  <2>3. /\ Cardinality(Counted(b)) \in Nat
        /\ Cardinality(Counted(b)) <= Cardinality(Admitted(b))
    BY <2>1, <2>2, FS_Subset, FS_CardinalityType
  <2> QED
    BY <2>2, <2>3, SettingsAssumption, Units
<1> QED
  BY <1>1, Invariance, PTL

(* Only a failure can leave a counter in Redis for ever. *)
THEOREM LeaksHaveACause == Spec => []LeakOnlyAfterFailure
<1>1. IInv => LeakOnlyAfterFailure
  BY DEF IInv
<1> QED
  BY <1>1, Invariance, PTL

(* Nobody is refused before max_requests others of the bucket came. *)
THEOREM RefusalsHaveACause == Spec => []RefusedOnlyWhenFull
<1>1. IInv => RefusedOnlyWhenFull
  BY DEF IInv
<1> QED
  BY <1>1, Invariance, PTL

(* Who asks the same instance again after Retry-After meets a new counter,
   and who asks a second earlier does not: the truncated clock costs less
   than a second. *)
THEOREM RetryIsExactToASecond == Spec => []RetryMeetsNextBucket
<1>1. IInv => RetryMeetsNextBucket
  <2> SUFFICES ASSUME IInv, NEW r \in Requests, NEW q \in Requests,
                      verdict[r] = "429", stamp[q] >= stamp[r]
               PROVE  /\ stamp[q] >= stamp[r] + retry[r] * TicksPerSecond
                            => bucket(q) # bucket(r)
                      /\ stamp[q] <= stamp[r] + (retry[r] - 1) * TicksPerSecond
                            => bucket(q) = bucket(r)
    BY DEF RetryMeetsNextBucket
  <2> DEFINE told == retry[r] * TicksPerSecond
             less == (retry[r] - 1) * TicksPerSecond
             end  == WindowStart(bucket(r)) + Window
  <2>1. stamp[r] \in Nat /\ stamp[q] \in Nat
    BY DEF IInv, TypeOK
  <2>2. retry[r] = RetryAfterSeconds(stamp[r])
    BY DEF IInv, RetryInv
  <2>3. stamp[r] + told >= end /\ stamp[r] + less < end
    BY <2>1, <2>2, RetryIsRest DEF bucket
  <2>4. told \in Int /\ less \in Int
    BY SettingsAssumption DEF IInv, TypeOK
  <2>5. /\ bucket(r) \in Nat /\ bucket(q) \in Nat
        /\ WindowStart(bucket(r)) \in Nat /\ WindowStart(bucket(q)) \in Nat
        /\ WindowStart(bucket(r)) <= stamp[r]
        /\ WindowStart(bucket(q)) <= stamp[q]
        /\ stamp[q] < WindowStart(bucket(q)) + Window
    BY <2>1, WindowBounds DEF bucket
  <2>6. /\ bucket(q) < bucket(r) =>
             WindowStart(bucket(q)) + Window <= WindowStart(bucket(r))
        /\ bucket(r) < bucket(q) =>
             WindowStart(bucket(r)) + Window <= WindowStart(bucket(q))
    BY <2>5, WindowsInOrder
  <2> HIDE DEF told, less
  <2>7. /\ stamp[q] >= stamp[r] + told => bucket(q) # bucket(r)
        /\ stamp[q] <= stamp[r] + less => bucket(q) = bucket(r)
    BY <2>1, <2>3, <2>4, <2>5, <2>6, Units
  <2> QED
    BY <2>7 DEF told, less
<1> QED
  BY <1>1, Invariance, PTL
=============================================================================
