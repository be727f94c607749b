-------------------------- MODULE RedisFixedWindow --------------------------
(***************************************************************************)
(* RedisFixedWindowRateLimiter and RateLimitMiddleware of                  *)
(* core/middleware/rate_limit.py with the shared Redis backend: requests   *)
(* of one caller, handled by several instances of the service.             *)
(*                                                                         *)
(* One step per await: the clock is read when the check starts, INCR and   *)
(* EXPIRE are two separate commands, and either may fail or be cut off by  *)
(* the request timeout, before or after Redis carried it out.  Clocks read *)
(* fractions of a second, settings are whole seconds: the model counts in  *)
(* ticks, of which a second has TicksPerSecond.                            *)
(***************************************************************************)
EXTENDS Integers, FiniteSets

CONSTANTS Requests, Instances,
          TicksPerSecond, \* resolution of the clocks
          Skew,           \* ticks each instance's time.time() is ahead
          MaxRequests,    \* max_requests
          WindowSeconds,  \* window_seconds
          RequestTimeout, \* request_timeout_seconds
          FailOpen,       \* fail_open
          NoInstance,
          MaxTime         \* bound of the clock, in ticks

ASSUME SettingsAssumption ==
  /\ MaxRequests \in Nat \ {0}
  /\ TicksPerSecond \in Nat \ {0}
  /\ WindowSeconds \in Nat \ {0}
  /\ RequestTimeout \in Nat \ {0}
  /\ FailOpen \in BOOLEAN
ASSUME ClockAssumption ==
  /\ Skew \in [Instances -> Nat]
  /\ MaxTime \in Nat
  /\ NoInstance \notin Instances

(* The settings in ticks. *)
Window  == WindowSeconds * TicksPerSecond
Timeout == RequestTimeout * TicksPerSecond

(* A deployment rule, true of the defaults (30 s, 60 s) but not enforced by
   Settings: a check is over before its window's counter can have expired. *)
ASSUME TimingAssumption ==
  \A i, j \in Instances : Timeout + Skew[i] - Skew[j] <= Window

VARIABLES
  now,       \* the clock of the Redis server
  counters,  \* count of each bucket's key, 0 when the key does not exist
  deadline,  \* when the key expires, NoTTL without an expiry
  pc,        \* where each request is
  instance, started, stamp, \* where and when the check started; its `now`
  verdict, retry            \* what became of the request; Retry-After

vars == <<now, counters, deadline, pc, instance, started, stamp, verdict,
          retry>>
redis == <<counters, deadline>>
origin == <<instance, started, stamp>>

NoTTL == -1

(* int(now // window_seconds), the variable part of _window_key. *)
BucketAt(t) == t \div Window

Buckets ==
  {BucketAt(t + Skew[i]) : t \in 0..MaxTime, i \in Instances}

bucket(r) == BucketAt(stamp[r])

Verdicts == {"none", "allowed", "429", "uncounted", "503", "cut_off"}

TypeOK ==
  /\ now \in 0..MaxTime
  /\ counters \in [Buckets -> Nat]
  /\ deadline \in [Buckets -> Nat \cup {NoTTL}]
  /\ pc \in [Requests -> {"idle", "incr", "expire", "done"}]
  /\ instance \in [Requests -> Instances \cup {NoInstance}]
  /\ started \in [Requests -> Nat]
  /\ stamp \in [Requests -> Nat]
  /\ verdict \in [Requests -> Verdicts]
  /\ retry \in [Requests -> 0..WindowSeconds]

Init ==
  /\ now = 0
  /\ counters = [b \in Buckets |-> 0]
  /\ deadline = [b \in Buckets |-> NoTTL]
  /\ pc = [r \in Requests |-> "idle"]
  /\ instance = [r \in Requests |-> NoInstance]
  /\ started = [r \in Requests |-> 0]
  /\ stamp = [r \in Requests |-> 0]
  /\ verdict = [r \in Requests |-> "none"]
  /\ retry = [r \in Requests |-> 0]

-----------------------------------------------------------------------------

Checking(r) == pc[r] \in {"incr", "expire"}

(* Redis drops a key at its deadline; asyncio.wait_for lets no check run
   longer than the request timeout. *)
Tick ==
  LET gone(b) == deadline[b] # NoTTL /\ deadline[b] <= now + 1 IN
  /\ now < MaxTime
  /\ \A r \in Requests : Checking(r) => now < started[r] + Timeout
  /\ now' = now + 1
  /\ counters' = [b \in Buckets |-> IF gone(b) THEN 0 ELSE counters[b]]
  /\ deadline' = [b \in Buckets |-> IF gone(b) THEN NoTTL ELSE deadline[b]]
  /\ UNCHANGED <<pc, origin, verdict, retry>>

(* A request reaches the middleware: now = time.time(). *)
StartCheck(r, i) ==
  /\ pc[r] = "idle"
  /\ pc' = [pc EXCEPT ![r] = "incr"]
  /\ instance' = [instance EXCEPT ![r] = i]
  /\ started' = [started EXCEPT ![r] = now]
  /\ stamp' = [stamp EXCEPT ![r] = now + Skew[i]]
  /\ UNCHANGED <<now, redis, verdict, retry>>

(* The commands, as Redis carries them out. *)
INCR(b) == counters' = [counters EXCEPT ![b] = @ + 1]

EXPIRE(b, seconds) ==
  deadline' =
    [deadline EXCEPT ![b] =
       IF counters[b] > 0 THEN now + seconds * TicksPerSecond ELSE @]

(* int(now) *)
Seconds(t) == t \div TicksPerSecond

(* Mutants: the time within the window forgotten; one second short. *)
RetryAfterEpoch(t) == WindowSeconds - Seconds(t)
RetryAfterShort(t) == WindowSeconds - 1 - (Seconds(t) % WindowSeconds)

(* _retry_after_seconds; the remainder is never 0 of window_seconds. *)
RetryAfterSeconds(t) == WindowSeconds - (Seconds(t) % WindowSeconds)

Decide(r, answer) ==
  /\ pc' = [pc EXCEPT ![r] = "done"]
  /\ verdict' = [verdict EXCEPT ![r] = answer]
  /\ retry' = [retry EXCEPT ![r] =
                 IF answer = "429" THEN RetryAfterSeconds(stamp[r]) ELSE 0]

(* Mutant: count >= self.max_requests. *)
AtLimit(count) == count >= MaxRequests

TooMany(count) == count > MaxRequests

(* Mutant: the value before INCR. *)
WasZero(count) == count = 0

IsFirst(count) == count = 1

(* Mutant: the counter lives as long as its window. *)
OneWindow == WindowSeconds

(* The second window lets slow requests of the bucket find the counter. *)
TTL == WindowSeconds * 2

(* count = await incr(window_key); only the first one goes on to EXPIRE. *)
IncrementWindow(r) ==
  LET count == counters[bucket(r)] + 1 IN
  /\ pc[r] = "incr"
  /\ INCR(bucket(r))
  /\ IF IsFirst(count)
     THEN pc' = [pc EXCEPT ![r] = "expire"] /\ UNCHANGED <<verdict, retry>>
     ELSE Decide(r, IF TooMany(count) THEN "429" ELSE "allowed")
  /\ UNCHANGED <<now, deadline, origin>>

(* await expire(window_key, window_seconds * 2) *)
ExpireWindow(r) ==
  /\ pc[r] = "expire"
  /\ EXPIRE(bucket(r), TTL)
  /\ Decide(r, IF TooMany(1) THEN "429" ELSE "allowed")
  /\ UNCHANGED <<now, counters, origin>>

(* The command in flight was carried out although nobody hears of it. *)
Unheard(r) ==
  \/ UNCHANGED redis
  \/ pc[r] = "incr" /\ INCR(bucket(r)) /\ UNCHANGED deadline
  \/ pc[r] = "expire" /\ EXPIRE(bucket(r), TTL)
                      /\ UNCHANGED counters

(* except Exception: the request goes on uncounted, or is answered 503. *)
BackendFails(r) ==
  /\ Checking(r)
  /\ Unheard(r)
  /\ Decide(r, IF FailOpen THEN "uncounted" ELSE "503")
  /\ UNCHANGED <<now, origin>>

(* The request timeout cancels the check, or the worker dies; a
   CancelledError is no Exception, so the request does not fail open. *)
CutOff(r) ==
  /\ Checking(r)
  /\ Unheard(r)
  /\ Decide(r, "cut_off")
  /\ UNCHANGED <<now, origin>>

Finished ==
  /\ \A r \in Requests : pc[r] = "done"
  /\ now = MaxTime
  /\ UNCHANGED vars

Next ==
  \/ Tick
  \/ \E r \in Requests :
       \/ \E i \in Instances : StartCheck(r, i)
       \/ IncrementWindow(r)
       \/ ExpireWindow(r)
       \/ BackendFails(r)
       \/ CutOff(r)
  \/ Finished

Spec == Init /\ [][Next]_vars

-----------------------------------------------------------------------------

Counted(b) == {r \in Requests : verdict[r] = "allowed" /\ bucket(r) = b}

(* At most max_requests requests of a bucket are let through by the counter,
   whatever the instances, their clocks and the time between reading the
   clock and INCR: no counter expires while a request of its bucket may
   still come. *)
BucketLimit == \A b \in Buckets : Cardinality(Counted(b)) <= MaxRequests

(* A counter is without an expiry only while the request that created it is
   about to set one, or after a request of the bucket failed: nothing else
   leaves keys in Redis for ever. *)
LeakOnlyAfterFailure ==
  \A b \in Buckets :
    counters[b] > 0 /\ deadline[b] = NoTTL =>
      \E r \in Requests :
        /\ pc[r] # "idle" /\ bucket(r) = b
        /\ pc[r] = "expire" \/ verdict[r] \in {"uncounted", "503", "cut_off"}

(* A request is refused only when max_requests others of its bucket came
   before it, even if failures left some of them uncounted or unanswered. *)
RefusedOnlyWhenFull ==
  \A r \in Requests :
    verdict[r] = "429" =>
      Cardinality({q \in Requests \ {r} :
                     pc[q] # "idle" /\ bucket(q) = bucket(r)}) >= MaxRequests

(* Asking the same instance again once Retry-After is over meets a new
   counter; asking a second earlier, or more, meets the exhausted one.  The
   clock is truncated to whole seconds, so what is told may exceed what is
   left of the window, but by less than a second. *)
RetryMeetsNextBucket ==
  \A r, q \in Requests :
    /\ verdict[r] = "429"
    /\ pc[q] # "idle"
    /\ instance[q] = instance[r]
    /\ stamp[q] >= stamp[r]
    => /\ stamp[q] >= stamp[r] + retry[r] * TicksPerSecond
            => bucket(q) # bucket(r)
       /\ stamp[q] <= stamp[r] + (retry[r] - 1) * TicksPerSecond
            => bucket(q) = bucket(r)
=============================================================================
