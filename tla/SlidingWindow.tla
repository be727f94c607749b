---------------------------- MODULE SlidingWindow ----------------------------
(***************************************************************************)
(* SlidingWindowRateLimiter of core/middleware/rate_limit.py: the          *)
(* in-memory backend, one per worker process.                              *)
(*                                                                         *)
(* check() is one step: its body holds an asyncio lock, contains no await, *)
(* and the lock is never contended on a single event loop.  The monotonic  *)
(* clock is counted in ticks, TicksPerSecond of them to a second, so that  *)
(* the truncation of retry_after to whole seconds is visible.              *)
(***************************************************************************)
EXTENDS Integers, FiniteSets, Sequences

CONSTANTS Keys,
          MaxRequests,     \* max_requests
          WindowSeconds,   \* window_seconds
          MaxKeys,         \* max_keys
          TicksPerSecond,
          MaxTime          \* bound of the clock

ASSUME SettingsAssumption ==
  /\ MaxRequests \in Nat \ {0}
  /\ WindowSeconds \in Nat \ {0}
  /\ MaxKeys \in Nat \ {0}
ASSUME ClockAssumption == TicksPerSecond \in Nat \ {0} /\ MaxTime \in Nat

VARIABLES
  now,        \* time.monotonic()
  events,     \* self._events: the queue of each tracked key
  last_seen,  \* self._last_seen
  answers,    \* the last RateLimitDecision each key got
  granted     \* history: every admission of a key since it was evicted

vars == <<now, events, last_seen, answers, granted>>

Window == WindowSeconds * TicksPerSecond

Answer == [verdict: {"none", "admitted", "refused"}, at: Nat, retry: Nat]

TypeOK ==
  /\ now \in Nat
  /\ DOMAIN events \subseteq Keys
  /\ \A k \in DOMAIN events : events[k] \in Seq(Nat)
  /\ \A k \in DOMAIN last_seen : last_seen[k] \in Nat
  /\ answers \in [Keys -> Answer]
  /\ granted \in [Keys -> Seq(Nat)]

Init ==
  /\ now = 0
  /\ events = [k \in {} |-> <<>>]
  /\ last_seen = [k \in {} |-> 0]
  /\ answers = [k \in Keys |-> [verdict |-> "none", at |-> 0, retry |-> 0]]
  /\ granted = [k \in Keys |-> <<>>]

Tick ==
  /\ now < MaxTime
  /\ now' = now + 1
  /\ UNCHANGED <<events, last_seen, answers, granted>>

-----------------------------------------------------------------------------

(* Mutant: queue[0] < cutoff. *)
PopLeftLate(queue, cutoff) ==
  SelectSeq(queue, LAMBDA at : at >= cutoff)

(* while queue and queue[0] <= cutoff: queue.popleft() *)
PopLeft(queue, cutoff) ==
  LET first == CHOOSE i \in 1..Len(queue) + 1 :
                 /\ \A j \in 1..i - 1 : queue[j] <= cutoff
                 /\ i <= Len(queue) => queue[i] > cutoff
  IN  SubSeq(queue, first, Len(queue))

(* Mutant: queue[0] for queue[-1]. *)
UnprunedByOldest(cutoff) ==
  {k \in DOMAIN events : events[k] # <<>> /\ events[k][1] > cutoff}

(* _prune_stale_keys: the keys it leaves. *)
Unpruned(cutoff) ==
  {k \in DOMAIN events :
     events[k] # <<>> /\ events[k][Len(events[k])] > cutoff}

(* _evict_oldest_key: the sets of keys it may pop; of several keys seen last
   at the same time, any one. *)
OldestKey(kept) ==
  {{v} : v \in {w \in kept : \A x \in kept : last_seen[w] <= last_seen[x]}}

(* Mutant: len(self._events) > self.max_keys. *)
EvictionsLate(k, kept) ==
  IF k \notin kept /\ Cardinality(kept) > MaxKeys THEN OldestKey(kept)
                                                  ELSE {{}}

(* The keys that make room for k. *)
Evictions(k, kept) ==
  IF k \notin kept /\ Cardinality(kept) >= MaxKeys THEN OldestKey(kept)
                                                   ELSE {{}}

(* Mutant: window_seconds not added, and no max(1, ...). *)
RetryAfterUnclamped(queue, current) ==
  (queue[1] - current) \div TicksPerSecond

(* Mutant: queue[-1] for queue[0]. *)
RetryAfterNewest(queue, current) ==
  LET seconds == (queue[Len(queue)] + Window - current) \div TicksPerSecond
  IN  IF seconds > 1 THEN seconds ELSE 1

(* max(1, int((queue[0] + window_seconds) - current)) *)
RetryAfter(queue, current) ==
  LET seconds == (queue[1] + Window - current) \div TicksPerSecond
  IN  IF seconds > 1 THEN seconds ELSE 1

(* check(): what it leaves of the tracked keys, and what it answers. *)
Check(k) ==
  LET cutoff == now - Window
      kept   == Unpruned(cutoff)
      queue  == IF k \in kept THEN PopLeft(events[k], cutoff) ELSE <<>>
      allow  == Len(queue) < MaxRequests
  IN
  \E gone \in Evictions(k, kept) :
    LET tracked == (kept \ gone) \cup {k} IN
    /\ events' = [x \in tracked |->
                    IF x # k THEN events[x]
                    ELSE IF allow THEN Append(queue, now) ELSE queue]
    /\ last_seen' = [x \in tracked |-> IF x = k THEN now ELSE last_seen[x]]
    /\ answers' =
         [answers EXCEPT ![k] =
            IF allow
            THEN [verdict |-> "admitted", at |-> now, retry |-> 0]
            ELSE [verdict |-> "refused", at |-> now,
                  retry |-> RetryAfter(queue, now)]]
    /\ granted' = [x \in Keys |->
                     IF x \in gone THEN <<>>
                     ELSE IF x = k /\ allow THEN Append(granted[x], now)
                     ELSE granted[x]]
    /\ UNCHANGED now

Next == Tick \/ \E k \in Keys : Check(k)

Spec == Init /\ [][Next]_vars

-----------------------------------------------------------------------------
(* What the limiter promises. *)

(* The part of an ascending queue of times that is later than t. *)
Later(queue, t) ==
  SubSeq(queue, 1 + Cardinality({i \in 1..Len(queue) : queue[i] <= t}),
         Len(queue))

(* The admissions of k that still count now. *)
Recent(k) ==
  IF k \in DOMAIN events THEN Later(events[k], now - Window) ELSE <<>>

WouldAdmit(k) == Len(Recent(k)) < MaxRequests

(* No window of window_seconds, wherever it starts, contains more than
   max_requests admissions of a key that was not evicted in between: any
   max_requests + 1 of its consecutive admissions span the whole window.
   Expired entries are dropped late, by whichever call comes next. *)
WindowBound ==
  \A k \in Keys : \A i \in 1..Len(granted[k]) - MaxRequests :
    granted[k][i + MaxRequests] - granted[k][i] >= Window

(* The two dicts track the same keys, and no more than max_keys of them,
   whichever keys are pruned, evicted and come back. *)
TrackedKeysBounded ==
  /\ Cardinality(DOMAIN events) <= MaxKeys
  /\ DOMAIN last_seen = DOMAIN events

(* Retry-After is a whole number of seconds cut off below: a refused caller
   that waits one second more than it was told is admitted, and one that was
   told more than a second gains nothing by asking before the time it was
   told, unless it was evicted meanwhile. *)
RetryAfterHonest ==
  \A k \in Keys :
    LET a == answers[k] IN
    a.verdict = "refused" =>
      /\ now >= a.at + (a.retry + 1) * TicksPerSecond => WouldAdmit(k)
      /\ /\ a.retry > 1
         /\ now < a.at + a.retry * TicksPerSecond
         /\ Len(granted[k]) >= MaxRequests
         => ~WouldAdmit(k)

(* The exact policy, seen through the queues the limiter keeps. *)
Policy == INSTANCE AdmissionPolicy WITH
  Limit   <- MaxRequests,
  recent  <- [k \in Keys |-> Recent(k)],
  asked   <- [k \in Keys |-> IF Recent(k) # <<>> THEN last_seen[k] ELSE -1],
  verdict <- [k \in Keys |-> answers[k].verdict]

(* Pruning, popping and evicting lazily, on somebody's next call, answers
   every call as the policy that forgets each admission on time. *)
ImplementsPolicy == Policy!Spec
=============================================================================
