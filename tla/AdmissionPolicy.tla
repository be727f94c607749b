--------------------------- MODULE AdmissionPolicy ---------------------------
(***************************************************************************)
(* What the in-memory rate limiter promises: a caller is admitted exactly  *)
(* when fewer than Limit of its requests were admitted during the last     *)
(* Window ticks, whatever housekeeping the limiter puts off, and a caller  *)
(* is forgotten only to make room for another one, the longest silent      *)
(* caller first.  SlidingWindow is the detailed specification.             *)
(***************************************************************************)
EXTENDS Integers, FiniteSets, Sequences

CONSTANTS Keys, Limit, Window, MaxKeys, MaxTime

VARIABLES now,
          recent,  \* admissions of each key not older than Window, in order
          asked,   \* when a key with recent admissions last asked
          verdict  \* the last answer each key got

vars == <<now, recent, asked, verdict>>

Never == -1

Active == {k \in Keys : recent[k] # <<>>}

Init ==
  /\ now = 0
  /\ recent = [k \in Keys |-> <<>>]
  /\ asked = [k \in Keys |-> Never]
  /\ verdict = [k \in Keys |-> "none"]

(* The part of an ascending queue of times that is later than t. *)
Later(queue, t) ==
  SubSeq(queue, 1 + Cardinality({i \in 1..Len(queue) : queue[i] <= t}),
         Len(queue))

(* Admissions older than the window stop counting as time passes. *)
Tick ==
  /\ now < MaxTime
  /\ now' = now + 1
  /\ recent' = [k \in Keys |-> Later(recent[k], now' - Window)]
  /\ asked' = [k \in Keys |-> IF recent'[k] = <<>> THEN Never ELSE asked[k]]
  /\ UNCHANGED verdict

(* Who may be forgotten when k asks: nobody while there is room. *)
Forgettable(k) ==
  IF recent[k] = <<>> /\ Cardinality(Active) >= MaxKeys
  THEN {{v} : v \in {w \in Active : \A x \in Active : asked[w] <= asked[x]}}
  ELSE {{}}

Ask(k) ==
  LET admit == Len(recent[k]) < Limit IN
  \E gone \in Forgettable(k) :
    /\ recent' = [x \in Keys |->
                    IF x \in gone THEN <<>>
                    ELSE IF x = k /\ admit THEN Append(recent[x], now)
                    ELSE recent[x]]
    /\ asked' = [x \in Keys |->
                   IF x \in gone THEN Never
                   ELSE IF x = k THEN now ELSE asked[x]]
    /\ verdict' = [verdict EXCEPT ![k] = IF admit THEN "admitted"
                                                  ELSE "refused"]
    /\ UNCHANGED now

Next == Tick \/ \E k \in Keys : Ask(k)

Spec == Init /\ [][Next]_vars
=============================================================================
