-------------------------- MODULE ReadinessProofs --------------------------
(***************************************************************************)
(* Proofs about Readiness: whatever the number of probes, of other         *)
(* requests, of connections and of outages, and with either rate limit     *)
(* backend, what an answer of /ready says of a service was true at some    *)
(* moment of the probe, if it does not tell of a pool that others had.     *)
(***************************************************************************)
EXTENDS Readiness, FiniteSetTheorems, TLAPS

(* What run_readiness_checks goes through, and with how many checks. *)
LEMMA ChecksAre ==
  /\ Len(Checks) = IF RedisBackend THEN 3 ELSE 2
  /\ Checks[1] = "startup"
  /\ Checks[2] = "database"
  /\ RedisBackend => Checks[3] = "rate_limit_backend"
BY DEF Checks

(* A check is of the startup or of a service. *)
LEMMA CheckKinds ==
  ASSUME NEW i \in 1..Len(Checks)
  PROVE  /\ Checks[i] \in {Checks[j] : j \in 1..Len(Checks)}
         /\ Checks[i] \in Services \cup {"startup"}
         /\ Checks[i] = "startup" <=> i = 1
<1>1. i = 1 \/ i = 2 \/ (RedisBackend /\ i = 3)
  BY ChecksAre, ConstantsAssumption
<1> QED
  BY <1>1, ChecksAre DEF Services

(* A pool that has room has it when connections are given back. *)
LEMMA RoomStays ==
  ASSUME NEW T, IsFiniteSet(T), NEW S \in SUBSET T
  PROVE  IsFiniteSet(S) /\ (Room(T) => Room(S))
<1>1. /\ IsFiniteSet(S)
      /\ Cardinality(S) \in Nat /\ Cardinality(T) \in Nat
      /\ Cardinality(S) <= Cardinality(T)
  BY FS_Subset, FS_CardinalityType
<1> QED
  BY <1>1, ConstantsAssumption DEF Room

-----------------------------------------------------------------------------
(* The inductive invariant. *)

(* A probe has its checks only while the startup is complete: the shutdown
   waits for it. *)
RunningInv ==
  \A p \in Running : phase \in {"serving", "draining"}

PhaseInv ==
  phase \in {"serving", "draining"} => startup_complete

(* What a probe under way has seen includes what is there to be seen. *)
WatchInv ==
  \A p \in Running :
    /\ In("up") \subseteq up[p] /\ In("down") \subseteq down[p]
    /\ Crowded(p) => p \in crowded

(* A probe that has not begun has found nothing. *)
FreshInv == \A p \in Probes : step[p] = 0 => failed[p] = {}

(* What may be named of a probe. *)
Excused(p) == down[p] \cup IF p \in crowded THEN {"database"} ELSE {}

(* What the checks that ended have found was so at some moment. *)
FoundInv ==
  \A p \in Probes :
    /\ Named(p) \subseteq Excused(p)
    /\ "startup" \notin failed[p]
    /\ \A i \in 1..Len(Checks) :
         i < step[p] /\ Checks[i] \in Services \ failed[p] => Checks[i] \in up[p]

IInv ==
  /\ TypeOK
  /\ IsFiniteSet(holders)
  /\ RunningInv
  /\ PhaseInv
  /\ WatchInv
  /\ FreshInv
  /\ FoundInv

-----------------------------------------------------------------------------
(* One lemma per action. *)

LEMMA StartInv == Init => IInv
<1> SUFFICES ASSUME Init PROVE IInv
  OBVIOUS
<1>0. Len(Checks) \in Nat
  BY ChecksAre
<1>1. \A p \in Probes : step[p] = 0 /\ failed[p] = {}
  BY DEF Init
<1>2. Running = {}
  BY <1>0, <1>1 DEF Running
<1>3. TypeOK
  <2>1. service \in [Services -> {"up", "down", "hung"}]
    BY DEF Init
  <2>2. /\ step \in [Probes -> 0..Len(Checks) + 1]
        /\ failed \in [Probes -> SUBSET {Checks[i] : i \in 1..Len(Checks)}]
    BY <1>0 DEF Init
  <2>3. up \in [Probes -> SUBSET Services] /\ down \in [Probes -> SUBSET Services]
    BY DEF Init
  <2>4. /\ phase = "starting" /\ startup_complete = FALSE /\ engine = TRUE
        /\ outages \in 0..MaxOutages
        /\ requests = {} /\ holders = {} /\ crowded = {}
    BY ConstantsAssumption DEF Init
  <2> QED
    BY <2>1, <2>2, <2>3, <2>4 DEF TypeOK
<1>4. FoundInv
  <2> SUFFICES ASSUME NEW p \in Probes
               PROVE  /\ Named(p) \subseteq Excused(p)
                      /\ "startup" \notin failed[p]
                      /\ \A i \in 1..Len(Checks) : ~(i < step[p])
    BY DEF FoundInv
  <2> QED
    BY <1>0, <1>1 DEF Named
<1> QED
  BY <1>1, <1>2, <1>3, <1>4, FS_EmptySet
     DEF Init, IInv, RunningInv, PhaseInv, WatchInv, FreshInv

(* A service that changes is seen by every probe under way. *)
LEMMA ServiceInv ==
  ASSUME IInv, NEW s \in Services, Outage(s) \/ Resolve(s)
  PROVE  IInv'
<1> USE DEF IInv
<1>1. /\ UNCHANGED <<phase, startup_complete, engine, requests, holders, step,
                     failed, crowded>>
      /\ service' \in [Services -> {"up", "down", "hung"}]
      /\ outages' \in 0..MaxOutages
  <2>1. service \in [Services -> {"up", "down", "hung"}] /\ outages \in 0..MaxOutages
    BY DEF TypeOK
  <2>2. CASE Outage(s)
    BY <2>1, <2>2, ConstantsAssumption DEF Outage, process, pool, probes, Witnessed
  <2>3. CASE Resolve(s)
    BY <2>1, <2>3 DEF Resolve, process, pool, probes,
                     Witnessed
  <2> QED
    BY <2>2, <2>3
<1>2. /\ up' = [p \in Probes |->
                  up[p] \cup IF p \in Running THEN In("up")' ELSE {}]
      /\ down' = [p \in Probes |->
                    down[p] \cup IF p \in Running THEN In("down")' ELSE {}]
  BY DEF Outage, Resolve, Witnessed
<1>3. Running' = Running
  BY <1>1 DEF Running
<1>4. In("up")' \subseteq Services /\ In("down")' \subseteq Services
  BY DEF In
<1>5. up' \in [Probes -> SUBSET Services] /\ down' \in [Probes -> SUBSET Services]
  BY <1>2, <1>4 DEF TypeOK
<1>6. TypeOK'
  BY <1>1, <1>5 DEF TypeOK
<1>7. WatchInv'
  BY <1>1, <1>2, <1>3 DEF WatchInv, Running, Crowded
<1>8. FoundInv'
  <2>1. \A p \in Probes : up[p] \subseteq up'[p] /\ down[p] \subseteq down'[p]
    BY <1>2
  <2> QED
    BY <1>1, <2>1 DEF FoundInv, Named, Excused
<1> QED
  BY <1>1, <1>3, <1>6, <1>7, <1>8 DEF RunningInv, PhaseInv, FreshInv

LEMMA ProbeInv ==
  ASSUME IInv, NEW p \in Probes, Probe(p)
  PROVE  IInv'
<1> USE DEF IInv, Probe
<1>1. /\ \A q \in Probes : step'[q] = IF q = p THEN 1 ELSE step[q]
      /\ \A q \in Probes : up'[q] = IF q = p THEN In("up") ELSE up[q]
      /\ \A q \in Probes : down'[q] = IF q = p THEN In("down") ELSE down[q]
      /\ crowded \subseteq crowded'
      /\ Crowded(p) => p \in crowded'
      /\ UNCHANGED <<phase, startup_complete, engine, service, outages, requests,
                     holders, failed>>
  BY DEF TypeOK, process, services, pool
<1>2. TypeOK'
  BY ChecksAre DEF TypeOK, process, services, pool, In
<1>3. \A q \in Running' : q = p \/ q \in Running
  BY <1>1 DEF Running
<1>4. /\ In("up")' = In("up") /\ In("down")' = In("down")
      /\ \A q : Crowded(q)' = Crowded(q)
  BY <1>1 DEF In, Crowded
<1>5. RunningInv' /\ PhaseInv'
  BY <1>1, <1>3 DEF RunningInv, PhaseInv
<1>6. WatchInv'
  BY <1>1, <1>3, <1>4 DEF WatchInv, Running
<1>7. FreshInv'
  BY <1>1 DEF FreshInv
<1>8. FoundInv'
  <2>1. failed[p] = {}
    BY DEF FreshInv
  <2> SUFFICES ASSUME NEW q \in Probes
               PROVE  /\ Named(q)' \subseteq Excused(q)'
                      /\ "startup" \notin failed'[q]
                      /\ \A i \in 1..Len(Checks) :
                           /\ i < step'[q]
                           /\ Checks[i] \in Services \ failed'[q]
                           => Checks[i] \in up'[q]
    BY DEF FoundInv
  <2>2. CASE q = p
    BY <1>1, <2>1, <2>2 DEF Named
  <2>3. CASE q # p
    BY <1>1, <2>3 DEF FoundInv, Named, Excused
  <2> QED
    BY <2>2, <2>3
<1> QED
  BY <1>1, <1>2, <1>5, <1>6, <1>7, <1>8

(* A probe under way sees who takes the last connection. *)
PoolChange ==
  /\ requests' \subseteq Others
  /\ holders' \subseteq Probes \cup Others
  /\ \/ holders' \subseteq holders /\ UNCHANGED crowded
     \/ /\ \E h \in Probes \cup Others : holders' = holders \cup {h}
        /\ crowded' = crowded \cup {p \in Running : Crowded(p)'}

LEMMA PoolInv ==
  ASSUME IInv, PoolChange, engine' \in BOOLEAN,
         UNCHANGED <<phase, startup_complete, service, outages, step, failed, up,
                     down>>
  PROVE  IInv'
<1> USE DEF IInv
<1>1. Running' = Running /\ Running \subseteq Probes
  BY DEF Running
<1>2. /\ IsFiniteSet(holders)'
      /\ crowded' \subseteq Probes /\ crowded \subseteq crowded'
      /\ \A p \in Running : Crowded(p)' => Crowded(p) \/ p \in crowded'
  <2>1. CASE holders' \subseteq holders /\ UNCHANGED crowded
    <3>1. IsFiniteSet(holders)'
      BY <2>1, RoomStays
    <3>2. ASSUME NEW p, Crowded(p)'
          PROVE  Crowded(p)
      <4>1. IsFiniteSet(holders \ {p}) /\ holders' \ {p} \subseteq holders \ {p}
        BY <2>1, RoomStays
      <4>2. ~Room(holders' \ {p})
        BY <3>2 DEF Crowded, Room
      <4> QED
        BY <4>1, <4>2, RoomStays DEF Crowded
    <3> QED
      BY <2>1, <3>1, <3>2 DEF TypeOK
  <2>2. CASE /\ \E h \in Probes \cup Others : holders' = holders \cup {h}
             /\ crowded' = crowded \cup {p \in Running : Crowded(p)'}
    <3>1. IsFiniteSet(holders)'
      BY <2>2, FS_AddElement
    <3>2. /\ crowded' \subseteq Probes /\ crowded \subseteq crowded'
          /\ \A p \in Running : Crowded(p)' => p \in crowded'
      BY <1>1, <2>2 DEF TypeOK
    <3> QED
      BY <3>1, <3>2
  <2> QED
    BY <2>1, <2>2 DEF PoolChange
<1>3. TypeOK'
  BY <1>2 DEF TypeOK, PoolChange
<1>4. WatchInv'
  BY <1>1, <1>2 DEF WatchInv, In
<1>5. FoundInv'
  BY <1>2 DEF FoundInv, Named, Excused
<1> QED
  BY <1>1, <1>2, <1>3, <1>4, <1>5 DEF RunningInv, PhaseInv, FreshInv

(* What the other requests do with the pool. *)
LEMMA OthersInv ==
  ASSUME IInv, NEW q \in Others, Arrive(q) \/ Query(q) \/ GiveBack(q) \/ Finish(q)
  PROVE  IInv'
<1> USE DEF IInv
<1>1. /\ UNCHANGED <<phase, startup_complete, engine, service, outages, step,
                     failed, up, down>>
      /\ engine \in BOOLEAN
      /\ requests' \subseteq requests \cup {q}
  BY DEF Arrive, Query, GiveBack, Finish, TakeConnection, process, services,
         probes, history, TypeOK
<1>2. \/ holders' \subseteq holders /\ UNCHANGED crowded
      \/ /\ holders' = holders \cup {q}
         /\ crowded' = crowded \cup {p \in Running : Crowded(p)'}
  <2>1. CASE Query(q)
    BY <2>1 DEF Query, TakeConnection
  <2>2. CASE Arrive(q) \/ GiveBack(q) \/ Finish(q)
    BY <2>2 DEF Arrive, GiveBack, Finish, history
  <2> QED
    BY <2>1, <2>2
<1>3. PoolChange
  BY <1>1, <1>2 DEF PoolChange, TypeOK
<1> QED
  BY <1>1, <1>3, PoolInv

(* A probe that takes a connection, like any other request. *)
LEMMA ConnectInv ==
  ASSUME IInv, NEW p \in Probes, Connect(p)
  PROVE  IInv'
<1> USE DEF IInv
<1>1. /\ UNCHANGED <<phase, startup_complete, service, outages, requests, step,
                     failed, up, down>>
      /\ engine' = TRUE /\ PoolChange
  BY DEF Connect, TakeConnection, services, probes, PoolChange, TypeOK
<1> QED
  BY <1>1, PoolInv

(* The check that passes found its service up, the one that fails found it
   down or, for want of a connection, others with the whole pool; and the
   probe was there to see it. *)
LEMMA CheckInv ==
  ASSUME IInv, NEW p \in Probes, PoolTimeout(p) \/ CheckEnds(p)
  PROVE  IInv'
<1> USE DEF IInv
<1> DEFINE n     == step[p]
           check == Checks[n]
<1>1. /\ n \in 1..Len(Checks) /\ p \in Running
      /\ UNCHANGED <<phase, startup_complete, service, outages, requests, up,
                     down, crowded>>
      /\ engine' \in BOOLEAN
      /\ holders' \subseteq holders /\ IsFiniteSet(holders)'
      /\ \/ Passes(check) /\ failed' = failed
         \/ /\ Fails(check) \/ (check = "database" /\ Crowded(p))
            /\ failed' = [failed EXCEPT ![p] = @ \cup {check}]
      /\ step' = [step EXCEPT ![p] = n + 1]
  <2>1. CASE PoolTimeout(p)
    <3>1. holders \ {p} = holders
      BY <2>1 DEF PoolTimeout
    <3> QED
      BY <2>1, <3>1 DEF PoolTimeout, Awaits, Fail, Running, Crowded, AfterFailure,
                        services, pool, history
  <2>2. CASE CheckEnds(p)
    BY <2>2, RoomStays DEF CheckEnds, Awaits, Fail, Running, AfterFailure, process,
                services, history, TypeOK
  <2> QED
    BY <2>1, <2>2
<1>2. /\ check \in {Checks[j] : j \in 1..Len(Checks)}
      /\ check \in Services \cup {"startup"}
      /\ "startup" \notin Services /\ "database" \in Services
  BY <1>1, CheckKinds DEF Services
<1>3. startup_complete
  BY <1>1 DEF RunningInv, PhaseInv
<1>4. Fails(check) => check \in Services /\ check \in In("down")
  BY <1>2, <1>3 DEF Fails, In
<1>5. Passes(check) /\ check \in Services => check \in In("up")
  BY <1>2 DEF Passes, In
<1>6. /\ In("up") \subseteq up[p] /\ In("down") \subseteq down[p]
      /\ Crowded(p) => p \in crowded
  BY <1>1 DEF WatchInv
<1>7. /\ \A q \in Probes : step'[q] = IF q = p THEN n + 1 ELSE step[q]
      /\ \A q \in Probes : q # p => failed'[q] = failed[q]
      /\ \/ Passes(check) /\ failed'[p] = failed[p]
         \/ /\ check \in Services \cap Excused(p)
            /\ failed'[p] = failed[p] \cup {check}
  BY <1>1, <1>2, <1>4, <1>6 DEF TypeOK, Excused
<1>8. TypeOK'
  <2>1. Len(Checks) \in Nat /\ crowded' \subseteq Probes
    BY <1>1, ChecksAre DEF TypeOK
  <2>2. step' \in [Probes -> 0..Len(Checks) + 1]
    BY <1>1, <2>1 DEF TypeOK
  <2>3. failed' \in [Probes -> SUBSET {Checks[i] : i \in 1..Len(Checks)}]
    <3>1. failed \in [Probes -> SUBSET {Checks[i] : i \in 1..Len(Checks)}]
      BY DEF TypeOK
    <3>2. failed[p] \cup {check} \subseteq {Checks[i] : i \in 1..Len(Checks)}
      BY <1>2, <3>1
    <3> HIDE DEF check
    <3> QED
      BY <1>1, <3>1, <3>2
  <2> QED
    BY <1>1, <2>1, <2>2, <2>3 DEF TypeOK
<1>9. Running' \subseteq Running
  BY <1>1, <1>7 DEF Running
<1>10. In("up")' = In("up") /\ In("down")' = In("down")
  BY <1>1 DEF In
<1>11. RunningInv' /\ PhaseInv'
  BY <1>1, <1>9 DEF RunningInv, PhaseInv
<1>12. WatchInv'
  <2> SUFFICES ASSUME NEW q \in Running, Crowded(q)'
               PROVE  q \in crowded
    BY <1>1, <1>6, <1>9, <1>10 DEF WatchInv
  <2>1. IsFiniteSet(holders \ {q}) /\ holders' \ {q} \subseteq holders \ {q}
    BY <1>1, RoomStays
  <2>2. ~Room(holders' \ {q})
    BY DEF Crowded, Room
  <2> QED
    BY <2>1, <2>2, RoomStays DEF WatchInv, Crowded
<1>13. FreshInv'
  BY <1>1, <1>7 DEF FreshInv, TypeOK
<1>14. FoundInv'
  <2> SUFFICES ASSUME NEW q \in Probes
               PROVE  /\ Named(q)' \subseteq Excused(q)
                      /\ "startup" \notin failed'[q]
                      /\ \A i \in 1..Len(Checks) :
                           /\ i < step'[q]
                           /\ Checks[i] \in Services \ failed'[q]
                           => Checks[i] \in up[q]
    BY <1>1 DEF FoundInv, Excused
  <2>1. CASE q # p
    BY <1>7, <2>1 DEF FoundInv, Named
  <2>2. CASE q = p
    <3>1. Named(p)' \subseteq Excused(p) /\ "startup" \notin failed'[p]
      BY <1>2, <1>7 DEF FoundInv, Named
    <3>2. ASSUME NEW i \in 1..Len(Checks), i < n + 1,
                 Checks[i] \in Services \ failed'[p]
          PROVE  Checks[i] \in up[p]
      <4>1. CASE i < n
        BY <1>7, <3>2, <4>1 DEF FoundInv
      <4>2. CASE i = n
        BY <1>5, <1>6, <1>7, <3>2, <4>2
      <4> QED
        BY <1>1, <3>2, <4>1, <4>2, ChecksAre
    <3> QED
      BY <1>7, <2>2, <3>1, <3>2
  <2> QED
    BY <2>1, <2>2
<1> QED
  BY <1>1, <1>8, <1>11, <1>12, <1>13, <1>14

(* The lifespan: only a kill cuts probes off, and it leaves none running. *)
LEMMA LifespanInv ==
  ASSUME IInv,
         \/ CompleteStartup \/ Terminate \/ LeaveLifespan
         \/ CloseLimiter \/ Dispose
  PROVE  IInv'
<1> USE DEF IInv, CompleteStartup, Terminate, LeaveLifespan, CloseLimiter,
            Dispose, services, pool, probes, history
<1>1. /\ UNCHANGED <<service, outages, requests, holders, step, failed, up, down,
                     crowded>>
      /\ Running' = Running
  BY DEF Running
<1>2. TypeOK'
  <2>1. /\ phase' \in {"serving", "draining", "closing", "disposing", "exited",
                       "close_raised"}
        /\ startup_complete' \in BOOLEAN /\ engine' \in BOOLEAN
        /\ startup_complete' => phase' \in {"serving", "draining"}
    <3> USE DEF TypeOK
    <3>1. CASE CompleteStartup
      BY <3>1
    <3>2. CASE Terminate
      BY <3>2
    <3>3. CASE LeaveLifespan
      BY <3>3
    <3>4. CASE CloseLimiter
      BY <3>4
    <3>5. CASE Dispose
      BY <3>5
    <3> QED
      BY <3>1, <3>2, <3>3, <3>4, <3>5
  <2> QED
    BY <1>1, <2>1 DEF TypeOK
<1>3. RunningInv'
  BY <1>1 DEF RunningInv
<1>4. PhaseInv'
  BY DEF PhaseInv, TypeOK
<1>5. WatchInv' /\ FreshInv' /\ FoundInv'
  BY <1>1 DEF WatchInv, FreshInv, FoundInv, In, Named, Excused, Crowded
<1> QED
  BY <1>2, <1>3, <1>4, <1>5

LEMMA KillInv ==
  ASSUME IInv, Kill
  PROVE  IInv'
<1> USE DEF IInv, Kill, services, history
<1>1. /\ \A q \in Probes : step'[q] = IF q \in Running THEN 0 ELSE step[q]
      /\ \A q \in Probes : failed'[q] = IF q \in Running THEN {} ELSE failed[q]
  OBVIOUS
<1>2. Running' = {}
  BY <1>1, ChecksAre DEF Running, TypeOK
<1>3. TypeOK'
  BY <1>1, ChecksAre DEF TypeOK
<1>4. FreshInv'
  BY <1>1 DEF FreshInv
<1>5. FoundInv'
  BY <1>1 DEF FoundInv, Named, Excused
<1> QED
  BY <1>2, <1>3, <1>4, <1>5, FS_EmptySet DEF RunningInv, PhaseInv, WatchInv

LEMMA StutterInv ==
  ASSUME IInv, UNCHANGED vars
  PROVE  IInv'
BY DEF IInv, vars, TypeOK, RunningInv, PhaseInv, WatchInv, FreshInv, FoundInv,
       Running, In, Named, Excused, Crowded

-----------------------------------------------------------------------------

(* The inductive invariant holds of every reachable state. *)
THEOREM Invariance == Spec => []IInv
<1>1. IInv /\ [Next]_vars => IInv'
  <2> SUFFICES ASSUME IInv, [Next]_vars PROVE IInv'
    OBVIOUS
  <2>1. CASE \E s \in Services : Outage(s) \/ Resolve(s)
    BY <2>1, ServiceInv
  <2>2. CASE \E p \in Probes : Probe(p) \/ Await(p)
    BY <2>2, ProbeInv, ConnectInv, CheckInv DEF Await
  <2>3. CASE \/ CompleteStartup \/ Terminate \/ LeaveLifespan
             \/ CloseLimiter \/ Dispose
    BY <2>3, LifespanInv
  <2>4. CASE Kill
    BY <2>4, KillInv
  <2>5. CASE Exited \/ UNCHANGED vars
    BY <2>5, StutterInv DEF Exited
  <2>6. CASE \E q \in Others : Arrive(q) \/ Query(q) \/ GiveBack(q) \/ Finish(q)
    BY <2>6, OthersInv
  <2> QED
    BY <2>1, <2>2, <2>3, <2>4, <2>5, <2>6 DEF Next
<1> QED
  BY <1>1, StartInv, PTL DEF Spec

(* What an answer of /ready names was down at some moment of the probe, or is
   the database while others had the whole pool; what it does not name was
   up, and it never tells that the startup is not complete. *)
THEOREM AnswersAreTrue == Spec => []ProbesAreHonest
<1>1. IInv => ProbesAreHonest
  <2> SUFFICES ASSUME IInv, NEW p \in Answered,
                      NEW s \in Checked \ Named(p)
               PROVE  s \in up[p]
    BY DEF ProbesAreHonest, IInv, FoundInv, Answered, Excused
  <2>1. PICK i \in 1..Len(Checks) : s = Checks[i] /\ s \in Services \ failed[p]
    BY DEF Checked, Named
  <2>2. i < step[p] /\ p \in Probes
    BY ChecksAre DEF Answered
  <2> QED
    BY <2>1, <2>2 DEF IInv, FoundInv
<1> QED
  BY <1>1, Invariance, PTL
=============================================================================
