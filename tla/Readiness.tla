----------------------------- MODULE Readiness -----------------------------
(***************************************************************************)
(* One worker from the end of its startup to its exit: probes of /ready    *)
(* await their checks one after the other while the services they check    *)
(* come, go and hang, and the shutdown waits for them.  The check of the   *)
(* database takes a connection from the pool that all requests share, and  *)
(* fails when there is none for pool_timeout.                              *)
(*                                                                         *)
(* uvicorn is external: it serves only between the two halves of the       *)
(* lifespan, and on SIGTERM waits without limit for the requests it has.   *)
(* So is the signal handling, and the two services.                        *)
(***************************************************************************)
EXTENDS Naturals, Sequences, FiniteSets

CONSTANTS Probes,        \* requests for /ready
          Others,        \* requests that use the database
          PoolSize,      \* database_pool_size + database_max_overflow
          RedisBackend,  \* rate_limit_backend = "redis"
          MaxOutages     \* bound of the outages explored

ASSUME ConstantsAssumption ==
  /\ PoolSize \in Nat \ {0}
  /\ RedisBackend \in BOOLEAN /\ MaxOutages \in Nat

(* The registered checks, in the order of registration. *)
Checks ==
  IF RedisBackend THEN <<"startup", "database", "rate_limit_backend">>
                  ELSE <<"startup", "database">>

Services == {"database", "rate_limit_backend"}

VARIABLES
  phase,             \* of the process
  startup_complete,  \* app.state
  engine,            \* db_manager has an engine
  service,           \* each service is "up", "down", or "hung"
  outages,           \* how many there were
  requests,          \* the other requests under way
  holders,           \* who has a connection of the pool
  step,              \* the check a probe awaits, 0 before the first
  failed,            \* failed_checks of each probe
  up, down,          \* history: the services seen up, and down, by each probe
  crowded            \* history: the probes that saw others have the whole pool

vars == <<phase, startup_complete, engine, service, outages, requests, holders,
          step, failed, up, down, crowded>>
process  == <<phase, startup_complete, engine>>
services == <<service, outages>>
pool     == <<requests, holders>>
probes   == <<step, failed>>
history  == <<up, down, crowded>>

Running  == {p \in Probes : step[p] \in 1..Len(Checks)}
Answered == {p \in Probes : step[p] = Len(Checks) + 1}

TypeOK ==
  /\ phase \in {"starting", "serving", "draining", "closing", "disposing",
                "exited", "close_raised", "killed"}
  /\ startup_complete \in BOOLEAN
  /\ startup_complete => phase \in {"serving", "draining", "killed"}
  /\ engine \in BOOLEAN
  /\ service \in [Services -> {"up", "down", "hung"}]
  /\ outages \in 0..MaxOutages
  /\ requests \subseteq Others
  /\ holders \subseteq Probes \cup Others
  /\ step \in [Probes -> 0..Len(Checks) + 1]
  /\ failed \in [Probes -> SUBSET {Checks[i] : i \in 1..Len(Checks)}]
  /\ up \in [Probes -> SUBSET Services]
  /\ down \in [Probes -> SUBSET Services]
  /\ crowded \subseteq Probes

In(state) == {s \in Services : service[s] = state}

Init ==
  /\ phase = "starting"
  /\ startup_complete = FALSE
  /\ engine = TRUE
  /\ service \in [Services -> {"up", "down"}]
  /\ outages = 0
  /\ requests = {}
  /\ holders = {}
  /\ step = [p \in Probes |-> 0]
  /\ failed = [p \in Probes |-> {}]
  /\ up = [p \in Probes |-> {}]
  /\ down = [p \in Probes |-> {}]
  /\ crowded = {}

-----------------------------------------------------------------------------
(* The services. *)

(* To be conjoined to what changes a service. *)
Witnessed ==
  /\ up' = [p \in Probes |-> up[p] \cup IF p \in Running THEN In("up")' ELSE {}]
  /\ down' =
       [p \in Probes |-> down[p] \cup IF p \in Running THEN In("down")' ELSE {}]
  /\ UNCHANGED crowded

Outage(s) ==
  /\ outages < MaxOutages
  /\ outages' = outages + 1
  /\ service[s] = "up"
  /\ \E state \in {"down", "hung"} : service' = [service EXCEPT ![s] = state]
  /\ UNCHANGED <<process, pool, probes>>
  /\ Witnessed

(* It answers again, or its connections break. *)
Resolve(s) ==
  /\ \/ service[s] = "hung" /\ service' = [service EXCEPT ![s] = "down"]
     \/ service[s] # "up" /\ service' = [service EXCEPT ![s] = "up"]
  /\ UNCHANGED <<process, outages, pool, probes>>
  /\ Witnessed

-----------------------------------------------------------------------------
(* Other requests and the pool. *)

Room(taken) == Cardinality(taken) < PoolSize

(* The whole pool is with others than p. *)
Crowded(p) == ~Room(holders \ {p})

TakeConnection(h) ==
  /\ h \notin holders
  /\ Room(holders)
  /\ holders' = holders \cup {h}
  /\ crowded' = crowded \cup {p \in Running : Crowded(p)'}
  /\ UNCHANGED <<up, down>>

Arrive(q) ==
  /\ phase = "serving"
  /\ q \notin requests
  /\ requests' = requests \cup {q}
  /\ UNCHANGED <<process, services, holders, probes, history>>

Query(q) ==
  /\ q \in requests
  /\ TakeConnection(q)
  /\ UNCHANGED <<process, services, requests, probes>>

(* The session's commit. *)
GiveBack(q) ==
  /\ q \in holders
  /\ holders' = holders \ {q}
  /\ UNCHANGED <<process, services, requests, probes, history>>

(* An answer, an error or the request timeout. *)
Finish(q) ==
  /\ q \in requests
  /\ requests' = requests \ {q}
  /\ holders' = holders \ {q}
  /\ UNCHANGED <<process, services, probes, history>>

-----------------------------------------------------------------------------
(* /ready *)

Probe(p) ==
  /\ phase = "serving"
  /\ step[p] = 0
  /\ step' = [step EXCEPT ![p] = 1]
  /\ up' = [up EXCEPT ![p] = In("up")]
  /\ down' = [down EXCEPT ![p] = In("down")]
  /\ crowded' = crowded \cup IF Crowded(p) THEN {p} ELSE {}
  /\ UNCHANGED <<process, services, pool, failed>>

Passes(check) ==
  IF check = "startup" THEN startup_complete ELSE service[check] = "up"

Fails(check) ==
  IF check = "startup" THEN ~startup_complete ELSE service[check] = "down"

(* Mutants: run_readiness_checks returns at the first failure, or tries the
   failing check again. *)
AfterFailureReturn(i) == Len(Checks) + 1
AfterFailureRetry(i) == i

AfterFailure(i) == i + 1

Awaits(p, check) == p \in Running /\ Checks[step[p]] = check

Fail(p, check) ==
  /\ step' = [step EXCEPT ![p] = AfterFailure(@)]
  /\ failed' = [failed EXCEPT ![p] = @ \cup {check}]

(* db_manager.ping configures an engine if there is none, and waits for a
   connection of its pool. *)
Connect(p) ==
  /\ Awaits(p, "database")
  /\ TakeConnection(p)
  /\ engine' = TRUE
  /\ UNCHANGED <<phase, startup_complete, services, requests, probes>>

(* pool_timeout ends the wait. *)
PoolTimeout(p) ==
  /\ Awaits(p, "database")
  /\ p \notin holders
  /\ ~Room(holders)
  /\ Fail(p, "database")
  /\ engine' = TRUE
  /\ UNCHANGED <<phase, startup_complete, services, pool, history>>

(* A check returns or raises; a hung service lets it do neither. *)
CheckEnds(p) ==
  /\ \E check \in Services \cup {"startup"} :
       /\ Awaits(p, check)
       /\ check = "database" => p \in holders
       /\ \/ /\ Passes(check)
             /\ step' = [step EXCEPT ![p] = @ + 1]
             /\ UNCHANGED failed
          \/ Fails(check) /\ Fail(p, check)
  /\ holders' = holders \ {p}
  /\ UNCHANGED <<process, services, requests, history>>

Await(p) == Connect(p) \/ PoolTimeout(p) \/ CheckEnds(p)

-----------------------------------------------------------------------------
(* The lifespan. *)

CompleteStartup ==
  /\ phase = "starting"
  /\ phase' = "serving"
  /\ startup_complete' = TRUE
  /\ UNCHANGED <<engine, services, pool, probes, history>>

Terminate ==
  /\ phase = "serving"
  /\ phase' = "draining"
  /\ UNCHANGED <<startup_complete, engine, services, pool, probes, history>>

(* uvicorn resumes the lifespan when no request is left. *)
LeaveLifespan ==
  /\ phase = "draining"
  /\ Running = {} /\ requests = {}
  /\ phase' = "closing"
  /\ startup_complete' = FALSE
  /\ UNCHANGED <<engine, services, pool, probes, history>>

(* await limiter.close(); if it raises, dispose is skipped. *)
CloseLimiter ==
  /\ phase = "closing"
  /\ phase' \in {"disposing"} \cup IF RedisBackend THEN {"close_raised"} ELSE {}
  /\ UNCHANGED <<startup_complete, engine, services, pool, probes, history>>

Dispose ==
  /\ phase = "disposing"
  /\ phase' = "exited"
  /\ engine' = FALSE
  /\ UNCHANGED <<startup_complete, services, pool, probes, history>>

Kill ==
  /\ phase \notin {"exited", "close_raised", "killed"}
  /\ phase' = "killed"
  /\ step' = [p \in Probes |-> IF p \in Running THEN 0 ELSE step[p]]
  /\ failed' = [p \in Probes |-> IF p \in Running THEN {} ELSE failed[p]]
  /\ requests' = {}
  /\ holders' = {}
  /\ UNCHANGED <<startup_complete, engine, services, history>>

Exited ==
  /\ phase \in {"exited", "close_raised", "killed"}
  /\ UNCHANGED vars

Next ==
  \/ \E s \in Services : Outage(s) \/ Resolve(s)
  \/ \E q \in Others : Arrive(q) \/ Query(q) \/ GiveBack(q) \/ Finish(q)
  \/ \E p \in Probes : Probe(p) \/ Await(p)
  \/ CompleteStartup \/ Terminate \/ LeaveLifespan \/ CloseLimiter \/ Dispose
  \/ Kill \/ Exited

Spec == Init /\ [][Next]_vars

(* A hung service comes back or breaks at last; a request ends, if no hung
   database keeps its connection; the event loop runs what is ready.  A
   service may stay down. *)
FairSpec ==
  /\ Spec
  /\ \A s \in Services : WF_vars(service[s] = "hung" /\ Resolve(s))
  /\ \A q \in Others :
       WF_vars((q \in holders => service["database"] # "hung") /\ Finish(q))
  /\ \A p \in Probes : WF_vars(Await(p))
  /\ WF_vars(LeaveLifespan) /\ WF_vars(CloseLimiter) /\ WF_vars(Dispose)

-----------------------------------------------------------------------------

Named(p) == failed[p] \cap Services
Checked  == Services \cap {Checks[i] : i \in 1..Len(Checks)}

(* An answer of /ready is no snapshot, but each word of it was true at some
   moment of the probe: what it names was down (or, for the database, others
   had the whole pool), what it does not name was up, whichever checks failed
   before; and no client is ever told that the startup is not complete, not
   even one whose probe a SIGTERM overtakes. *)
ProbesAreHonest ==
  \A p \in Answered :
    /\ Named(p) \subseteq down[p] \cup IF p \in crowded THEN {"database"} ELSE {}
    /\ Checked \ Named(p) \subseteq up[p]
    /\ "startup" \notin failed[p]

(* A worker that is told to stop does, though /ready has no timeout, if hung
   services do not hang for ever; and its pool is closed then, not opened
   again by a late probe, unless closing the limiter raised or it was
   killed. *)
ShutdownCompletes ==
  phase = "draining"
    ~> (phase = "exited" /\ ~engine) \/ phase \in {"close_raised", "killed"}
=============================================================================
