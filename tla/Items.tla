-------------------------------- MODULE Items --------------------------------
(***************************************************************************)
(* POST /api/v1/items: concurrent requests of several tenants that share   *)
(* one connection pool.  A step is what runs between two awaits, or one    *)
(* step of the database server, which may still commit for a request that  *)
(* is over.  Any await may be cut short by an error of the database, by    *)
(* the pool's timeout or by the request timeout.                           *)
(*                                                                         *)
(* Prices are in tenths of a cent: the column holds whole cents.           *)
(***************************************************************************)
EXTENDS Integers, FiniteSets

CONSTANTS Requests,   \* attempts to create an item
          Tenants,    \* values of X-Tenant-ID
          Public,     \* DEFAULT_TENANT
          Absent,     \* no X-Tenant-ID header
          Prices,     \* prices clients send, all positive
          MaxPrice,   \* the largest Numeric(12, 2)
          PoolSize,   \* database_pool_size + database_max_overflow
          NoRow

ASSUME ConstantsAssumption ==
  /\ Public \in Tenants /\ Absent \notin Tenants
  /\ Prices \subseteq Nat \ {0} /\ MaxPrice \in Nat
  /\ PoolSize \in Nat \ {0}

Item == [tenant : Tenants, price : Nat]

ASSUME NoRowAssumption == NoRow \notin Item

VARIABLES
  header,       \* the X-Tenant-ID each request came with
  body,         \* the price in its body
  tenant_id,    \* _tenant_id, as the request's task sees it
  pc,
  item,         \* the ORM object of the request
  connections,  \* requests that hold a connection of the pool
  committing,   \* requests whose COMMIT the server has and has not executed
  items,        \* the committed row of each request
  status,       \* the status each client saw, 0 before
  shown         \* the item its 201 showed

vars == <<header, body, tenant_id, pc, item, connections, committing, items,
          status, shown>>
input  == <<header, body>>
answer == <<status, shown>>

Refusals == {400, 401, 403, 422, 429}
Errors   == {500, 504}

TypeOK ==
  /\ header \in [Requests -> Tenants \cup {Absent}]
  /\ body \in [Requests -> Prices]
  /\ tenant_id \in [Requests -> Tenants]
  /\ pc \in [Requests -> {"new", "dependencies", "flush", "insert", "commit",
                          "refresh", "select", "reply", "leave", "done"}]
  /\ item \in [Requests -> Item \cup {NoRow}]
  /\ connections \subseteq Requests
  /\ Cardinality(connections) <= PoolSize
  /\ committing \subseteq Requests
  /\ items \in [Requests -> Item \cup {NoRow}]
  /\ status \in [Requests -> {0, 201} \cup Refusals \cup Errors]
  /\ shown \in [Requests -> Item \cup {NoRow}]

Init ==
  /\ header \in [Requests -> Tenants \cup {Absent}]
  /\ body \in [Requests -> Prices]
  /\ tenant_id = [r \in Requests |-> Public]
  /\ pc = [r \in Requests |-> "new"]
  /\ item = [r \in Requests |-> NoRow]
  /\ connections = {}
  /\ committing = {}
  /\ items = [r \in Requests |-> NoRow]
  /\ status = [r \in Requests |-> 0]
  /\ shown = [r \in Requests |-> NoRow]

Goto(r, next) == pc' = [pc EXCEPT ![r] = next]

-----------------------------------------------------------------------------
(* The tenant of a request. *)

(* Mutant: Headers.get without its default. *)
NoDefault(r) == header[r]

Tenant(r) == IF header[r] = Absent THEN Public ELSE header[r]

(* _tenant_id.set: each request runs in a context of its own. *)
Bound(r, t) == [tenant_id EXCEPT ![r] = t]

(* TenantMiddleware, then the layers and the body: awaits. *)
Submit(r) ==
  /\ pc[r] = "new"
  /\ tenant_id' = Bound(r, Tenant(r))
  /\ Goto(r, "dependencies")
  /\ UNCHANGED <<input, item, connections, committing, items, answer>>

-----------------------------------------------------------------------------
(* The endpoint. *)

(* The end of a request, however it comes: the session is closed, its
   connection goes back to the pool, the context variable is reset. *)
Over(r) ==
  /\ Goto(r, "done")
  /\ connections' = connections \ {r}
  /\ tenant_id' = Bound(r, Public)
  /\ UNCHANGED <<input, item, committing, items>>

(* The rate limit, the principal or the body's validation refuse; the
   session is open and holds no connection. *)
Refuse(r) ==
  /\ pc[r] = "dependencies"
  /\ Over(r)
  /\ \E code \in Refusals : status' = [status EXCEPT ![r] = code]
  /\ UNCHANGED shown

(* ItemRepository.create up to the flush of session.commit(). *)
CallEndpoint(r) ==
  /\ pc[r] = "dependencies"
  /\ item' = [item EXCEPT ![r] = [tenant |-> tenant_id[r], price |-> body[r]]]
  /\ Goto(r, "flush")
  /\ UNCHANGED <<input, tenant_id, connections, committing, items, answer>>

(* The pool hands out a connection: before the INSERT, and again before the
   SELECT of the refresh, because the commit gave the first one back. *)
Checkout(r) ==
  /\ pc[r] \in {"flush", "refresh"}
  /\ Cardinality(connections) < PoolSize
  /\ connections' = connections \cup {r}
  /\ Goto(r, IF pc[r] = "flush" THEN "insert" ELSE "select")
  /\ UNCHANGED <<input, tenant_id, item, committing, items, answer>>

(* Numeric(12, 2) rounds half up. *)
Cents(price) == 10 * ((price + 5) \div 10)

(* The INSERT succeeded; COMMIT is sent. *)
SendCommit(r) ==
  /\ pc[r] = "insert"
  /\ Cents(item[r].price) <= MaxPrice
  /\ committing' = committing \cup {r}
  /\ Goto(r, "commit")
  /\ UNCHANGED <<input, tenant_id, item, connections, items, answer>>

(* The server executes a COMMIT, whoever still waits for it. *)
ServerCommits(r) ==
  /\ r \in committing
  /\ committing' = committing \ {r}
  /\ items' = [items EXCEPT ![r] =
                 [tenant |-> item[r].tenant, price |-> Cents(item[r].price)]]
  /\ UNCHANGED <<input, tenant_id, pc, item, connections, answer>>

(* The connection or the server breaks first: the server rolls back. *)
ServerRollsBack(r) ==
  /\ r \in committing
  /\ committing' = committing \ {r}
  /\ UNCHANGED <<input, tenant_id, pc, item, connections, items, answer>>

(* Mutant: the session keeps its connection, and the refresh asks for
   another. *)
Kept(r) == connections

Returned(r) == connections \ {r}

CommitReturns(r) ==
  /\ pc[r] = "commit"
  /\ items[r] # NoRow
  /\ connections' = Returned(r)
  /\ Goto(r, "refresh")
  /\ UNCHANGED <<input, tenant_id, item, committing, items, answer>>

Refresh(r) ==
  /\ pc[r] = "select"
  /\ item' = [item EXCEPT ![r] = items[r]]
  /\ Goto(r, "reply")
  /\ UNCHANGED <<input, tenant_id, connections, committing, items, answer>>

(* ItemResponse is sent; the session is closed only afterwards. *)
Reply(r) ==
  /\ pc[r] = "reply"
  /\ status' = [status EXCEPT ![r] = 201]
  /\ shown' = [shown EXCEPT ![r] = item[r]]
  /\ Goto(r, "leave")
  /\ UNCHANGED <<input, tenant_id, item, connections, committing, items>>

Leave(r) ==
  /\ pc[r] = "leave"
  /\ Over(r)
  /\ UNCHANGED answer

(* Mutant: an error of the database is answered with 422. *)
ClientBlamed == {422}

ErrorCodes == Errors

(* An await ends in an error or in the timeout; a price the column cannot
   hold fails at the INSERT. *)
Fail(r) ==
  /\ pc[r] \in {"dependencies", "flush", "insert", "commit", "refresh",
                "select", "reply"}
  /\ Over(r)
  /\ \E code \in ErrorCodes : status' = [status EXCEPT ![r] = code]
  /\ UNCHANGED shown

Finished == (\A r \in Requests : pc[r] = "done") /\ UNCHANGED vars

Next ==
  \/ \E r \in Requests :
       \/ Submit(r) \/ Refuse(r) \/ CallEndpoint(r) \/ Checkout(r)
       \/ SendCommit(r) \/ CommitReturns(r) \/ Refresh(r) \/ Reply(r)
       \/ Leave(r) \/ Fail(r)
       \/ ServerCommits(r) \/ ServerRollsBack(r)
  \/ Finished

Spec == Init /\ [][Next]_vars

(* What a request waits for. *)
Progress(r) ==
  \/ Submit(r) \/ CallEndpoint(r) \/ SendCommit(r) \/ CommitReturns(r)
  \/ Refresh(r) \/ Reply(r) \/ Leave(r)

(* An INSERT that cannot succeed and a COMMIT that was lost raise. *)
Rejected(r) ==
  /\ \/ pc[r] = "insert" /\ Cents(item[r].price) > MaxPrice
     \/ pc[r] = "commit" /\ r \notin committing /\ items[r] = NoRow
  /\ Fail(r)

(* The event loop runs what is ready, the server answers and the pool serves
   its waiters in turn.  No timeout is counted on. *)
FairSpec ==
  /\ Spec
  /\ \A r \in Requests :
       /\ WF_vars(Progress(r))
       /\ WF_vars(Rejected(r))
       /\ WF_vars(ServerCommits(r) \/ ServerRollsBack(r))
       /\ SF_vars(Checkout(r))

-----------------------------------------------------------------------------

(* No request waits for ever for a connection, however small the pool: a
   request that waits holds none. *)
EveryCreateEnds == \A r \in Requests : pc[r] = "new" ~> pc[r] = "done"

-----------------------------------------------------------------------------
(* What the client can tell. *)

Outcome(r) ==
  CASE pc[r] = "new" -> "none"
    [] status[r] = 201 -> "created"
    [] status[r] \in 400..499 -> "refused"
    [] status[r] >= 500 -> "doubt"
    [] OTHER -> "open"

Wanted(r) ==
  IF pc[r] = "new" THEN NoRow ELSE [tenant |-> Tenant(r), price |-> body[r]]

Ledger ==
  INSTANCE ItemLedger WITH
    wanted  <- [r \in Requests |-> Wanted(r)],
    outcome <- [r \in Requests |-> Outcome(r)],
    row     <- items,
    shown   <- shown

(* The endpoint keeps the promises of ItemLedger: whatever is cut off and
   however requests of other tenants interleave, a 201 shows the row as it
   is stored, of the client's own tenant and rounded to the cent; nothing is
   stored for a 4xx, not even by a COMMIT the server still has; only a 5xx
   leaves the client in doubt. *)
ImplementsLedger == Ledger!Spec
=============================================================================
