----------------------------- MODULE ItemsProofs -----------------------------
(***************************************************************************)
(* Theorems about Items, for any requests, tenants and prices and a pool   *)
(* of any size: the endpoint implements ItemLedger.                        *)
(***************************************************************************)
EXTENDS Items, FiniteSetTheorems, TLAPS

(* The order is that of the attempt. *)
Unsent == {"new", "dependencies", "flush", "insert"}
Asked  == {"dependencies", "flush", "insert", "commit", "refresh", "select",
           "reply", "leave"}
Stored == {"refresh", "select", "reply", "leave"}

(* The context variable of a request's task names its own tenant as long as
   the request lasts, and the default before. *)
TenantInv ==
  \A r \in Requests : pc[r] \in Asked => tenant_id[r] = Tenant(r)

(* Until it is refreshed, the ORM object is what the client wants; so is
   what a COMMIT will store that the server still has, also after the end
   of its request. *)
ItemInv ==
  \A r \in Requests :
    /\ pc[r] \in {"flush", "insert", "commit"} => item[r] = Wanted(r)
    /\ r \in committing => /\ pc[r] \in {"commit", "done"}
                           /\ item[r] = Wanted(r)
                           /\ items[r] = NoRow
    /\ pc[r] \in {"reply", "leave"} => item[r] = items[r]

(* Nothing is stored before COMMIT is sent, and something is once it has
   returned. *)
RowInv ==
  \A r \in Requests :
    /\ pc[r] \in Unsent => items[r] = NoRow
    /\ pc[r] \in Stored => items[r] # NoRow

(* The client hears nothing before Reply or the end; a 201 has shown the
   row; a refusal comes before anything is sent, and leaves nothing behind
   at the server. *)
AnswerInv ==
  \A r \in Requests :
    /\ pc[r] \notin {"leave", "done"} => status[r] = 0
    /\ pc[r] = "leave" => status[r] = 201
    /\ pc[r] = "done" => status[r] # 0
    /\ status[r] = 201 => shown[r] = items[r] /\ items[r] # NoRow
    /\ status[r] # 201 => shown[r] = NoRow
    /\ status[r] \in Refusals => r \notin committing /\ items[r] = NoRow

(* Cardinalities are meaningful however many requests there are. *)
PoolInv == IsFiniteSet(connections)

IInv == TypeOK /\ PoolInv /\ TenantInv /\ ItemInv /\ RowInv /\ AnswerInv

(* What Numeric(12, 2) stores is a price, and the client's to the cent. *)
LEMMA CentsRound ==
  ASSUME NEW price \in Nat
  PROVE  Cents(price) \in Nat /\ Cents(price) \in Ledger!ToTheCent(price)
BY DEF Cents, Ledger!ToTheCent

(* The inductive invariant holds initially. *)
LEMMA InitInv == Init => IInv
<1> SUFFICES ASSUME Init PROVE IInv
  OBVIOUS
<1>1. IsFiniteSet(connections) /\ Cardinality(connections) = 0
  BY FS_EmptySet DEF Init
<1>2. TypeOK
  BY <1>1, ConstantsAssumption DEF Init, TypeOK
<1> QED
  BY <1>1, <1>2
  DEF Init, IInv, PoolInv, TenantInv, ItemInv, RowInv, AnswerInv, Unsent,
      Asked, Stored, Refusals

(* The rows of the table, and the tenant of a request, are well-formed. *)
LEMMA WantedItem ==
  ASSUME TypeOK, NEW r \in Requests
  PROVE  /\ Tenant(r) \in Tenants
         /\ [tenant |-> Tenant(r), price |-> body[r]] \in Item
         /\ [tenant |-> Tenant(r), price |-> body[r]] # NoRow
<1>1. Tenant(r) \in Tenants /\ body[r] \in Nat
  BY ConstantsAssumption DEF TypeOK, Tenant
<1>2. [tenant |-> Tenant(r), price |-> body[r]] \in Item
  BY <1>1 DEF Item
<1> QED
  BY <1>1, <1>2, NoRowAssumption

(* The pool: a request more, or one less, or as it was. *)
LEMMA PoolStep ==
  ASSUME TypeOK, PoolInv, NEW r \in Requests,
         \/ connections' = connections
         \/ connections' = connections \ {r}
         \/ /\ Cardinality(connections) < PoolSize
            /\ connections' = connections \cup {r}
  PROVE  /\ PoolInv' /\ connections' \subseteq Requests
         /\ Cardinality(connections') <= PoolSize
<1>1. /\ IsFiniteSet(connections) /\ connections \subseteq Requests
      /\ Cardinality(connections) \in Nat /\ PoolSize \in Nat
      /\ Cardinality(connections) <= PoolSize
  BY FS_CardinalityType, ConstantsAssumption DEF TypeOK, PoolInv
<1>2. CASE connections' = connections
  BY <1>1, <1>2 DEF PoolInv
<1>3. CASE connections' = connections \ {r}
  <2>1. /\ IsFiniteSet(connections \ {r})
        /\ \/ Cardinality(connections \ {r}) = Cardinality(connections)
           \/ Cardinality(connections \ {r}) = Cardinality(connections) - 1
    BY <1>1, FS_RemoveElement
  <2>2. Cardinality(connections \ {r}) <= PoolSize
    BY <1>1, <2>1
  <2> QED
    BY <1>1, <1>3, <2>1, <2>2 DEF PoolInv
<1>4. CASE /\ Cardinality(connections) < PoolSize
           /\ connections' = connections \cup {r}
  <2>1. /\ IsFiniteSet(connections \cup {r})
        /\ \/ Cardinality(connections \cup {r}) = Cardinality(connections)
           \/ Cardinality(connections \cup {r}) = Cardinality(connections) + 1
    BY <1>1, FS_AddElement
  <2>2. Cardinality(connections \cup {r}) <= PoolSize
    BY <1>1, <1>4, <2>1
  <2> QED
    BY <1>1, <1>4, <2>1, <2>2 DEF PoolInv
<1> QED
  BY <1>2, <1>3, <1>4

(* TenantMiddleware names the tenant. *)
LEMMA SubmitInv ==
  ASSUME IInv, NEW r \in Requests, Submit(r)
  PROVE  IInv'
<1> USE DEF IInv, Submit, Bound, Goto, input, answer
<1>1. /\ PoolInv' /\ connections' \subseteq Requests
      /\ Cardinality(connections') <= PoolSize
  BY PoolStep
<1>2. TypeOK'
  BY <1>1, WantedItem DEF TypeOK
<1>3. TenantInv'
  BY DEF TypeOK, TenantInv, Tenant, Asked
<1>4. ItemInv'
  BY DEF TypeOK, ItemInv, Wanted, Tenant, RowInv, Unsent, Stored
<1>5. RowInv'
  BY DEF TypeOK, RowInv, Unsent, Stored, ItemInv
<1>6. AnswerInv'
  BY DEF TypeOK, AnswerInv, ItemInv, RowInv, Unsent, Stored, Refusals, Errors
<1> QED
  BY <1>1, <1>2, <1>3, <1>4, <1>5, <1>6

(* A refusal comes before anything is sent. *)
LEMMA RefuseInv ==
  ASSUME IInv, NEW r \in Requests, Refuse(r)
  PROVE  IInv'
<1> USE DEF IInv, Refuse, Over, Bound, Goto, input
<1>1. /\ PoolInv' /\ connections' \subseteq Requests
      /\ Cardinality(connections') <= PoolSize
  BY PoolStep
<1>2. TypeOK'
  BY <1>1, ConstantsAssumption DEF TypeOK, Refusals
<1>3. TenantInv'
  BY DEF TypeOK, TenantInv, Tenant, Asked
<1>4. ItemInv'
  BY DEF TypeOK, ItemInv, Wanted, Tenant, RowInv, Unsent, Stored
<1>5. RowInv'
  BY DEF TypeOK, RowInv, Unsent, Stored, ItemInv
<1>6. AnswerInv'
  BY DEF TypeOK, AnswerInv, ItemInv, RowInv, Unsent, Stored, Refusals, Errors
<1> QED
  BY <1>1, <1>2, <1>3, <1>4, <1>5, <1>6

(* The ORM object is built from the context and the body. *)
LEMMA CallEndpointInv ==
  ASSUME IInv, NEW r \in Requests, CallEndpoint(r)
  PROVE  IInv'
<1> USE DEF IInv, CallEndpoint, Goto, input, answer
<1>1. /\ PoolInv' /\ connections' \subseteq Requests
      /\ Cardinality(connections') <= PoolSize
  BY PoolStep
<1>2. TypeOK'
  BY <1>1, ConstantsAssumption DEF TypeOK, Item
<1>3. TenantInv'
  BY DEF TypeOK, TenantInv, Tenant, Asked
<1>4. ItemInv'
  BY DEF TypeOK, ItemInv, Wanted, Tenant, RowInv, Unsent, Stored, TenantInv, Asked
<1>5. RowInv'
  BY DEF TypeOK, RowInv, Unsent, Stored, ItemInv
<1>6. AnswerInv'
  BY DEF TypeOK, AnswerInv, ItemInv, RowInv, Unsent, Stored, Refusals, Errors
<1> QED
  BY <1>1, <1>2, <1>3, <1>4, <1>5, <1>6

(* A connection of the pool. *)
LEMMA CheckoutInv ==
  ASSUME IInv, NEW r \in Requests, Checkout(r)
  PROVE  IInv'
<1> USE DEF IInv, Checkout, Goto, input, answer
<1>1. /\ PoolInv' /\ connections' \subseteq Requests
      /\ Cardinality(connections') <= PoolSize
  BY PoolStep
<1>2. TypeOK'
  BY <1>1 DEF TypeOK
<1>3. TenantInv'
  BY DEF TypeOK, TenantInv, Tenant, Asked
<1>4. ItemInv'
  BY DEF TypeOK, ItemInv, Wanted, Tenant, RowInv, Unsent, Stored
<1>5. RowInv'
  BY DEF TypeOK, RowInv, Unsent, Stored, ItemInv
<1>6. AnswerInv'
  BY DEF TypeOK, AnswerInv, ItemInv, RowInv, Unsent, Stored, Refusals, Errors
<1> QED
  BY <1>1, <1>2, <1>3, <1>4, <1>5, <1>6

(* COMMIT is sent, with nothing stored so far. *)
LEMMA SendCommitInv ==
  ASSUME IInv, NEW r \in Requests, SendCommit(r)
  PROVE  IInv'
<1> USE DEF IInv, SendCommit, Goto, input, answer
<1>1. /\ PoolInv' /\ connections' \subseteq Requests
      /\ Cardinality(connections') <= PoolSize
  BY PoolStep
<1>2. TypeOK'
  BY <1>1 DEF TypeOK
<1>3. TenantInv'
  BY DEF TypeOK, TenantInv, Tenant, Asked
<1>4. ItemInv'
  BY DEF TypeOK, ItemInv, Wanted, Tenant, RowInv, Unsent, Stored
<1>5. RowInv'
  BY DEF TypeOK, RowInv, Unsent, Stored, ItemInv
<1>6. AnswerInv'
  BY DEF TypeOK, AnswerInv, ItemInv, RowInv, Unsent, Stored, Refusals, Errors
<1> QED
  BY <1>1, <1>2, <1>3, <1>4, <1>5, <1>6

(* The server commits, also for a request that is over. *)
LEMMA ServerCommitsInv ==
  ASSUME IInv, NEW r \in Requests, ServerCommits(r)
  PROVE  IInv'
<1> USE DEF IInv, ServerCommits, input, answer
<1>0. [tenant |-> item[r].tenant, price |-> Cents(item[r].price)] \in Item
  <2>1. item[r] \in Item
    BY WantedItem, NoRowAssumption DEF ItemInv, RowInv, Wanted, Unsent
  <2> QED
    BY <2>1, CentsRound DEF Item
<1>1. /\ PoolInv' /\ connections' \subseteq Requests
      /\ Cardinality(connections') <= PoolSize
  BY PoolStep
<1>2. TypeOK'
  BY <1>1, <1>0 DEF TypeOK
<1>3. TenantInv'
  BY NoRowAssumption, <1>0 DEF TypeOK, TenantInv, Tenant, Asked
<1>4. ItemInv'
  BY NoRowAssumption, <1>0 DEF TypeOK, ItemInv, Wanted, Tenant, RowInv, Unsent, Stored
<1>5. RowInv'
  BY NoRowAssumption, <1>0 DEF TypeOK, RowInv, Unsent, Stored, ItemInv
<1>6. AnswerInv'
  BY NoRowAssumption, <1>0 DEF TypeOK, AnswerInv, ItemInv, RowInv, Unsent, Stored, Refusals, Errors
<1> QED
  BY <1>1, <1>2, <1>3, <1>4, <1>5, <1>6

(* Or it does not. *)
LEMMA ServerRollsBackInv ==
  ASSUME IInv, NEW r \in Requests, ServerRollsBack(r)
  PROVE  IInv'
<1> USE DEF IInv, ServerRollsBack, input, answer
<1>1. /\ PoolInv' /\ connections' \subseteq Requests
      /\ Cardinality(connections') <= PoolSize
  BY PoolStep
<1>2. TypeOK'
  BY <1>1 DEF TypeOK
<1>3. TenantInv'
  BY DEF TypeOK, TenantInv, Tenant, Asked
<1>4. ItemInv'
  BY DEF TypeOK, ItemInv, Wanted, Tenant, RowInv, Unsent, Stored
<1>5. RowInv'
  BY DEF TypeOK, RowInv, Unsent, Stored, ItemInv
<1>6. AnswerInv'
  BY DEF TypeOK, AnswerInv, ItemInv, RowInv, Unsent, Stored, Refusals, Errors
<1> QED
  BY <1>1, <1>2, <1>3, <1>4, <1>5, <1>6

(* COMMIT has returned, and with it the connection. *)
LEMMA CommitReturnsInv ==
  ASSUME IInv, NEW r \in Requests, CommitReturns(r)
  PROVE  IInv'
<1> USE DEF IInv, CommitReturns, Returned, Goto, input, answer
<1>1. /\ PoolInv' /\ connections' \subseteq Requests
      /\ Cardinality(connections') <= PoolSize
  BY PoolStep
<1>2. TypeOK'
  BY <1>1 DEF TypeOK
<1>3. TenantInv'
  BY DEF TypeOK, TenantInv, Tenant, Asked
<1>4. ItemInv'
  BY DEF TypeOK, ItemInv, Wanted, Tenant, RowInv, Unsent, Stored
<1>5. RowInv'
  BY DEF TypeOK, RowInv, Unsent, Stored, ItemInv
<1>6. AnswerInv'
  BY DEF TypeOK, AnswerInv, ItemInv, RowInv, Unsent, Stored, Refusals, Errors
<1> QED
  BY <1>1, <1>2, <1>3, <1>4, <1>5, <1>6

(* The ORM object shows the row. *)
LEMMA RefreshInv ==
  ASSUME IInv, NEW r \in Requests, Refresh(r)
  PROVE  IInv'
<1> USE DEF IInv, Refresh, Goto, input, answer
<1>1. /\ PoolInv' /\ connections' \subseteq Requests
      /\ Cardinality(connections') <= PoolSize
  BY PoolStep
<1>2. TypeOK'
  BY <1>1 DEF TypeOK
<1>3. TenantInv'
  BY DEF TypeOK, TenantInv, Tenant, Asked
<1>4. ItemInv'
  BY DEF TypeOK, ItemInv, Wanted, Tenant, RowInv, Unsent, Stored
<1>5. RowInv'
  BY DEF TypeOK, RowInv, Unsent, Stored, ItemInv
<1>6. AnswerInv'
  BY DEF TypeOK, AnswerInv, ItemInv, RowInv, Unsent, Stored, Refusals, Errors
<1> QED
  BY <1>1, <1>2, <1>3, <1>4, <1>5, <1>6

(* The answer is sent. *)
LEMMA ReplyInv ==
  ASSUME IInv, NEW r \in Requests, Reply(r)
  PROVE  IInv'
<1> USE DEF IInv, Reply, Goto, input
<1>1. /\ PoolInv' /\ connections' \subseteq Requests
      /\ Cardinality(connections') <= PoolSize
  BY PoolStep
<1>2. TypeOK'
  BY <1>1 DEF TypeOK
<1>3. TenantInv'
  BY DEF TypeOK, TenantInv, Tenant, Asked
<1>4. ItemInv'
  BY DEF TypeOK, ItemInv, Wanted, Tenant, RowInv, Unsent, Stored
<1>5. RowInv'
  BY DEF TypeOK, RowInv, Unsent, Stored, ItemInv
<1>6. AnswerInv'
  BY DEF TypeOK, AnswerInv, ItemInv, RowInv, Unsent, Stored, Refusals, Errors
<1> QED
  BY <1>1, <1>2, <1>3, <1>4, <1>5, <1>6

(* The session is closed. *)
LEMMA LeaveInv ==
  ASSUME IInv, NEW r \in Requests, Leave(r)
  PROVE  IInv'
<1> USE DEF IInv, Leave, Over, Bound, Goto, input, answer
<1>1. /\ PoolInv' /\ connections' \subseteq Requests
      /\ Cardinality(connections') <= PoolSize
  BY PoolStep
<1>2. TypeOK'
  BY <1>1, ConstantsAssumption DEF TypeOK
<1>3. TenantInv'
  BY DEF TypeOK, TenantInv, Tenant, Asked
<1>4. ItemInv'
  BY DEF TypeOK, ItemInv, Wanted, Tenant, RowInv, Unsent, Stored
<1>5. RowInv'
  BY DEF TypeOK, RowInv, Unsent, Stored, ItemInv
<1>6. AnswerInv'
  BY DEF TypeOK, AnswerInv, ItemInv, RowInv, Unsent, Stored, Refusals, Errors
<1> QED
  BY <1>1, <1>2, <1>3, <1>4, <1>5, <1>6

(* An await ends in an error or in the timeout. *)
LEMMA FailInv ==
  ASSUME IInv, NEW r \in Requests, Fail(r)
  PROVE  IInv'
<1> USE DEF IInv, Fail, ErrorCodes, Over, Bound, Goto, input
<1>1. /\ PoolInv' /\ connections' \subseteq Requests
      /\ Cardinality(connections') <= PoolSize
  BY PoolStep
<1>2. TypeOK'
  BY <1>1, ConstantsAssumption DEF TypeOK, Errors
<1>3. TenantInv'
  BY DEF TypeOK, TenantInv, Tenant, Asked
<1>4. ItemInv'
  BY DEF TypeOK, ItemInv, Wanted, Tenant, RowInv, Unsent, Stored
<1>5. RowInv'
  BY DEF TypeOK, RowInv, Unsent, Stored, ItemInv
<1>6. AnswerInv'
  BY DEF TypeOK, AnswerInv, ItemInv, RowInv, Unsent, Stored, Refusals, Errors
<1> QED
  BY <1>1, <1>2, <1>3, <1>4, <1>5, <1>6

(* Every step preserves it. *)
LEMMA NextInv == IInv /\ [Next]_vars => IInv'
<1> SUFFICES ASSUME IInv, [Next]_vars PROVE IInv'
  OBVIOUS
<1>1. CASE UNCHANGED vars
  BY <1>1 DEF vars, IInv, TypeOK, PoolInv, TenantInv, ItemInv, RowInv,
     AnswerInv, Wanted, Tenant
<1>2. CASE Finished
  BY <1>1, <1>2 DEF Finished
<1>3. ASSUME NEW r \in Requests,
             \/ Submit(r) \/ Refuse(r) \/ CallEndpoint(r) \/ Checkout(r)
             \/ SendCommit(r) \/ CommitReturns(r) \/ Refresh(r) \/ Reply(r)
             \/ Leave(r) \/ Fail(r)
             \/ ServerCommits(r) \/ ServerRollsBack(r)
      PROVE  IInv'
  BY <1>3, SubmitInv, RefuseInv, CallEndpointInv, CheckoutInv, SendCommitInv,
     ServerCommitsInv, ServerRollsBackInv, CommitReturnsInv, RefreshInv,
     ReplyInv, LeaveInv, FailInv
<1> QED
  BY <1>1, <1>2, <1>3 DEF Next

(* The inductive invariant holds in every reachable state. *)
THEOREM Invariance == Spec => []IInv
BY InitInv, NextInv, PTL DEF Spec

(* Type correctness; in particular, the pool is never overdrawn. *)
THEOREM TypeCorrect == Spec => []TypeOK
<1>1. IInv => TypeOK
  BY DEF IInv
<1> QED
  BY <1>1, Invariance, PTL

-----------------------------------------------------------------------------
(* Refinement: the endpoint keeps the promises of the ledger. *)

(* What a client knows, read off its request. *)
LEMMA OutcomeIs ==
  ASSUME NEW r \in Requests
  PROVE  /\ pc[r] = "new" /\ status[r] = 0 => Outcome(r) = "none"
         /\ pc[r] # "new" /\ status[r] = 0 => Outcome(r) = "open"
         /\ pc[r] # "new" /\ status[r] = 201 => Outcome(r) = "created"
         /\ pc[r] # "new" /\ status[r] \in Refusals => Outcome(r) = "refused"
         /\ pc[r] # "new" /\ status[r] \in Errors => Outcome(r) = "doubt"
BY DEF Outcome, Refusals, Errors

(* The same of the next state. *)
LEMMA OutcomeBecomes ==
  ASSUME NEW r \in Requests
  PROVE  /\ pc'[r] # "new" /\ status'[r] = 0 => Outcome(r)' = "open"
         /\ pc'[r] # "new" /\ status'[r] = 201 => Outcome(r)' = "created"
         /\ pc'[r] # "new" /\ status'[r] \in Refusals
              => Outcome(r)' = "refused"
         /\ pc'[r] # "new" /\ status'[r] \in Errors => Outcome(r)' = "doubt"
BY DEF Outcome, Refusals, Errors

(* A step of one request shows nothing to the clients of the others. *)
LEMMA Others ==
  ASSUME IInv, NEW r \in Requests, UNCHANGED input,
         \A q \in Requests \ {r} : pc'[q] = pc[q] /\ status'[q] = status[q]
  PROVE  \A q \in Requests \ {r} :
           Wanted(q)' = Wanted(q) /\ Outcome(q)' = Outcome(q)
BY DEF Wanted, Tenant, Outcome, input

(* And what a client asked for stays what it asked for. *)
LEMMA SameWanted ==
  ASSUME NEW r \in Requests, UNCHANGED input, pc[r] # "new", pc'[r] # "new"
  PROVE  Wanted(r)' = Wanted(r)
BY DEF Wanted, Tenant, input

(* No attempt, no row. *)
LEMMA LedgerInit == Init => Ledger!Init
<1> SUFFICES ASSUME Init PROVE Ledger!Init
  OBVIOUS
<1>1. ASSUME NEW r \in Requests
      PROVE  Wanted(r) = NoRow /\ Outcome(r) = "none"
  BY OutcomeIs DEF Init, Wanted
<1> QED
  BY <1>1 DEF Init, Ledger!Init

(* The mapping of wanted and outcome when r's alone may change. *)
LEMMA Mapped ==
  ASSUME NEW r \in Requests,
         \A q \in Requests \ {r} :
           Wanted(q)' = Wanted(q) /\ Outcome(q)' = Outcome(q)
  PROVE  /\ [q \in Requests |-> Wanted(q)]'
               = [[q \in Requests |-> Wanted(q)] EXCEPT ![r] = Wanted(r)']
         /\ [q \in Requests |-> Outcome(q)]'
               = [[q \in Requests |-> Outcome(q)] EXCEPT ![r] = Outcome(r)']
         /\ Wanted(r)' = Wanted(r) =>
               [q \in Requests |-> Wanted(q)]'
                 = [q \in Requests |-> Wanted(q)]
         /\ Outcome(r)' = Outcome(r) =>
               [q \in Requests |-> Outcome(q)]'
                 = [q \in Requests |-> Outcome(q)]
OBVIOUS

(* Submit is Ask. *)
LEMMA SubmitAsks ==
  ASSUME IInv, NEW r \in Requests, Submit(r)
  PROVE  Ledger!Ask(r)
<1> USE DEF IInv, TypeOK, Submit, Goto, input, answer
<1>1. \A q \in Requests \ {r} : pc'[q] = pc[q] /\ status'[q] = status[q]
  OBVIOUS
<1>2. Outcome(r) = "none"
  BY OutcomeIs DEF AnswerInv
<1>3. pc'[r] # "new" /\ status'[r] = 0
  BY DEF AnswerInv
<1>4. Outcome(r)' = "open"
  BY <1>3, OutcomeBecomes
<1>5. /\ Wanted(r)' = [tenant |-> Tenant(r), price |-> body[r]]
      /\ Tenant(r) \in Tenants /\ body[r] \in Prices
  BY <1>3, WantedItem DEF Wanted, Tenant
<1>6. \E tenant \in Tenants, price \in Prices :
        [q \in Requests |-> Wanted(q)]'
          = [[q \in Requests |-> Wanted(q)]
               EXCEPT ![r] = [tenant |-> tenant, price |-> price]]
  <2>1. [q \in Requests |-> Wanted(q)]'
          = [[q \in Requests |-> Wanted(q)] EXCEPT ![r] = Wanted(r)']
    BY <1>1, Others, Mapped
  <2> QED
    BY <2>1, <1>5
<1>7. [q \in Requests |-> Outcome(q)]'
        = [[q \in Requests |-> Outcome(q)] EXCEPT ![r] = "open"]
  BY <1>1, <1>4, Others, Mapped
<1> QED
  BY <1>2, <1>6, <1>7 DEF Ledger!Ask

(* A refusal is one of the ledger: nothing is stored. *)
LEMMA RefuseRefuses ==
  ASSUME IInv, NEW r \in Requests, Refuse(r)
  PROVE  Ledger!Refuse(r)
<1> USE DEF IInv, TypeOK, Refuse, Over, Goto, input
<1>1. \A q \in Requests \ {r} : pc'[q] = pc[q] /\ status'[q] = status[q]
  OBVIOUS
<1>2. status[r] = 0 /\ items[r] = NoRow
  BY DEF AnswerInv, RowInv, Unsent
<1>3. Outcome(r) = "open"
  BY <1>2, OutcomeIs
<1>4. pc'[r] # "new" /\ status'[r] \in Refusals
  OBVIOUS
<1>5. Outcome(r)' = "refused"
  BY <1>4, OutcomeBecomes
<1>6. Wanted(r)' = Wanted(r)
  BY <1>4, SameWanted
<1> QED
  BY <1>1, <1>2, <1>3, <1>5, <1>6, Others, Mapped DEF Ledger!Refuse

(* An error leaves the client in doubt. *)
LEMMA FailDoubts ==
  ASSUME IInv, NEW r \in Requests, Fail(r)
  PROVE  Ledger!Doubt(r)
<1> USE DEF IInv, TypeOK, Fail, ErrorCodes, Over, Goto, input
<1>1. \A q \in Requests \ {r} : pc'[q] = pc[q] /\ status'[q] = status[q]
  OBVIOUS
<1>2. status[r] = 0
  BY DEF AnswerInv
<1>3. Outcome(r) = "open"
  BY <1>2, OutcomeIs
<1>4. pc'[r] # "new" /\ status'[r] \in Errors
  OBVIOUS
<1>5. Outcome(r)' = "doubt"
  BY <1>4, OutcomeBecomes
<1>6. Wanted(r)' = Wanted(r)
  BY <1>4, SameWanted
<1> QED
  BY <1>1, <1>3, <1>5, <1>6, Others, Mapped DEF Ledger!Doubt

(* The answer 201 shows the stored row. *)
LEMMA ReplyCreates ==
  ASSUME IInv, NEW r \in Requests, Reply(r)
  PROVE  Ledger!Create(r)
<1> USE DEF IInv, TypeOK, Reply, Goto, input
<1>1. \A q \in Requests \ {r} : pc'[q] = pc[q] /\ status'[q] = status[q]
  OBVIOUS
<1>2. status[r] = 0 /\ items[r] # NoRow /\ item[r] = items[r]
  BY DEF AnswerInv, RowInv, ItemInv, Stored
<1>3. Outcome(r) = "open"
  BY <1>2, OutcomeIs
<1>4. pc'[r] # "new" /\ status'[r] = 201
  OBVIOUS
<1>5. Outcome(r)' = "created"
  BY <1>4, OutcomeBecomes
<1>6. Wanted(r)' = Wanted(r)
  BY <1>4, SameWanted
<1> QED
  BY <1>1, <1>2, <1>3, <1>5, <1>6, Others, Mapped DEF Ledger!Create

(* The server's commit stores what was wanted, to the cent; its client still
   waits or is in doubt. *)
LEMMA ServerCommitStores ==
  ASSUME IInv, NEW r \in Requests, ServerCommits(r)
  PROVE  Ledger!Store(r)
<1> USE DEF IInv, TypeOK, ServerCommits, input, answer
<1>1. /\ pc[r] # "new" /\ items[r] = NoRow
      /\ item[r] = [tenant |-> Tenant(r), price |-> body[r]]
      /\ Wanted(r) = [tenant |-> Tenant(r), price |-> body[r]]
  BY DEF ItemInv, Wanted
<1>2. status[r] = 0 \/ status[r] \in Errors
  BY <1>1 DEF AnswerInv
<1>3. Outcome(r) \in {"open", "doubt"}
  BY <1>1, <1>2, OutcomeIs
<1>4. Cents(body[r]) \in Ledger!ToTheCent(body[r])
  BY CentsRound, ConstantsAssumption
<1>5. Wanted(r)' = Wanted(r) /\ Outcome(r)' = Outcome(r)
  BY DEF Wanted, Tenant, Outcome
<1>6. \A q \in Requests \ {r} : pc'[q] = pc[q] /\ status'[q] = status[q]
  OBVIOUS
<1>7. /\ [q \in Requests |-> Wanted(q)]' = [q \in Requests |-> Wanted(q)]
      /\ [q \in Requests |-> Outcome(q)]' = [q \in Requests |-> Outcome(q)]
  BY <1>5, <1>6, Others, Mapped
<1>8. items' = [items EXCEPT ![r] = [tenant |-> Wanted(r).tenant,
                                     price |-> Cents(body[r])]]
  BY <1>1
<1>9. Cents(body[r]) \in Ledger!ToTheCent(Wanted(r).price)
  BY <1>1, <1>4
<1>10. \E p \in Ledger!ToTheCent(Wanted(r).price) :
         items' = [items EXCEPT ![r] = [tenant |-> Wanted(r).tenant,
                                        price |-> p]]
  BY <1>8, <1>9
<1> QED
  BY <1>1, <1>3, <1>7, <1>10 DEF Ledger!Store

(* All other steps of a request stay between the client's question and its
   answer, or come after both. *)
LEMMA QuietSteps ==
  ASSUME IInv, NEW r \in Requests,
         \/ CallEndpoint(r) \/ Checkout(r) \/ SendCommit(r)
         \/ CommitReturns(r) \/ Refresh(r) \/ Leave(r) \/ ServerRollsBack(r)
  PROVE  UNCHANGED Ledger!vars
<1> USE DEF IInv, TypeOK, CallEndpoint, Checkout, SendCommit, CommitReturns,
            Refresh, Leave, ServerRollsBack, Over, Goto, input, answer
<1>1. \A q \in Requests \ {r} : pc'[q] = pc[q] /\ status'[q] = status[q]
  OBVIOUS
<1>2. /\ UNCHANGED <<items, status, shown, input>>
      /\ pc[r] = "new" <=> pc'[r] = "new"
  BY DEF ItemInv
<1>3. Wanted(r)' = Wanted(r) /\ Outcome(r)' = Outcome(r)
  BY <1>2 DEF Wanted, Tenant, Outcome
<1> QED
  BY <1>1, <1>2, <1>3, Others, Mapped DEF Ledger!vars

(* Every step of the endpoint is one of the ledger or changes nothing it
   knows of. *)
LEMMA StepImplements == IInv /\ [Next]_vars => [Ledger!Next]_(Ledger!vars)
<1> SUFFICES ASSUME IInv, [Next]_vars PROVE [Ledger!Next]_(Ledger!vars)
  OBVIOUS
<1>1. CASE UNCHANGED vars \/ Finished
  BY <1>1 DEF Finished, vars, Ledger!vars, Wanted, Tenant, Outcome
<1>2. ASSUME NEW r \in Requests,
             \/ Submit(r) \/ Refuse(r) \/ Reply(r) \/ Fail(r)
             \/ ServerCommits(r)
      PROVE  Ledger!Next
  BY <1>2, SubmitAsks, RefuseRefuses, ReplyCreates, FailDoubts,
     ServerCommitStores
  DEF Ledger!Next
<1>3. ASSUME NEW r \in Requests,
             \/ CallEndpoint(r) \/ Checkout(r) \/ SendCommit(r)
             \/ CommitReturns(r) \/ Refresh(r) \/ Leave(r)
             \/ ServerRollsBack(r)
      PROVE  UNCHANGED Ledger!vars
  BY <1>3, QuietSteps
<1> QED
  BY <1>1, <1>2, <1>3 DEF Next

(* The endpoint implements the ledger: a 201 shows what is stored, nothing
   is stored for a refusal, then or later. *)
THEOREM Refinement == Spec => ImplementsLedger
BY LedgerInit, StepImplements, Invariance, PTL
   DEF Spec, Ledger!Spec, ImplementsLedger

-----------------------------------------------------------------------------
(* What follows from the ledger, whatever the endpoint does inside. *)

(* What a client may conclude from the answer: a refusal left nothing; a 201
   showed the row as it is; and a row that is there, whoever was told what,
   is of the client's own tenant and at its price to the cent. *)
AnswersTell ==
  \A r \in Requests :
    /\ Outcome(r) \in {"none", "refused"} => items[r] = NoRow
    /\ Outcome(r) = "created" => items[r] # NoRow /\ shown[r] = items[r]
    /\ items[r] # NoRow =>
         /\ items[r].tenant = Wanted(r).tenant
         /\ items[r].price \in Ledger!ToTheCent(Wanted(r).price)

RowsHaveShape == DOMAIN items = Requests /\ DOMAIN shown = Requests

(* Each step of the ledger keeps the answers true: only Store touches a row,
   and only one that nobody was told about. *)
LEMMA LedgerTells ==
  ASSUME RowsHaveShape, AnswersTell, [Ledger!Next]_(Ledger!vars)
  PROVE  AnswersTell'
<1> DEFINE Told(r) ==
             /\ Outcome(r) \in {"none", "refused"} => items[r] = NoRow
             /\ Outcome(r) = "created" => items[r] # NoRow /\ shown[r] = items[r]
             /\ items[r] # NoRow =>
                  /\ items[r].tenant = Wanted(r).tenant
                  /\ items[r].price \in Ledger!ToTheCent(Wanted(r).price)
<1>1. ASSUME NEW r \in Requests, Told(r),
             Outcome(r)' = Outcome(r), Wanted(r)' = Wanted(r),
             items'[r] = items[r], shown'[r] = shown[r]
      PROVE  Told(r)'
  BY <1>1 DEF Ledger!ToTheCent
<1>2. \A r \in Requests : Told(r)
  BY DEF AnswersTell
<1>3. SUFFICES \A r \in Requests : Told(r)'
  BY DEF AnswersTell
<1>4. ASSUME NEW q \in Requests, Ledger!Ask(q), NEW r \in Requests
      PROVE  Told(r)'
  <2>1. /\ items' = items /\ shown' = shown
        /\ Outcome(q) = "none" /\ Outcome(q)' = "open"
        /\ r # q => Outcome(r)' = Outcome(r) /\ Wanted(r)' = Wanted(r)
    BY <1>4 DEF Ledger!Ask
  <2>2. CASE r = q
    BY <1>2, <2>1, <2>2
  <2>3. CASE r # q
    BY <1>1, <1>2, <2>1, <2>3
  <2> QED
    BY <2>2, <2>3
<1>5. ASSUME NEW q \in Requests, Ledger!Store(q), NEW r \in Requests
      PROVE  Told(r)'
  <2>1. /\ shown' = shown /\ Outcome(q) \in {"open", "doubt"}
        /\ Outcome(r)' = Outcome(r) /\ Wanted(r)' = Wanted(r)
    BY <1>5 DEF Ledger!Store
  <2>2. PICK p \in Ledger!ToTheCent(Wanted(q).price) :
          items' = [items EXCEPT ![q] = [tenant |-> Wanted(q).tenant,
                                         price |-> p]]
    BY <1>5 DEF Ledger!Store
  <2>3. CASE r = q
    <3>1. items'[r].tenant = Wanted(q).tenant /\ items'[r].price = p
      BY <2>2, <2>3 DEF RowsHaveShape
    <3>2. items'[r].price \in Ledger!ToTheCent(Wanted(r).price)'
      BY <2>1, <2>2, <2>3, <3>1 DEF Ledger!ToTheCent
    <3> QED
      BY <2>1, <2>3, <3>1, <3>2
  <2>4. CASE r # q
    BY <1>1, <1>2, <2>1, <2>2, <2>4
  <2> QED
    BY <2>3, <2>4
<1>6. ASSUME NEW q \in Requests, Ledger!Create(q), NEW r \in Requests
      PROVE  Told(r)'
  <2>1. /\ items' = items /\ Wanted(r)' = Wanted(r)
        /\ items[q] # NoRow /\ Outcome(q)' = "created"
        /\ shown' = [shown EXCEPT ![q] = items[q]]
        /\ r # q => Outcome(r)' = Outcome(r)
    BY <1>6 DEF Ledger!Create
  <2>2. CASE r = q
    BY <1>2, <2>1, <2>2 DEF RowsHaveShape, Ledger!ToTheCent
  <2>3. CASE r # q
    BY <1>1, <1>2, <2>1, <2>3
  <2> QED
    BY <2>2, <2>3
<1>7. ASSUME NEW q \in Requests, Ledger!Refuse(q) \/ Ledger!Doubt(q),
             NEW r \in Requests
      PROVE  Told(r)'
  <2>1. /\ items' = items /\ shown' = shown /\ Wanted(r)' = Wanted(r)
        /\ \/ Outcome(q)' = "refused" /\ items[q] = NoRow
           \/ Outcome(q)' = "doubt"
        /\ r # q => Outcome(r)' = Outcome(r)
    BY <1>7 DEF Ledger!Refuse, Ledger!Doubt
  <2>2. CASE r = q
    BY <1>2, <2>1, <2>2 DEF Ledger!ToTheCent
  <2>3. CASE r # q
    BY <1>1, <1>2, <2>1, <2>3
  <2> QED
    BY <2>2, <2>3
<1>8. ASSUME UNCHANGED Ledger!vars, NEW r \in Requests PROVE Told(r)'
  <2>1. /\ items' = items /\ shown' = shown
        /\ Outcome(r)' = Outcome(r) /\ Wanted(r)' = Wanted(r)
    BY <1>8 DEF Ledger!vars
  <2> QED
    BY <1>1, <1>2, <2>1
<1> QED
  BY <1>4, <1>5, <1>6, <1>7, <1>8 DEF Ledger!Next

(* The endpoint inherits the ledger's promises: what a client is told of its
   POST is true then and for ever, however requests, timeouts and commits
   that arrive after all interleave. *)
THEOREM ClientsAreToldTheTruth == Spec => []AnswersTell
<1>1. IInv => RowsHaveShape
  BY DEF IInv, TypeOK, RowsHaveShape
<1>2. Init => AnswersTell
  BY DEF Init, AnswersTell, Outcome
<1>3. RowsHaveShape /\ AnswersTell /\ [Ledger!Next]_(Ledger!vars) => AnswersTell'
  BY LedgerTells
<1> QED
  BY <1>1, <1>2, <1>3, Invariance, Refinement, PTL
     DEF Spec, ImplementsLedger, Ledger!Spec

(* An item once stored is never changed by another request, a retry or a
   late commit. *)
RowsAreFinal ==
  [][\A r \in Requests : items[r] # NoRow => items'[r] = items[r]]_vars

(* The rows of the ledger are written once. *)
THEOREM StoredOnce == Spec => RowsAreFinal
<1>1. RowsHaveShape /\ [Ledger!Next]_(Ledger!vars) =>
        [\A r \in Requests : items[r] # NoRow => items'[r] = items[r]]_vars
  BY DEF RowsHaveShape, Ledger!Next, Ledger!Ask, Ledger!Store, Ledger!Create,
         Ledger!Refuse, Ledger!Doubt, Ledger!vars
<1>2. IInv => RowsHaveShape
  BY DEF IInv, TypeOK, RowsHaveShape
<1> QED
  BY <1>1, <1>2, Invariance, Refinement, PTL
     DEF ImplementsLedger, Ledger!Spec, RowsAreFinal

-----------------------------------------------------------------------------

(* A request that waits for a connection of the pool holds none. *)
WaitersHoldNone ==
  \A r \in Requests : pc[r] \in {"flush", "refresh"} => r \notin connections

(* Requests for the pool form no circle, however small it is: a connection is
   held between its checkout and the end of the transaction only, or after
   the SELECT until the end of the request. *)
THEOREM PoolHasNoCircle == Spec => []WaitersHoldNone
<1> DEFINE Holders ==
      \A r \in connections :
        r \in Requests /\ pc[r] \in {"insert", "commit", "select", "reply", "leave"}
<1>1. Init => Holders
  BY DEF Init
<1>2. IInv /\ Holders /\ [Next]_vars => Holders'
  <2> SUFFICES ASSUME IInv, Holders, [Next]_vars PROVE Holders'
    OBVIOUS
  <2>1. pc \in [Requests -> {"new", "dependencies", "flush", "insert",
                             "commit", "refresh", "select", "reply", "leave",
                             "done"}]
    BY DEF IInv, TypeOK
  <2>2. ASSUME NEW r \in Requests, Submit(r) \/ CallEndpoint(r)
        PROVE  Holders'
    BY <2>1, <2>2 DEF Submit, CallEndpoint, Goto
  <2>3. ASSUME NEW r \in Requests, Checkout(r) PROVE Holders'
    BY <2>1, <2>3 DEF Checkout, Goto
  <2>4. ASSUME NEW r \in Requests, SendCommit(r) PROVE Holders'
    BY <2>1, <2>4 DEF SendCommit, Goto
  <2>5. ASSUME NEW r \in Requests, CommitReturns(r) PROVE Holders'
    BY <2>1, <2>5 DEF CommitReturns, Returned, Goto
  <2>6. ASSUME NEW r \in Requests, Refresh(r) \/ Reply(r) PROVE Holders'
    BY <2>1, <2>6 DEF Refresh, Reply, Goto
  <2>7. ASSUME NEW r \in Requests, Refuse(r) \/ Leave(r) \/ Fail(r)
        PROVE  Holders'
    BY <2>1, <2>7 DEF Refuse, Leave, Fail, Over, Goto
  <2>8. ASSUME NEW r \in Requests, ServerCommits(r) \/ ServerRollsBack(r)
        PROVE  Holders'
    BY <2>8 DEF ServerCommits, ServerRollsBack
  <2>9. ASSUME UNCHANGED vars PROVE Holders'
    BY <2>9 DEF vars
  <2> QED
    BY <2>2, <2>3, <2>4, <2>5, <2>6, <2>7, <2>8, <2>9 DEF Next, Finished
<1>3. Holders => WaitersHoldNone
  BY DEF WaitersHoldNone
<1> QED
  BY <1>1, <1>2, <1>3, Invariance, PTL DEF Spec
=============================================================================
