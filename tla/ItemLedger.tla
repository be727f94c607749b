----------------------------- MODULE ItemLedger -----------------------------
(***************************************************************************)
(* What POST /api/v1/items promises a client, whatever happens in between: *)
(* an attempt stores at most one item, of the tenant the client named and  *)
(* at the price it asked, to the cent; 201 shows the stored item; a        *)
(* refusal stores nothing, then or later; any other end leaves the client  *)
(* in doubt.                                                               *)
(***************************************************************************)
EXTENDS Integers

CONSTANTS Requests, Tenants, Prices, NoRow

VARIABLES
  wanted,   \* the tenant and price each attempt stands for
  outcome,  \* what the client knows of it
  row,      \* the stored item of each attempt
  shown     \* the item its 201 showed

vars == <<wanted, outcome, row, shown>>

(* Prices are in tenths of a cent. *)
ToTheCent(price) == {p \in price - 5 .. price + 5 : p % 10 = 0}

Init ==
  /\ wanted = [r \in Requests |-> NoRow]
  /\ outcome = [r \in Requests |-> "none"]
  /\ row = [r \in Requests |-> NoRow]
  /\ shown = [r \in Requests |-> NoRow]

Ask(r) ==
  /\ outcome[r] = "none"
  /\ \E tenant \in Tenants, price \in Prices :
       wanted' = [wanted EXCEPT ![r] = [tenant |-> tenant, price |-> price]]
  /\ outcome' = [outcome EXCEPT ![r] = "open"]
  /\ UNCHANGED <<row, shown>>

(* Also after the client has given up on the attempt. *)
Store(r) ==
  /\ outcome[r] \in {"open", "doubt"}
  /\ row[r] = NoRow
  /\ \E p \in ToTheCent(wanted[r].price) :
       row' = [row EXCEPT ![r] = [tenant |-> wanted[r].tenant, price |-> p]]
  /\ UNCHANGED <<wanted, outcome, shown>>

Create(r) ==
  /\ outcome[r] = "open"
  /\ row[r] # NoRow
  /\ outcome' = [outcome EXCEPT ![r] = "created"]
  /\ shown' = [shown EXCEPT ![r] = row[r]]
  /\ UNCHANGED <<wanted, row>>

Refuse(r) ==
  /\ outcome[r] = "open"
  /\ row[r] = NoRow
  /\ outcome' = [outcome EXCEPT ![r] = "refused"]
  /\ UNCHANGED <<wanted, row, shown>>

Doubt(r) ==
  /\ outcome[r] = "open"
  /\ outcome' = [outcome EXCEPT ![r] = "doubt"]
  /\ UNCHANGED <<wanted, row, shown>>

Next ==
  \E r \in Requests : Ask(r) \/ Store(r) \/ Create(r) \/ Refuse(r) \/ Doubt(r)

Spec == Init /\ [][Next]_vars
=============================================================================
