---------------------------- MODULE RefreshChain ----------------------------
(***************************************************************************)
(* What the refresh-token endpoints promise, whatever the number of        *)
(* workers, the interleaving of their transactions and the failures in     *)
(* between: every login opens one chain of refresh tokens, a chain has at  *)
(* most one live token, and a rotation replaces it in one indivisible      *)
(* step.  RefreshTokens is the detailed specification that implements it.  *)
(***************************************************************************)
EXTENDS FiniteSets

CONSTANTS Users,   \* rows of the users table
          Tokens,  \* refresh tokens that may ever be generated
          Logins   \* identities of password grants

VARIABLES holder,    \* the set with the user t was issued to, or {}
          live,      \* issued and not revoked
          logins,    \* password grants that issued a token
          disabled   \* users whose account was deactivated

vars == <<holder, live, logins, disabled>>

Issued == {t \in Tokens : holder[t] # {}}

Init ==
  /\ holder = [t \in Tokens |-> {}]
  /\ live = {}
  /\ logins = {}
  /\ disabled = {}

-----------------------------------------------------------------------------

(* A password grant opens a chain with a token nobody has seen before. *)
Grant(l, u, t) ==
  /\ l \notin logins
  /\ t \notin Issued
  /\ holder' = [holder EXCEPT ![t] = {u}]
  /\ live' = live \cup {t}
  /\ logins' = logins \cup {l}
  /\ UNCHANGED disabled

(* A rotation spends the live token and issues its successor to the same   *)
(* user, both at once.                                                     *)
Rotate(t, s) ==
  /\ t \in live
  /\ s \notin Issued
  /\ holder' = [holder EXCEPT ![s] = holder[t]]
  /\ live' = (live \ {t}) \cup {s}
  /\ UNCHANGED <<logins, disabled>>

(* A logout, or a rotation refused because the account is disabled, ends   *)
(* the chain.                                                              *)
Retire(t) ==
  /\ t \in live
  /\ live' = live \ {t}
  /\ UNCHANGED <<holder, logins, disabled>>

Disable(u) ==
  /\ disabled' = disabled \cup {u}
  /\ UNCHANGED <<holder, live, logins>>

Next ==
  \/ \E l \in Logins, u \in Users, t \in Tokens : Grant(l, u, t)
  \/ \E t, s \in Tokens : Rotate(t, s)
  \/ \E t \in Tokens : Retire(t)
  \/ \E u \in Users : Disable(u)

Spec == Init /\ [][Next]_vars
=============================================================================
