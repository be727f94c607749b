---------------------------- MODULE MCMigrations ----------------------------
(* Instances of Migrations for TLC. *)
EXTENDS Migrations

(* Each run ends before the next one starts, as for one who follows the steps
   of the documentation. *)
TakingTurns == \A q, r \in Runners : Running(q) /\ Running(r) => q = r

TurnsSpec == Init /\ [][Next /\ TakingTurns']_vars
=============================================================================
