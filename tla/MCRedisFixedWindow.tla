------------------------- MODULE MCRedisFixedWindow -------------------------
(***************************************************************************)
(* RedisFixedWindow on small instances.                                    *)
(***************************************************************************)
EXTENDS RedisFixedWindow, TLC

CONSTANTS i1, i2

(* One instance runs half a second ahead of the other. *)
OneAhead == (i1 :> 0) @@ (i2 :> 1)

Symmetry == Permutations(Requests)
=============================================================================
