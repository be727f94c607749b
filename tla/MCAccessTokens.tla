--------------------------- MODULE MCAccessTokens ---------------------------
(* Instances of AccessTokens for TLC. *)
EXTENDS AccessTokens, TLC

CONSTANTS w1, w2, old, new

MCWorkers == {w1, w2}
MCSkew == (w1 :> 0) @@ (w2 :> 1)

(* The old secret signs, the new one is announced; they change places; the
   old one is dropped. *)
MCRotation ==
  << [sign |-> old, also |-> {new}],
     [sign |-> new, also |-> {old}],
     [sign |-> new, also |-> {}] >>
=============================================================================
