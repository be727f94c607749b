-------------------------- MODULE MCRefreshTokens --------------------------
(***************************************************************************)
(* RefreshTokens on small instances.                                       *)
(***************************************************************************)
EXTENDS RefreshTokens

(* A token is named after the request that generates it. *)
NamedAfterRequest == [r \in Requests |-> r]
=============================================================================
