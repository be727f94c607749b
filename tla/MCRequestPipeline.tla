------------------------- MODULE MCRequestPipeline -------------------------
(***************************************************************************)
(* RequestPipeline on small instances: a limit that takes three messages   *)
(* to exceed.                                                              *)
(***************************************************************************)
EXTENDS RequestPipeline
=============================================================================
