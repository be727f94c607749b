------------------------------- MODULE MCItems -------------------------------
(* Instances of Items for TLC.  Prices in tenths of a cent: 0.004 rounds to
   nothing, 9.994 down, 9.996 up, and 99.996 beyond the column. *)
EXTENDS Items

MCPrices == {4, 9994, 9996, 99996}
=============================================================================
