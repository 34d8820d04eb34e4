------------------------------- MODULE MCHub --------------------------------
(***************************************************************************)
(* A small instance of Hub: two connections with send channels of one      *)
(* board, so that slow clients are evicted.                                *)
(***************************************************************************)
EXTENDS Hub

CONSTANTS c1, c2

TwoConns == {c1, c2}
=============================================================================
