----------------------------- MODULE MCSandbox ------------------------------
(***************************************************************************)
(* All four orchestrators; a group of two that write to each other.        *)
(***************************************************************************)
EXTENDS Sandbox

Ring == {<<1, 2>>, <<2, 1>>}
=============================================================================
