------------------------------ MODULE MCRadix -------------------------------
(***************************************************************************)
(* Tries of up to three keys; arrays that start with room for one edge and  *)
(* two nodes, so that they grow several times.                              *)
(***************************************************************************)
EXTENDS Radix
=============================================================================
