---------------------------- MODULE MCCommissions ----------------------------
(***************************************************************************)
(* A small instance of Commissions for TLC: p1 alone is below the floor,   *)
(* p1 and p2 together reach it, p3 does alone.                             *)
(***************************************************************************)
EXTENDS Commissions, TLC

CONSTANTS p1, p2, p3

MCAmountOf == (p1 :> 20) @@ (p2 :> 10) @@ (p3 :> 30)
=============================================================================
