---------------------------- MODULE MC_RunLease ----------------------------
(* Two drivers in one process, one in another, and one more in a third. *)
EXTENDS RunLease, TLC

CONSTANTS d1, d2, d3, d4, p1, p2, p3

MCHostOf == d1 :> p1 @@ d2 :> p1 @@ d3 :> p2 @@ d4 :> p3
=============================================================================
