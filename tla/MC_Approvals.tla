---------------------------- MODULE MC_Approvals ----------------------------
(* A run in a conversation and two calls of one tool, the second what a      *)
(* resumption makes of the first.                                          *)
EXTENDS Approvals

CONSTANTS a, b, r1, t1, p1, write

MCRunOf == [x \in Calls |-> r1]
MCEarlier == [x \in Calls |-> IF x = b THEN a ELSE Nothing]
MCThread == [r \in Runs |-> t1]
MCTool == [x \in Calls |-> write]
=============================================================================
