-------------------------- MODULE MC_Cancellations --------------------------
(* Two turns: a request with its correlation id, and the resumption of a run *)
(* of its own.                                                               *)
EXTENDS Cancellations

CONSTANTS fresh, again, c, r1, r2

MCCorrelation == [t \in Turns |-> IF t = fresh THEN c ELSE NoId]
MCRunId == [t \in Turns |-> IF t = fresh THEN r1 ELSE r2]
=============================================================================
