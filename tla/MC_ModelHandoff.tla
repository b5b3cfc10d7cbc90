-------------------------- MODULE MC_ModelHandoff --------------------------
(***************************************************************************)
(* An agent on one of two models: a move of its run, the same act asked    *)
(* again from the agent's screen beside it, and somebody closing the row.  *)
(***************************************************************************)
EXTENDS ModelHandoff

CONSTANTS there, again, closing, source, target

MCTarget == [move \in Moves |-> target]
=============================================================================
