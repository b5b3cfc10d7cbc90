-------------------------- MODULE MC_RunRecovery --------------------------
(* One run with one side effect, or none. *)
EXTENDS RunRecovery

CONSTANT k1
=============================================================================
