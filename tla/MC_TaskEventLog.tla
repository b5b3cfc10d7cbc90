-------------------------- MODULE MC_TaskEventLog --------------------------
(* Two writers of one process and one of another, recording against one run. *)
EXTENDS TaskEventLog, TLC

CONSTANTS w1, w2, w3, p1, p2

MCHostOf == w1 :> p1 @@ w2 :> p1 @@ w3 :> p2

\* The loop's own events, the check at the end, and a person pressing Stop.
MCFreshTypes == {"run_routed", "tool_authorized", "verification_started",
                 "run_cancelled"}

MCKeyedEvents == {[type |-> "recovery_started",    about |-> "recovery"],
                  [type |-> "tool_effect_unknown", about |-> "key"],
                  [type |-> "run_completed",       about |-> "ending"]}
=============================================================================
