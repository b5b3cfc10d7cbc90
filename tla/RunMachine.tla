----------------------------- MODULE RunMachine -----------------------------
(***************************************************************************)
(* The run state machine: which state each event type moves a run to, and  *)
(* which moves are legal.  A constant-level translation of                 *)
(* agent_runtime/events/machine.rs, plus the list of endings the event log *)
(* keeps for itself in agent_runtime/events/store.rs.                      *)
(*                                                                         *)
(* Event types and states are named by their database spellings.           *)
(***************************************************************************)
EXTENDS Integers

WorkingStates == {"running", "awaiting_approval", "executing_tool",
                  "tool_result_recorded", "compacting", "recovering",
                  "waiting_for_external_event", "paused"}

TerminalStates == {"completed", "cancelled", "failed", "stopped_by_budget",
                   "stopped_by_length", "stopped_by_policy",
                   "degraded_needs_human"}

RunStates == {"created", "classified", "routed", "planned", "verifying"}
                \cup WorkingStates \cup TerminalStates

IsTerminal(state) == state \in TerminalStates

\* How far through the run a state is.  The working states share one rank and
\* so do the endings.
Rank(state) ==
  CASE state = "created"       -> 0
    [] state = "classified"    -> 1
    [] state = "routed"        -> 2
    [] state = "planned"       -> 3
    [] state \in WorkingStates -> 4
    [] state = "verifying"     -> 5
    [] OTHER                   -> 6

\* The state each moving event names.  Every other event type "stays".
MovesTo ==
  [run_created            |-> "created",
   run_classified         |-> "classified",
   run_routed             |-> "routed",
   plan_ready             |-> "planned",
   run_started            |-> "running",
   approval_requested     |-> "awaiting_approval",
   approval_decided       |-> "running",
   tool_authorized        |-> "executing_tool",
   tool_succeeded         |-> "tool_result_recorded",
   tool_failed            |-> "tool_result_recorded",
   tool_replayed          |-> "tool_result_recorded",
   tool_refused           |-> "running",
   verification_started   |-> "verifying",
   compaction_started     |-> "compacting",
   wait_started           |-> "waiting_for_external_event",
   recovery_started       |-> "recovering",
   run_paused             |-> "paused",
   recovery_failed        |-> "degraded_needs_human",
   run_completed          |-> "completed",
   run_cancelled          |-> "cancelled",
   run_failed             |-> "failed",
   run_stopped_by_budget  |-> "stopped_by_budget",
   run_timed_out          |-> "stopped_by_budget",
   run_stopped_by_length  |-> "stopped_by_length",
   run_stopped_by_policy  |-> "stopped_by_policy",
   run_degraded           |-> "degraded_needs_human",
   run_interrupted        |-> "degraded_needs_human"]

\* "That phase is over, carry on": these move a run only out of the state
\* whose phase they end, and stay everywhere else.
PhaseEnds == [context_compacted |-> "compacting",
              wait_completed    |-> "waiting_for_external_event",
              run_resumed       |-> "paused"]

\* The endings the store refuses to append past.
TerminalTypes == {"run_completed", "run_failed", "run_cancelled",
                  "run_stopped_by_budget", "run_stopped_by_length",
                  "run_stopped_by_policy", "run_degraded",
                  "run_timed_out", "run_interrupted"}

-----------------------------------------------------------------------------
(* advance(): what folding one event onto a state comes to, as             *)
(* [legal, to].  An illegal event is kept in the history and moves nothing.*)

To(state)      == [legal |-> TRUE,  to |-> state]
Illegal(state) == [legal |-> FALSE, to |-> state]

Advance(current, type) ==
  CASE type = "tool_effect_reconciled" -> To(current)
    [] type # "tool_effect_reconciled" /\ IsTerminal(current) -> Illegal(current)
    [] OTHER ->
         IF type \in DOMAIN PhaseEnds
         THEN To(IF PhaseEnds[type] = current THEN "running" ELSE current)
         ELSE IF type \notin DOMAIN MovesTo
         THEN To(current)
         ELSE IF \/ IsTerminal(MovesTo[type])
                 \/ Rank(MovesTo[type]) >= Rank(current)
              THEN To(MovesTo[type])
              ELSE Illegal(current)
=============================================================================
