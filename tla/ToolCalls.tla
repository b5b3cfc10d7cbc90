----------------------------- MODULE ToolCalls -----------------------------
(***************************************************************************)
(* What stands between a model asking for a tool and the tool running:     *)
(* tool.authorize and tool.execute (agent_runtime/mod.rs), the step budget *)
(* they draw on (orchestrator/plan.rs), the single-use grants that join    *)
(* them (agent_runtime/grants.rs), and the loop that sends them (tools.ts  *)
(* over the vendored agent-loop.ts).  One run.                             *)
(*                                                                         *)
(* The two requests of a call are handled by tasks that interleave with    *)
(* those of every other call.  A slot in the budget is taken when a call   *)
(* is authorised and spent when its tool has finished; a grant is issued   *)
(* at the end of the first request and redeemed at the start of the        *)
(* second.  The loop may drop a call it was granted, and stops waiting for *)
(* a tool that takes too long; the tool is then left running.              *)
(***************************************************************************)
EXTENDS Integers, FiniteSets

CONSTANTS
  Calls,       \* tool-call ids the model may use
  ReadOnly,    \* the calls of tools that change nothing
  Owing,       \* the calls of tools the plan owes (with_owed_tools)
  Checking,    \* the calls of validate_artifact, exempt from the hold
  Signature,       \* a call's tool and arguments, what repeats are counted by
  ToolOf,      \* a call's tool
  MaxSteps,    \* Budget.max_steps
  Hold,        \* DELIVERABLE_RESERVE.min(max_steps - 1)
  RepeatLimit, \* Budget.repeat_limit
  GrantTTL,    \* GRANT_TTL, 60 seconds in the code
  LeaseTTL,    \* LEASE_TTL, five minutes in the code
  MaxDuration, \* Budget.max_duration
  MaxNow       \* bound: the clock

ASSUME CallsAssumption ==
  /\ IsFiniteSet(Calls)
  /\ ReadOnly \subseteq Calls
  /\ Owing \subseteq Calls
  /\ Checking \subseteq Calls

ASSUME BudgetAssumption ==
  /\ MaxSteps \in Nat
  /\ Hold \in 0..MaxSteps
  /\ RepeatLimit \in Nat

ASSUME TimeAssumption ==
  /\ GrantTTL \in Nat
  /\ LeaseTTL \in Nat
  /\ GrantTTL < LeaseTTL
  /\ MaxDuration \in Nat
  /\ MaxNow \in Nat

VARIABLES
  now,        \* the monotonic clock
  turn,       \* the calls of the loop's current turn it has no result for
  pc,         \* how far the core has got with each call
  lease,      \* when a call took the slot it holds, or None
  taken,      \* steps spent
  owed,       \* tools the plan still owes
  seen,       \* how often each signature was let through to the repeat check
  stopped,    \* why the plan halted, or "no"
  grant,      \* when a call's unredeemed grant was issued, or None
  ended,      \* an ending is on record for the run
  registered, \* the run's plan is in the table
  charged     \* history: the calls that spent a step

planVars == <<lease, taken, owed, seen, stopped, charged>>
runVars == <<ended, registered>>
vars == <<now, turn, pc, lease, taken, owed, seen, stopped, grant, ended,
          registered, charged>>

None == -1
Stages == {"unasked", "asked", "checked", "judged", "granted", "sent",
           "admitted", "running", "refused", "done"}
Halts == {"time", "steps", "looping"}
Tools == {ToolOf[c] : c \in Calls}
Signatures == {Signature[c] : c \in Calls}

Init ==
  /\ now = 0
  /\ turn = {}
  /\ pc = [c \in Calls |-> "unasked"]
  /\ lease = [c \in Calls |-> None]
  /\ taken = 0
  /\ owed = {ToolOf[c] : c \in Owing}
  /\ seen = [p \in Signatures |-> 0]
  /\ stopped = "no"
  /\ grant = [c \in Calls |-> None]
  /\ ended = FALSE
  /\ registered = TRUE
  /\ charged = {}

Move(c, to) == pc' = [pc EXCEPT ![c] = to]

-----------------------------------------------------------------------------
\* The plan

Held(l) == {c \in Calls : l[c] # None}

\* Mutant: slots are reclaimed as soon as a grant would lapse.
ReclaimedEarly(l) ==
  [c \in Calls |-> IF l[c] # None /\ now - l[c] < GrantTTL THEN l[c] ELSE None]

\* Slots held for LeaseTTL or longer are dropped before anything is judged.
Reclaimed(l) ==
  [c \in Calls |-> IF l[c] # None /\ now - l[c] < LeaseTTL THEN l[c] ELSE None]

Committed(l) == taken + Cardinality(Held(l))

\* Mutant: the hold is compared with what is spent, not with what is committed.
HeldBackBySpending(c, l) ==
  /\ owed # {}
  /\ ToolOf[c] \notin owed
  /\ c \notin Checking
  /\ taken + Hold >= MaxSteps

\* The end of the budget is for what the plan owes.
HeldBack(c, l) ==
  /\ owed # {}
  /\ ToolOf[c] \notin owed
  /\ c \notin Checking
  /\ Committed(l) + Hold >= MaxSteps

\* The answers of admits() in the order it looks for them.  "in_flight" and
\* "held" refuse the call; those in Halts end the plan.  A tool outside the
\* plan has been refused before this is asked.
Admits(c, l) ==
  IF stopped # "no" THEN stopped
  ELSE IF now >= MaxDuration THEN "time"
  ELSE IF taken >= MaxSteps THEN "steps"
  ELSE IF Committed(l) >= MaxSteps THEN "in_flight"
  ELSE IF HeldBack(c, l) THEN "held"
  ELSE IF seen[Signature[c]] >= RepeatLimit THEN "looping"
  ELSE "proceed"

Halt(answer) == stopped' = IF answer \in Halts THEN answer ELSE stopped

\* A call that holds a slot already keeps it, with its time brought forward;
\* any other is judged and, if admitted, takes one.
Reserve(c) ==
  LET l == Reclaimed(lease)
      answer == IF l[c] # None THEN "proceed" ELSE Admits(c, l)
      counted == /\ l[c] = None
                 /\ stopped = "no"
                 /\ answer \in {"proceed", "looping"}
  IN /\ lease' = IF answer = "proceed" THEN [l EXCEPT ![c] = now] ELSE l
     /\ seen' = IF counted THEN [seen EXCEPT ![Signature[c]] = @ + 1] ELSE seen
     /\ Halt(answer)
     /\ Move(c, IF answer = "proceed" THEN "judged" ELSE "refused")

Release(c) ==
  lease' = IF registered THEN [lease EXCEPT ![c] = None] ELSE lease

\* record_step: a slot becomes a spent step, and an owed tool that succeeded
\* is no longer owed.  A call without a slot is not charged.
Settle(c, succeeded) ==
  IF registered /\ lease[c] # None
  THEN /\ taken' = taken + 1
       /\ lease' = [lease EXCEPT ![c] = None]
       /\ charged' = charged \cup {c}
       /\ owed' = IF succeeded THEN owed \ {ToolOf[c]} ELSE owed
       /\ UNCHANGED <<seen, stopped>>
  ELSE UNCHANGED planVars

-----------------------------------------------------------------------------
\* The loop

\* The model asks for calls: reads together, anything else on its own.
Turn(batch) ==
  /\ turn = {}
  /\ registered
  /\ \A c \in batch : pc[c] = "unasked"
  /\ batch \subseteq ReadOnly \/ Cardinality(batch) = 1
  /\ turn' = batch
  /\ UNCHANGED <<now, pc, grant, planVars, runVars>>

\* One authorisation at a time.
Ask(c) ==
  /\ c \in turn
  /\ pc[c] = "unasked"
  /\ \A d \in turn : pc[d] \notin {"asked", "checked", "judged"}
  /\ Move(c, "asked")
  /\ UNCHANGED <<now, turn, grant, planVars, runVars>>

\* The calls of a turn start once each has its answer.
Send(c) ==
  /\ c \in turn
  /\ pc[c] = "granted"
  /\ \A d \in turn : pc[d] \notin {"unasked", "asked", "checked", "judged"}
  /\ Move(c, "sent")
  /\ UNCHANGED <<now, turn, grant, planVars, runVars>>

\* The person's next message, or Stop, outranks calls that have not started.
Drop ==
  /\ turn # {}
  /\ \A c \in turn : pc[c] \in {"unasked", "granted", "refused"}
  /\ turn' = {}
  /\ UNCHANGED <<now, pc, grant, planVars, runVars>>

Hear(c) ==
  /\ c \in turn
  /\ pc[c] \in {"refused", "done"}
  /\ turn' = turn \ {c}
  /\ UNCHANGED <<now, pc, grant, planVars, runVars>>

\* Mutant: a call is waited for however long its tool takes.
WaitFor(c) == FALSE /\ UNCHANGED vars

\* The tool's own ceiling passes while it runs, or the run is stopped.  The
\* loop carries on with an error for a result; the core carries on with the
\* tool.
GiveUp(c) ==
  /\ c \in turn
  /\ \/ pc[c] = "running"
     \/ ended /\ pc[c] \in {"sent", "admitted"}
  /\ turn' = turn \ {c}
  /\ UNCHANGED <<now, pc, grant, planVars, runVars>>

-----------------------------------------------------------------------------
\* tool.authorize

\* The run is over, has no plan, cannot be recorded, or was not planned to use
\* this tool.
RefuseUnjudged(c) ==
  /\ pc[c] = "asked"
  /\ Move(c, "refused")
  /\ Release(c)
  /\ UNCHANGED <<now, turn, grant, taken, owed, seen, stopped, charged, runVars>>

Check(c) ==
  /\ pc[c] = "asked"
  /\ ~ended
  /\ registered
  /\ Move(c, "checked")
  /\ UNCHANGED <<now, turn, grant, planVars, runVars>>

\* A plan that has gone since the check raises no objection.
AskPlan(c) ==
  /\ pc[c] = "checked"
  /\ \/ /\ registered
        /\ Reserve(c)
        /\ UNCHANGED <<taken, owed, charged>>
     \/ /\ ~registered
        /\ Move(c, "judged")
        /\ UNCHANGED planVars
  /\ UNCHANGED <<now, turn, grant, runVars>>

\* A hook, the gateway or a person says no.
Decline(c) ==
  /\ pc[c] = "judged"
  /\ Move(c, "refused")
  /\ Release(c)
  /\ UNCHANGED <<now, turn, grant, taken, owed, seen, stopped, charged, runVars>>

Expired(t) == now - t > GrantTTL

\* Allowed, by the gateway alone or by a person it was put to.
Issue(c) ==
  /\ pc[c] = "judged"
  /\ Move(c, "granted")
  /\ grant' = [d \in Calls |->
                IF d = c THEN now
                ELSE IF grant[d] # None /\ Expired(grant[d]) THEN None
                ELSE grant[d]]
  /\ UNCHANGED <<now, turn, planVars, runVars>>

-----------------------------------------------------------------------------
\* tool.execute

Good(c) == grant[c] # None /\ ~Expired(grant[c])

\* The plan is looked for first; a redemption spends the grant whatever comes
\* of it, and a refused one leaves the slot where it was.
Redeem(c) ==
  /\ pc[c] = "sent"
  /\ grant' = IF registered THEN [grant EXCEPT ![c] = None] ELSE grant
  /\ Move(c, IF registered /\ Good(c) THEN "admitted" ELSE "refused")
  /\ UNCHANGED <<now, turn, planVars, runVars>>

\* The gateway or the effect ledger refuses what was granted.
Withdraw(c) ==
  /\ pc[c] = "admitted"
  /\ Move(c, "refused")
  /\ Release(c)
  /\ UNCHANGED <<now, turn, grant, taken, owed, seen, stopped, charged, runVars>>

Start(c) ==
  /\ pc[c] = "admitted"
  /\ Move(c, "running")
  /\ UNCHANGED <<now, turn, grant, planVars, runVars>>

\* The tool returns, or an earlier identical effect is replayed in its place.
Finish(c, succeeded) ==
  /\ \/ pc[c] = "running"
     \/ pc[c] = "admitted" /\ c \notin ReadOnly
  /\ Move(c, "done")
  /\ Settle(c, succeeded)
  /\ UNCHANGED <<now, turn, grant, runVars>>

-----------------------------------------------------------------------------
\* The run and the clock

\* Stop, or the driver's own verdict.
End ==
  /\ ~ended
  /\ ended' = TRUE
  /\ UNCHANGED <<now, turn, pc, grant, registered, planVars>>

\* The driver's guard takes the plan out of the table.  It leaves the run's
\* grants.
ForgetPlan ==
  /\ ended
  /\ registered
  /\ registered' = FALSE
  /\ UNCHANGED <<now, turn, pc, grant, ended, planVars>>

\* A handler with nobody to wait for is done within a tick of the clock.
Tick ==
  /\ now < MaxNow
  /\ \A c \in ReadOnly : pc[c] \notin {"checked", "judged"}
  /\ now' = now + 1
  /\ UNCHANGED <<turn, pc, grant, planVars, runVars>>

Loop ==
  \/ \E batch \in SUBSET Calls \ {{}} : Turn(batch)
  \/ \E c \in Calls : Ask(c) \/ Send(c) \/ Hear(c) \/ GiveUp(c)
  \/ Drop

Authorize(c) ==
  RefuseUnjudged(c) \/ Check(c) \/ AskPlan(c) \/ Decline(c) \/ Issue(c)

Execute(c) ==
  \/ Redeem(c) \/ Withdraw(c) \/ Start(c)
  \/ \E succeeded \in BOOLEAN : Finish(c, succeeded)

Next ==
  \/ Loop
  \/ \E c \in Calls : Authorize(c) \/ Execute(c)
  \/ End \/ ForgetPlan \/ Tick

\* A handler in progress gets on with it: a gateway answers, and an approval
\* is answered or runs out.  The loop sends what it holds and its timers fire.
\* Nothing says a tool ever returns, or that the model asks for another.
Fairness ==
  \A c \in Calls :
    /\ WF_vars(Ask(c)) /\ WF_vars(Send(c))
    /\ WF_vars(Hear(c)) /\ WF_vars(GiveUp(c))
    /\ WF_vars(Authorize(c))
    /\ WF_vars(Redeem(c)) /\ WF_vars(Withdraw(c) \/ Start(c))

Spec == Init /\ [][Next]_vars /\ Fairness

-----------------------------------------------------------------------------
TypeOK ==
  /\ now \in 0..MaxNow
  /\ turn \in SUBSET Calls
  /\ pc \in [Calls -> Stages]
  /\ lease \in [Calls -> Nat \cup {None}]
  /\ taken \in Nat
  /\ owed \in SUBSET Tools
  /\ seen \in [Signatures -> Nat]
  /\ stopped \in {"no"} \cup Halts
  /\ grant \in [Calls -> Nat \cup {None}]
  /\ ended \in BOOLEAN
  /\ registered \in BOOLEAN
  /\ charged \in SUBSET Calls

\* Steps spent and steps promised never exceed the budget, however many
\* calls of a turn were authorised before the first of them settled.
WithinBudget == Committed(lease) <= MaxSteps

\* A tool that is neither owed nor the check of what was produced.
Ordinary == {c \in Calls : ToolOf[c] \notin {ToolOf[d] : d \in Owing}} \ Checking

\* While the plan owes something, ordinary calls have had no more than the
\* budget less the hold, so the deliverable still has its steps.
HoldIsKept ==
  owed # {} =>
    Cardinality((charged \cup Held(lease)) \cap Ordinary) + Hold <= MaxSteps

\* The plan's promise about steps, however the calls of a turn overlap: they are
\* never overrun, and the deliverable's are never eaten by the work before it.
BudgetIsKept == WithinBudget /\ HoldIsKept

\* A tool starts with its step set aside: between the yes and the redemption
\* nothing has taken the call's slot away.
AdmittedHoldsSlot ==
  [][\A c \in Calls :
       pc[c] = "sent" /\ pc'[c] = "admitted" => registered /\ lease[c] # None]_vars

\* Once the plan has halted no call gets a slot, and what was already
\* promised is all that can still be spent.
HaltIsFinal ==
  [][stopped # "no" => /\ stopped' = stopped
                       /\ Held(lease') \subseteq Held(lease)
                       /\ taken' + Cardinality(Held(lease'))
                            <= taken + Cardinality(Held(lease))]_vars

\* Every call the loop is waiting for comes to a result: a refusal, an
\* answer, or the loop's own.
TurnEnds == \A c \in Calls : c \in turn ~> c \notin turn

-----------------------------------------------------------------------------
(* What the texts of the program say of these steps and the code does not  *)
(* keep.  No run checks these formulas: TLC finds a counterexample to each, *)
(* and README.md, section 6, says how it comes about.                       *)

\* A refusal after the plan admitted the call costs nothing: the slot is back.
\* The doc of release_reservation, which lists a grant that was never redeemed
\* among the paths it is called from.
RefusedHoldsNothing ==
  \A c \in Calls : registered /\ pc[c] = "refused" => lease[c] = None

\* A tool that ran was counted, whatever it returned (the comment on
\* record_step's call in execute).
WhatRanIsCounted ==
  [][\A c \in Calls :
       registered /\ pc[c] = "running" /\ pc'[c] = "done" => taken' = taken + 1]_vars

\* A run's grants die with the run (the header of grants.rs).
GrantsDieWithRun == ~registered => \A c \in Calls : grant[c] = None
=============================================================================
