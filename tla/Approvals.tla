----------------------------- MODULE Approvals -----------------------------
(***************************************************************************)
(* Asking a person before a tool acts: the wait in authorize() and         *)
(* await_decision() (agent_runtime/mod.rs, agent_runtime/approval.rs), the *)
(* queue and its standing approvals (orchestrator/approvals.rs), the       *)
(* command behind the buttons (commands/approvals.rs), the durable table   *)
(* (agent_runtime/events/approvals.rs), and what a start puts back         *)
(* (lib.rs).                                                               *)
(*                                                                         *)
(* The queue and the table are two records of one question.  The wait      *)
(* polls the queue, its three looks each under a lock of their own; the    *)
(* command decides in the queue, grants a standing approval, and only then *)
(* writes the table.  A death keeps the table and nothing else.            *)
(***************************************************************************)
EXTENDS Naturals, FiniteSets

CONSTANTS
  Calls,      \* calls that would leave a trace outside the task
  Runs,
  RunOf,      \* the run that makes each call
  Earlier,    \* the call a resumed run makes over again, or Nothing
  Threads,    \* conversations
  Thread,     \* each run's conversation, or Nothing
  Tools,
  Tool,       \* the tool of each call
  People,     \* who may approve output
  Pending,    \* asked, and not decided
  Nothing,
  MaxDeaths   \* bound: deaths of the application

ASSUME CallsAssumption ==
  /\ RunOf \in [Calls -> Runs]
  /\ Earlier \in [Calls -> Calls \cup {Nothing}]
  /\ Thread \in [Runs -> Threads \cup {Nothing}]
  /\ Tool \in [Calls -> Tools]
  /\ MaxDeaths \in Nat

Decision == [yes : BOOLEAN, by : People]

ASSUME NothingAssumption ==
  /\ Nothing \notin Threads \cup Calls \cup Decision \cup {Pending}
  /\ Pending \notin Decision

VARIABLES
  \* durable
  row,        \* run_approvals, by question: Nothing, Pending or the decision
  over,       \* runs whose ending is on record
  \* the process
  queue,      \* ApprovalQueue.items
  standing,   \* ApprovalQueue.standing, as pairs of conversation and tool
  stopped,    \* ApprovalQueue.cancelled_runs
  bound,      \* runs being driven, and so bound to their conversation
  stopping,   \* runs whose Stop is on record and has not reached the queue
  wait,       \* where each call's authorisation is
  overdue,    \* calls whose fifteen minutes have run out
  hand,       \* per person, the decision the queue took and the command is at
  \* history
  answers,    \* every decision the queue has accepted about each question
  always,     \* questions approved with "always" by this process
  deaths

disk == <<row, over>>
run == <<stopped, bound, stopping>>
approvalVars == <<disk, queue, standing, run, wait, overdue, hand, answers, always, deaths>>

Looks == {"at the stop", "at the answer", "at the clock"}

Outcomes == {"approved", "rejected", "timed out", "cancelled", "standing"}

Idle == [call |-> Nothing]

Deciding == [call : Calls, decision : Decision, always : BOOLEAN,
             next : {"standing", "row"}]

ApprovalInit ==
  /\ row = [c \in Calls |-> Nothing]
  /\ over = {}
  /\ queue = [c \in Calls |-> Nothing]
  /\ standing = {}
  /\ stopped = {} /\ bound = {} /\ stopping = {}
  /\ wait = [c \in Calls |-> "idle"]
  /\ overdue = {}
  /\ hand = [p \in People |-> Idle]
  /\ answers = [c \in Calls |-> {}]
  /\ always = {}
  /\ deaths = 0

Waiting(c) == wait[c] \in Looks

-----------------------------------------------------------------------------
(* The run that asks.                                                      *)

\* Started, or resumed after a death: bound to its conversation.
Drive(r) ==
  /\ r \notin bound \cup over
  /\ bound' = bound \cup {r}
  /\ UNCHANGED <<disk, queue, standing, stopped, stopping, wait, overdue, hand,
                 answers, always, deaths>>

\* The loop has its answers, or was aborted; the driver's guard unbinds the run.
EndRun(r) ==
  /\ r \in bound
  /\ r \in over \/ \A c \in Calls : RunOf[c] = r => wait[c] \in Outcomes \cup {"idle", "dead"}
  /\ over' = over \cup {r}
  /\ bound' = bound \ {r}
  /\ UNCHANGED <<row, queue, standing, stopped, stopping, wait, overdue, hand,
                 answers, always, deaths>>

\* agent_abort_run(): the ending, then the token, then the queue.
RecordStop(r) ==
  /\ r \notin over
  /\ r \in bound
  /\ over' = over \cup {r}
  /\ stopping' = stopping \cup {r}
  /\ UNCHANGED <<row, queue, standing, stopped, bound, wait, overdue, hand,
                 answers, always, deaths>>

CancelRun(r) ==
  /\ r \in stopping
  /\ stopping' = stopping \ {r}
  /\ stopped' = stopped \cup {r}
  /\ UNCHANGED <<disk, queue, standing, bound, wait, overdue, hand, answers,
                 always, deaths>>

-----------------------------------------------------------------------------
(* The call that asks.                                                     *)

HasStanding(c) == <<Thread[RunOf[c]], Tool[c]>> \in standing

\* authorize(): a conversation that said "always" to the tool is not asked.  The
\* loop asks about one call of a turn at a time.
Ask(c) ==
  /\ wait[c] = "idle"
  /\ RunOf[c] \in bound
  /\ \A d \in Calls : RunOf[d] = RunOf[c] => wait[d] \in Outcomes \cup {"idle", "dead"}
  /\ wait' = [wait EXCEPT ![c] = IF HasStanding(c) THEN "standing" ELSE "asking"]
  /\ UNCHANGED <<disk, queue, standing, run, overdue, hand, answers, always, deaths>>

\* record_approval(): a failure is logged, and the person is asked all the same.
Record(c) ==
  /\ wait[c] = "asking"
  /\ wait' = [wait EXCEPT ![c] = "recorded"]
  /\ \E ok \in BOOLEAN :
       row' = IF ok THEN [row EXCEPT ![c] = Pending] ELSE row
  /\ UNCHANGED <<over, queue, standing, run, overdue, hand, answers, always, deaths>>

Request(c) ==
  /\ wait[c] = "recorded"
  /\ queue' = [queue EXCEPT ![c] = Pending]
  /\ wait' = [wait EXCEPT ![c] = "at the stop"]
  /\ UNCHANGED <<disk, standing, run, overdue, hand, answers, always, deaths>>

LookAtStop(c) ==
  /\ wait[c] = "at the stop"
  /\ wait' = [wait EXCEPT ![c] =
       IF RunOf[c] \in stopped THEN "cancelled" ELSE "at the answer"]
  /\ UNCHANGED <<disk, queue, standing, run, overdue, hand, answers, always, deaths>>

\* Mutant: any answer at all is taken for a yes.
OutcomeOfAny(decision) == "approved"

Outcome(decision) == IF decision.yes THEN "approved" ELSE "rejected"

LookAtAnswer(c) ==
  /\ wait[c] = "at the answer"
  /\ wait' = [wait EXCEPT ![c] =
       IF queue[c] = Pending THEN "at the clock" ELSE Outcome(queue[c])]
  /\ UNCHANGED <<disk, queue, standing, run, overdue, hand, answers, always, deaths>>

\* Mutant: after the first time round, only the answer and the clock are looked at.
LookAtClockAndAnswer(c) ==
  /\ wait[c] = "at the clock"
  /\ wait' = [wait EXCEPT ![c] =
       IF c \in overdue THEN "timed out" ELSE "at the answer"]
  /\ UNCHANGED <<disk, queue, standing, run, overdue, hand, answers, always, deaths>>

LookAtClock(c) ==
  /\ wait[c] = "at the clock"
  /\ wait' = [wait EXCEPT ![c] =
       IF c \in overdue THEN "timed out" ELSE "at the stop"]
  /\ UNCHANGED <<disk, queue, standing, run, overdue, hand, answers, always, deaths>>

\* WAIT_LIMIT passes.
Expire(c) ==
  /\ Waiting(c)
  /\ c \notin overdue
  /\ overdue' = overdue \cup {c}
  /\ UNCHANGED <<disk, queue, standing, run, wait, hand, answers, always, deaths>>

-----------------------------------------------------------------------------
(* The person who answers: decide_approval().                              *)

\* Mutant: a decision may be taken again.
DecideAgain(p, c, yes, forever) ==
  /\ hand[p] = Idle
  /\ queue[c] # Nothing
  /\ queue' = [queue EXCEPT ![c] = [yes |-> yes, by |-> p]]
  /\ hand' = [hand EXCEPT ![p] =
       [call |-> c, decision |-> [yes |-> yes, by |-> p], always |-> forever,
        next |-> "standing"]]
  /\ answers' = [answers EXCEPT ![c] = @ \cup {[yes |-> yes, by |-> p]}]
  /\ UNCHANGED <<disk, standing, run, wait, overdue, always, deaths>>

\* ApprovalQueue::decide(): a decision is final.
Decide(p, c, yes, forever) ==
  /\ hand[p] = Idle
  /\ queue[c] = Pending
  /\ queue' = [queue EXCEPT ![c] = [yes |-> yes, by |-> p]]
  /\ hand' = [hand EXCEPT ![p] =
       [call |-> c, decision |-> [yes |-> yes, by |-> p], always |-> forever,
        next |-> "standing"]]
  /\ answers' = [answers EXCEPT ![c] = @ \cup {[yes |-> yes, by |-> p]}]
  /\ UNCHANGED <<disk, standing, run, wait, overdue, always, deaths>>

\* The conversation of a run that is bound to one now.
Scope(r) == IF r \in bound THEN {Thread[r]} \ {Nothing} ELSE {}

Grants(h) == h.decision.yes /\ h.always

GrantStanding(p) ==
  /\ hand[p] # Idle
  /\ hand[p].next = "standing"
  /\ LET c == hand[p].call
         granted == IF Grants(hand[p]) THEN Scope(RunOf[c]) \X {Tool[c]} ELSE {}
     IN  /\ standing' = standing \cup granted
         /\ always' = IF hand[p].decision.yes /\ hand[p].always
                        THEN always \cup {c} ELSE always
  /\ hand' = [hand EXCEPT ![p].next = "row"]
  /\ UNCHANGED <<disk, queue, run, wait, overdue, answers, deaths>>

\* resolve_approval(): only a pending row is moved, and a failure is logged.
Resolve(p) ==
  /\ hand[p] # Idle
  /\ hand[p].next = "row"
  /\ \E ok \in BOOLEAN :
       row' = IF ok /\ row[hand[p].call] = Pending
                THEN [row EXCEPT ![hand[p].call] = hand[p].decision] ELSE row
  /\ hand' = [hand EXCEPT ![p] = Idle]
  /\ UNCHANGED <<over, queue, standing, run, wait, overdue, answers, always, deaths>>

-----------------------------------------------------------------------------
(* A death and the start after it.                                         *)

\* pending_approvals(), put back by ApprovalQueue::restore().
Restored == {c \in Calls : row[c] = Pending}

\* The queue goes with the process, and so do the waits, the standing approvals
\* and the decisions half written; what is pending on disk is put back before
\* anything is asked.  If it cannot be read, the start goes on with nothing.
Restart ==
  /\ deaths < MaxDeaths
  /\ deaths' = deaths + 1
  /\ \E back \in {Restored, {}} :
       queue' = [c \in Calls |-> IF c \in back THEN Pending ELSE Nothing]
  /\ standing' = {} /\ always' = {}
  /\ stopped' = {} /\ bound' = {} /\ stopping' = {}
  /\ wait' = [c \in Calls |-> IF wait[c] = "idle" THEN "idle"
                              ELSE IF wait[c] \in Outcomes THEN wait[c] ELSE "dead"]
  /\ overdue' = {}
  /\ hand' = [p \in People |-> Idle]
  /\ UNCHANGED <<disk, answers>>

-----------------------------------------------------------------------------
Poll(c) == LookAtStop(c) \/ LookAtAnswer(c) \/ LookAtClock(c)

ApprovalNext ==
  \/ \E r \in Runs : Drive(r) \/ EndRun(r) \/ RecordStop(r) \/ CancelRun(r)
  \/ \E c \in Calls : Ask(c) \/ Record(c) \/ Request(c) \/ Poll(c) \/ Expire(c)
  \/ \E p \in People, c \in Calls, yes, forever \in BOOLEAN :
       Decide(p, c, yes, forever)
  \/ \E p \in People : GrantStanding(p) \/ Resolve(p)
  \/ Restart

ApprovalSpec == ApprovalInit /\ [][ApprovalNext]_approvalVars

\* The wait goes on polling.  Nothing is assumed of the people or the clock.
ApprovalFairSpec == ApprovalSpec /\ \A c \in Calls : WF_approvalVars(Poll(c))

-----------------------------------------------------------------------------
(* Properties.                                                             *)

Question == {Nothing, Pending} \cup Decision

ApprovalTypeOK ==
  /\ row \in [Calls -> Question] /\ queue \in [Calls -> Question]
  /\ over \subseteq Runs
  /\ standing \subseteq Threads \X Tools
  /\ stopped \subseteq Runs /\ bound \subseteq Runs /\ stopping \subseteq Runs
  /\ wait \in [Calls -> {"idle", "asking", "recorded", "dead"} \cup Looks \cup Outcomes]
  /\ overdue \subseteq Calls
  /\ hand \in [People -> {Idle} \cup Deciding]
  /\ answers \in [Calls -> SUBSET Decision]
  /\ always \subseteq Calls
  /\ deaths \in 0 .. MaxDeaths

\* A call goes ahead only on a yes somebody gave about it, and is refused as
\* declined only on a no: what await_decision() returns is what was decided,
\* whatever happened between its looks.
ActsOnAnswer ==
  \A c \in Calls :
    /\ wait[c] = "approved" => \E a \in answers[c] : a.yes
    /\ wait[c] = "rejected" => \E a \in answers[c] : ~a.yes

\* The queue and the table never tell two stories of one question, and the table
\* holds no decision the queue did not take (the comment above resolve_approval()
\* in decide_approval()).
RecordsAgree ==
  \A c \in Calls :
    /\ row[c] \in Decision => row[c] \in answers[c]
    /\ row[c] \in Decision /\ queue[c] \in Decision => row[c] = queue[c]

\* A standing approval comes from a yes this process was given, with "always", by
\* a person, to that tool in that conversation.
StandingIsGiven ==
  \A s \in standing :
    \E c \in always :
      /\ s = <<Thread[RunOf[c]], Tool[c]>>
      /\ queue[c] \in Decision /\ queue[c].yes

\* What a person said is what is done: a call acts on an answer given about it, and
\* what spares later questions is an "always" somebody said.
AnswersAreHonoured == ActsOnAnswer /\ StandingIsGiven

\* A wait ends once its run is stopped, its question answered or its time up: it
\* does not take the other two to happen (the loop in await_decision()).
WaitEnds ==
  \A c \in Calls :
    (Waiting(c) /\ (RunOf[c] \in stopped \/ queue[c] \in Decision \/ c \in overdue))
      ~> ~Waiting(c)

-----------------------------------------------------------------------------
(* What the texts of the program say of these steps and the code does not  *)
(* keep.  No run checks these formulas: TLC finds a counterexample to each, *)
(* and README.md, section 6, says how it comes about.                       *)

\* "A decision is final" (ApprovalQueue::decide()): no question is decided twice.
DecidedOnce == \A c \in Calls : Cardinality(answers[c]) <= 1

\* A resumed run reads a decision taken while it was away, rather than asking
\* again (the comment on ApprovalQueue::restore()).
ResumedReadsDecision ==
  [][\A c \in Calls : Earlier[c] # Nothing /\ wait[c] = "idle" /\ wait'[c] = "asking"
       => row[Earlier[c]] \notin Decision]_approvalVars

\* "An approval does not outlive the run it belongs to" (ApprovalQueue): nobody is
\* shown a question of a run that is over.
NoQuestionOutlivesItsRun ==
  \A c \in Calls : queue[c] = Pending => RunOf[c] \notin over \ stopping
=============================================================================
