---------------------------- MODULE ModelHandoff ----------------------------
(***************************************************************************)
(* Changing the model an agent runs on: the phases and their table         *)
(* (agent_runtime/model_transition.rs), the three commands that drive them *)
(* and the sweep at a start (agent_runtime/model_handoff.rs), the ledger   *)
(* of transitions (agent_runtime/events/store.rs) and the registry's       *)
(* versioned binding (agents/store.rs).                                    *)
(*                                                                         *)
(* One agent.  The phases are in the driver's memory: the ledger is        *)
(* written when a transition is opened and when its driver returns, and    *)
(* nowhere between, so a row at rest is in an early phase or settled and   *)
(* the branches of rollback() and reconcile_one() for a later one are      *)
(* never taken.                                                            *)
(***************************************************************************)
EXTENDS Naturals, FiniteSets

CONSTANTS
  Moves,         \* calls of Handoff::execute
  Closings,      \* calls of Handoff::rollback, and of reconcile_open by a person
  Startup,       \* the sweep at a start
  Models,
  Source,        \* the model the agent begins on
  Target,        \* the model each move is to
  Loads,         \* moves that load the destination and check it
  HandsOver,     \* of these, the moves of the agent's run
  None,
  MaxGoing,      \* commands under way at once
  MaxEdits,      \* edits of the definition by its form
  MaxCrashes,
  MaxBadWrites   \* registry files and ledger rows that cannot be written

Commands == Moves \cup Closings \cup {Startup}

ASSUME HandoffAssumption ==
  /\ Source \in Models /\ Target \in [Moves -> Models]
  /\ HandsOver \subseteq Loads /\ Loads \subseteq Moves
  /\ {MaxGoing, MaxEdits, MaxCrashes, MaxBadWrites} \subseteq Nat
  /\ None \notin Models \cup Moves
  /\ Moves \cap Closings = {} /\ Startup \notin Moves \cup Closings
  /\ IsFiniteSet(Moves \cup Closings)

VARIABLES
  held,      \* the registry in memory: the agent's model and version
  stored,    \* and on disk
  ledger,    \* each transition's row, under the move that opened it
  pc,        \* where each command is
  record,    \* the record it holds, and what it has done to the servers
  warm,      \* models being served
  run,       \* the run: at a boundary, in a round, or waiting for somebody
  seed,      \* the model on its checkpoint seed, in memory
  resume,    \* the model on its saved resume point
  newest,    \* history: the transition opened last
  bound,     \* history: models the registry on disk has named
  torn,      \* history: the newest row may not tell what became of the binding
  crossed,   \* history: commands beside which another has stopped servers
  edits, crashes, badWrites, badSaves

registry == <<held, stored, bound, badWrites>>
theRun == <<run, seed, resume>>
rows == <<ledger, newest, badSaves>>
history == <<torn, crossed>>
vars == <<registry, rows, pc, record, warm, theRun, edits, crashes, history>>

Early == {"requested", "draining", "awaiting_settlement"}
Terminal == {"committed", "rolled_back", "failed", "rollback_failed"}
Phases == Early \cup Terminal \cup
  {"validating", "loading", "recompiling", "commit_pending", "rolling_back"}

ASSUME PhasesAssumption == None \notin Phases

\* Mutant: a failed rebinding is not undone.
ReleasedBeforeCommit(phase) == phase \in {"loading", "recompiling", "rolling_back"}

\* may_have_released_memory(): from the load on, what stops a move is undone.
MayHaveReleased(phase) ==
  phase \in {"loading", "recompiling", "commit_pending", "rolling_back"}

NoRow == [phase |-> None, from |-> None, version |-> 0]

IsOpen(id) == ledger[id].phase \notin Terminal \cup {None}

NoRecord ==
  [id |-> None, phase |-> None, from |-> None, version |-> 0, seen |-> 0, released |-> FALSE]
Row(r) == [phase |-> r.phase, from |-> r.from, version |-> r.version]
Read(id) ==
  [NoRecord EXCEPT !.id = id, !.phase = ledger[id].phase,
                   !.from = ledger[id].from, !.version = ledger[id].version]

Init ==
  /\ held = [model |-> Source, version |-> 1]
  /\ stored = held
  /\ ledger = [id \in Moves |-> NoRow]
  /\ pc = [c \in Commands |-> IF c = Startup THEN "over" ELSE "idle"]
  /\ record = [c \in Commands |-> NoRecord]
  /\ warm = {Source}
  /\ run = "boundary" /\ seed = Source /\ resume = Source
  /\ newest = None /\ bound = {Source} /\ torn = FALSE /\ crossed = {}
  /\ edits = 0 /\ crashes = 0 /\ badWrites = 0 /\ badSaves = 0

Going == {c \in Commands : pc[c] \notin {"idle", "over"}}

\* Where a command has a row it is to write.
Driving == {"driving", "freezing", "starting", "moving", "undoing", "restoring",
            "reloading", "saving"}

\* Another command than c is at work on a row.
Beside(c) == \E d \in Commands \ {c} : pc[d] \in Driving

\* From the commit on the row at rest no longer says what is done to the binding.
InTheCommit(c) ==
  record[c].phase \in {"commit_pending", "committed", "rolling_back", "rollback_failed"}

Goto(c, place) == pc' = [pc EXCEPT ![c] = place]
Phase(c, phase) == record' = [record EXCEPT ![c].phase = phase]

-----------------------------------------------------------------------------
(* Opening.                                                                *)

\* execute() reads the definition, which is at the version the screen showed.
Begin(c) ==
  /\ c \in Moves /\ pc[c] = "idle"
  /\ Cardinality(Going) < MaxGoing
  /\ record' = [record EXCEPT ![c] =
       [NoRecord EXCEPT !.id = c, !.phase = "requested",
                        !.from = held.model, !.version = held.version]]
  /\ Goto(c, "looking")
  /\ UNCHANGED <<registry, rows, warm, theRun, edits, crashes, history>>

\* The same act: the same target from the same version, in a phase before
\* anything was touched.
SameAct(c, id) ==
  /\ Target[id] = Target[c] /\ ledger[id].version = record[c].version
  /\ ledger[id].phase \in Early

\* open_transition_for_agent(): a retry picks the row up, another move is refused.
Look(c) ==
  /\ pc[c] = "looking"
  /\ \/ /\ \A id \in Moves : ~IsOpen(id)
        /\ Goto(c, "opening")
        /\ UNCHANGED <<record, torn>>
     \/ \E id \in Moves :
          /\ IsOpen(id) /\ SameAct(c, id)
          /\ record' = [record EXCEPT ![c] = Read(id)]
          /\ Goto(c, "driving")
          /\ torn' = (torn \/ Beside(c))
     \/ /\ \E id \in Moves : IsOpen(id) /\ ~SameAct(c, id)
        /\ Goto(c, "over")
        /\ record' = [record EXCEPT ![c] = NoRecord]
        /\ UNCHANGED torn
  /\ UNCHANGED <<registry, rows, warm, theRun, edits, crashes, crossed>>

\* Whether a row may be written: the index refuses a second one that is open, and
\* any write may fail.
Writes(id, phase) ==
  IF phase \notin Terminal /\ \E other \in Moves \ {id} : IsOpen(other)
    THEN {FALSE}
    ELSE IF badWrites + badSaves < MaxBadWrites THEN BOOLEAN ELSE {TRUE}

\* open(): the row is written before anything is touched.
Open(c) ==
  /\ pc[c] = "opening"
  /\ \E written \in Writes(c, record[c].phase) :
       IF written
         THEN /\ ledger' = [ledger EXCEPT ![c] = Row(record[c])]
              /\ newest' = c
              /\ Goto(c, "driving")
              /\ torn' = (record[c].from # held.model \/ Beside(c))
              /\ UNCHANGED <<badSaves, record>>
         ELSE /\ badSaves' = badSaves + 1
              /\ record' = [record EXCEPT ![c] = NoRecord]
              /\ Goto(c, "over")
              /\ UNCHANGED <<ledger, newest, torn>>
  /\ UNCHANGED <<registry, warm, theRun, edits, crashes, crossed>>

-----------------------------------------------------------------------------
(* The phases.                                                             *)

\* settle_failure(): what stopped before the load failed; what stopped after is
\* undone.
Fail(c) ==
  IF MayHaveReleased(record[c].phase)
    THEN Goto(c, "undoing") /\ UNCHANGED record
    ELSE Phase(c, "failed") /\ Goto(c, "saving")

\* drain_verdict(): a round in progress leaves the row draining, a question
\* leaves it waiting for somebody, and both return.
Drain(c) ==
  /\ pc[c] = "driving" /\ record[c].phase \in Early
  /\ \/ /\ c \notin HandsOver \/ run = "boundary"
        /\ Phase(c, "draining") /\ Goto(c, "freezing")
     \/ /\ c \in HandsOver /\ run = "round"
        /\ Phase(c, "draining") /\ Goto(c, "saving")
     \/ /\ c \in HandsOver /\ run = "waiting"
        /\ Phase(c, "awaiting_settlement") /\ Goto(c, "saving")
  /\ UNCHANGED <<registry, rows, warm, theRun, edits, crashes, history>>

\* freeze(): the run's state is written down from its seed, or the move stops.
Freeze(c) ==
  /\ pc[c] = "freezing"
  /\ \/ /\ c \in HandsOver => seed # None
        /\ resume' = IF c \in HandsOver THEN seed ELSE resume
        /\ Phase(c, "validating") /\ Goto(c, "driving")
     \/ c \in HandsOver /\ Fail(c) /\ UNCHANGED resume
  /\ UNCHANGED <<registry, rows, warm, run, seed, edits, crashes, history>>

\* validate_target(): a model the agent is on already is refused, as are others.
Validate(c) ==
  /\ pc[c] = "driving" /\ record[c].phase = "validating"
  /\ \/ /\ Target[c] # record[c].from
        /\ Phase(c, IF c \in Loads THEN "loading" ELSE "commit_pending")
        /\ UNCHANGED pc
     \/ Fail(c)
  /\ UNCHANGED <<registry, rows, warm, theRun, edits, crashes, history>>

\* Servers are stopped, whoever else is in the middle of what.
Stops(c, evicted) == crossed' = IF evicted = {} THEN crossed ELSE crossed \cup (Going \ {c})

\* admit(): other models' servers are stopped until the target fits, whatever
\* they are doing.  A model loaded in this process may be released too; it is not
\* one of those served, and no undo loads it again.
Admit(c) ==
  /\ pc[c] = "driving" /\ record[c].phase = "loading"
  /\ \/ \E evicted \in SUBSET (warm \ {Target[c]}) :
          /\ warm' = warm \ evicted /\ Stops(c, evicted)
          /\ record' = [record EXCEPT ![c].released = record[c].from \in evicted]
          /\ Goto(c, "starting")
     \/ Fail(c) /\ UNCHANGED <<warm, crossed>>
  /\ UNCHANGED <<registry, rows, theRun, edits, crashes, torn>>

\* endpoint_for() and the health check.
Start(c) ==
  /\ pc[c] = "starting"
  /\ \/ /\ warm' = warm \cup {Target[c]}
        /\ Phase(c, "recompiling") /\ Goto(c, "driving")
     \/ Fail(c) /\ warm' \in {warm, warm \cup {Target[c]}}
  /\ UNCHANGED <<registry, rows, theRun, edits, crashes, history>>

\* recompile(): only a run has a context to rebuild.
Recompile(c) ==
  /\ pc[c] = "driving" /\ record[c].phase = "recompiling"
  /\ \/ Phase(c, "commit_pending") /\ UNCHANGED pc
     \/ c \in HandsOver /\ Fail(c)
  /\ UNCHANGED <<registry, rows, warm, theRun, edits, crashes, history>>

-----------------------------------------------------------------------------
(* The commit.                                                             *)

\* persist(): the definition is replaced in memory first, and in the file or not.
Write(definition, written) ==
  /\ held' = definition
  /\ IF written
       THEN stored' = definition /\ bound' = bound \cup {definition.model}
            /\ UNCHANGED badWrites
       ELSE /\ badWrites + badSaves < MaxBadWrites /\ badWrites' = badWrites + 1
            /\ UNCHANGED <<stored, bound>>

\* rebind_model(), as commit() calls it.
Rebind(c) ==
  /\ pc[c] = "driving" /\ record[c].phase = "commit_pending"
  /\ \/ /\ held.version = record[c].version
        /\ Write([model |-> Target[c], version |-> held.version + 1], TRUE)
        /\ Phase(c, "committed") /\ Goto(c, "moving")
     \/ /\ held.version = record[c].version
        /\ Write([model |-> Target[c], version |-> held.version + 1], FALSE)
        /\ Fail(c)
     \/ held.version # record[c].version /\ Fail(c) /\ UNCHANGED registry
  /\ UNCHANGED <<rows, warm, theRun, edits, crashes, history>>

\* move_resume_point(): the seed, and the saved resume point unless a newer one
\* stands.
Move(c) ==
  /\ pc[c] = "moving"
  /\ seed' = IF c \in HandsOver /\ seed # None THEN Target[c] ELSE seed
  /\ resume' \in IF c \in HandsOver /\ seed # None THEN {resume, Target[c]} ELSE {resume}
  /\ Goto(c, "saving")
  /\ UNCHANGED <<registry, rows, record, warm, run, edits, crashes, history>>

-----------------------------------------------------------------------------
(* The undo.                                                               *)

\* undo() and apply_rollback(): whether the binding is to be put back is read...
Undo(c) ==
  /\ pc[c] = "undoing"
  /\ record' = [record EXCEPT ![c].phase = "rolling_back",
                              ![c].seen = held.version]
  /\ Goto(c, IF held.model = record[c].from THEN "reloading" ELSE "restoring")
  /\ UNCHANGED <<registry, rows, warm, theRun, edits, crashes, history>>

\* ... and it is, at the version that was read.
Restore(c) ==
  /\ pc[c] = "restoring"
  /\ \/ /\ held.version = record[c].seen
        /\ Write([model |-> record[c].from, version |-> held.version + 1], TRUE)
        /\ Goto(c, "reloading") /\ UNCHANGED record
     \/ /\ held.version = record[c].seen
        /\ Write([model |-> record[c].from, version |-> held.version + 1], FALSE)
        /\ Phase(c, "rollback_failed") /\ Goto(c, "saving")
     \/ /\ held.version # record[c].seen
        /\ Phase(c, "rollback_failed") /\ Goto(c, "saving")
        /\ UNCHANGED registry
  /\ UNCHANGED <<rows, warm, theRun, edits, crashes, history>>

\* Mutant: the source is not served again.
ReloadNothing(c) ==
  /\ pc[c] = "reloading"
  /\ Phase(c, "rolled_back") /\ Goto(c, "saving")
  /\ UNCHANGED <<registry, rows, warm, theRun, edits, crashes, history>>

\* The source is served again if this move is what stopped it.
Reload(c) ==
  /\ pc[c] = "reloading"
  /\ \/ /\ record[c].released => record[c].from \in warm
        /\ Phase(c, "rolled_back") /\ UNCHANGED <<warm, crossed>>
     \/ /\ record[c].released /\ record[c].from \notin warm
        /\ \E evicted \in SUBSET warm :
             /\ warm' = (warm \ evicted) \cup {record[c].from} /\ Stops(c, evicted)
        /\ Phase(c, "rolled_back")
     \/ /\ record[c].released /\ record[c].from \notin warm
        /\ \E evicted \in SUBSET warm : warm' = warm \ evicted /\ Stops(c, evicted)
        /\ Phase(c, "rollback_failed")
  /\ Goto(c, "saving")
  /\ UNCHANGED <<registry, rows, theRun, edits, crashes, torn>>

-----------------------------------------------------------------------------
(* The ledger, and the commands that close a row.                          *)

\* save_transition(): the row becomes the record, whatever the row says by now.
Save(c) ==
  /\ pc[c] = "saving"
  /\ \E written \in Writes(record[c].id, record[c].phase) :
       IF written
         THEN /\ ledger' = [ledger EXCEPT ![record[c].id] = Row(record[c])]
              /\ UNCHANGED <<badSaves, torn>>
         ELSE /\ badSaves' = badSaves + 1 /\ torn' = (torn \/ InTheCommit(c))
              /\ UNCHANGED ledger
  /\ record' = [record EXCEPT ![c] = NoRecord]
  /\ crossed' = crossed \ {c}
  /\ Goto(c, "over")
  /\ UNCHANGED <<registry, newest, warm, theRun, edits, crashes>>

\* Mutant: a row in an early phase is left for somebody to come back to.
CloseNothingEarly(c) ==
  /\ c = Startup /\ pc[c] = "to sweep"
  /\ Goto(c, "over")
  /\ UNCHANGED <<registry, rows, record, warm, theRun, edits, crashes, history>>

\* rollback(), and reconcile_one() of the row that is open: at rest it is in an
\* early phase, and is closed as one in which nothing was changed.
Close(c) ==
  /\ \/ c \in Closings /\ pc[c] = "idle" /\ Cardinality(Going) < MaxGoing
     \/ c = Startup /\ pc[c] = "to sweep"
  /\ \/ \E id \in Moves :
          /\ IsOpen(id)
          /\ record' = [record EXCEPT ![c] = [Read(id) EXCEPT !.phase = "failed"]]
          /\ torn' = (torn \/ Beside(c))
          /\ Goto(c, "saving")
     \/ (\A id \in Moves : ~IsOpen(id)) /\ Goto(c, "over") /\ UNCHANGED <<record, torn>>
  /\ UNCHANGED <<registry, rows, warm, theRun, edits, crashes, crossed>>

-----------------------------------------------------------------------------
(* The rest of the program.                                                *)

\* update(): the form may not change the model.
Edit ==
  /\ edits < MaxEdits /\ edits' = edits + 1
  /\ \E written \in BOOLEAN : Write([held EXCEPT !.version = @ + 1], written)
  /\ UNCHANGED <<rows, pc, record, warm, theRun, crashes, history>>

\* The run goes on by itself while it is being driven; a resumption takes its
\* seed from the saved resume point.
RunMoves ==
  /\ \/ seed # None /\ run' \in {"boundary", "round", "waiting"} \ {run} /\ UNCHANGED seed
     \/ seed = None /\ seed' = resume /\ UNCHANGED run
  /\ UNCHANGED <<registry, rows, pc, record, warm, resume, edits, crashes, history>>

\* Everything in memory goes, and the servers with it.
Crash ==
  /\ crashes < MaxCrashes /\ crashes' = crashes + 1
  /\ held' = stored
  /\ pc' = [c \in Commands |->
              IF c = Startup THEN "to sweep"
              ELSE IF pc[c] = "idle" THEN "idle" ELSE "over"]
  /\ record' = [c \in Commands |-> NoRecord]
  /\ warm' = {} /\ seed' = None /\ crossed' = {}
  /\ torn' = (torn \/ held.model # stored.model \/ \E c \in Commands : InTheCommit(c))
  /\ UNCHANGED <<stored, bound, badWrites, rows, run, resume, edits>>

\* One command goes on.
Drive(c) ==
  \/ Look(c) \/ Open(c) \/ Drain(c) \/ Freeze(c) \/ Validate(c)
  \/ Admit(c) \/ Start(c) \/ Recompile(c) \/ Rebind(c) \/ Move(c)
  \/ Undo(c) \/ Restore(c) \/ Reload(c) \/ Save(c)

Next ==
  \/ \E c \in Commands : Begin(c) \/ Drive(c) \/ Close(c)
  \/ Edit \/ RunMoves \/ Crash

Spec == Init /\ [][Next]_vars

\* Whatever a command awaits comes to an end; so does the sweep, and what closes
\* a row.
Fairness == \A c \in Commands : WF_vars(Drive(c) \/ (c = Startup /\ Close(c)))

FairSpec == Spec /\ Fairness

-----------------------------------------------------------------------------
(* Properties.                                                             *)

Places == {"idle", "looking", "opening", "driving", "freezing", "starting", "moving",
           "undoing", "restoring", "reloading", "saving", "over", "to sweep"}

Definitions == [model : Models, version : Nat]

TypeOK ==
  /\ held \in Definitions /\ stored \in Definitions
  /\ ledger \in [Moves -> [phase : Phases \cup {None}, from : Models \cup {None}, version : Nat]]
  /\ pc \in [Commands -> Places]
  /\ record \in [Commands -> [id : Moves \cup {None}, phase : Phases \cup {None},
                              from : Models \cup {None}, version : Nat, seen : Nat,
                              released : BOOLEAN]]
  /\ warm \subseteq Models
  /\ run \in {"boundary", "round", "waiting"}
  /\ seed \in Models \cup {None} /\ resume \in Models
  /\ newest \in Moves \cup {None} /\ bound \subseteq Models
  /\ torn \in BOOLEAN /\ crossed \subseteq Commands
  /\ {edits, crashes, badWrites, badSaves} \subseteq Nat
  /\ \A c \in Commands : pc[c] = "saving" => record[c].id # None

Quiet == \A c \in Commands : pc[c] \in {"idle", "over"}

\* What the newest row says of the binding once nothing is going on: a committed
\* move left the agent on its target, one that failed or was rolled back left it
\* where it was. "The agent is on the model it was on" (model_handoff.rs).
\*
\* The row is not written between its opening and the driver's return, and its
\* writing is not guarded by what it says. So this holds through deaths, failed
\* writes and commands that begin beside each other, but for the four steps that
\* set `torn`: a death or a row that could not be written once the commit had
\* begun; a death while the registry's file was behind; a command that took up a
\* row another one was at work on; and a row opened by a move that had read the
\* model before another move changed it, or while another was still at work.
RecordTellsBinding ==
  Quiet /\ newest # None /\ ~torn =>
    /\ ledger[newest].phase = "committed" => held.model = Target[newest]
    /\ ledger[newest].phase \in {"failed", "rolled_back"}
         => held.model = ledger[newest].from

\* A rolled back move leaves the source served if it is what stopped it, and no
\* other command stopped servers in the meantime.
UndoneIsServed ==
  \A c \in Commands :
    pc[c] = "saving" /\ record[c].phase = "rolled_back" /\ record[c].released
      => record[c].from \in warm \/ c \in crossed

\* A run's saved resume point names only a model the registry's file has named:
\* the resume point moves after the binding does.
ResumePointFollows == resume \in bound

\* Undoing a move and carrying one over both leave the agent something to run on:
\* what is served and what a run resumes on follow the binding.
MovesLeaveAModel == TypeOK /\ UndoneIsServed /\ ResumePointFollows

\* An agent is not kept from being moved by a transition nobody drives: the row
\* that is open when the program has started again is closed, or a retry of the
\* move picks it up beside the sweep, short of a row that could not be written.
SweptAtStart ==
  pc[Startup] = "to sweep"
    ~> \/ (\A id \in Moves : ~IsOpen(id)) \/ badSaves > 0
       \/ \E c \in Moves : pc[c] = "driving"

-----------------------------------------------------------------------------
(* What the texts of the program say of these steps and the code does not  *)
(* keep.  No run checks these formulas: TLC finds a counterexample to each, *)
(* and README.md, section 6, says how it comes about.                       *)

\* No run's model is taken from under a round: "a model swapped under a running
\* round hands half a turn to a stranger" (model_transition.rs).
NothingIsSwappedUnderARound ==
  [][crashes' = crashes /\ seed \in warm /\ seed \notin warm' => run # "round"]_vars
=============================================================================
