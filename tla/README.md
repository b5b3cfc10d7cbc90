# Arjun: what has to hold when things overlap, fail or die

A TLA+ development of the parts of Arjun that have to be right when several
actors are at work and any of them may stop: the record of a run and its side
effects, the way from a model's tool call to the tool, the questions put to a
person, Stop, changes of model, the servers and the generations behind them,
and the memory the agents share. The program is a Rust desktop application
(`src/src-tauri/src`) that runs an agent loop in a Node process
(`src/agent-runtime`), with models served by llama-server or in its own
process, tools executed on the Rust side, and what is durable in SQLite and
JSON files. Paths below are under `src/src-tauri/src/` unless they say
otherwise; `agent_runtime/events/` is shortened to `events/`.

## 1. Inventory

### The parts modelled here

| part | state it keeps | operations | what makes it correct |
|---|---|---|---|
| run state machine (`events/machine.rs`) | none: a function of state and event | `advance` | a run never goes back a phase or leaves an ending |
| task event log (`events/store.rs`) | `task_events`, append-only; `task_snapshots`, one cached fold per run | `append`, `append_past_ending`, `record`, `snapshot`, `rebuild`, `save_snapshot` | one ending, nothing after it; derived ids once; a stale cache never gives a wrong answer |
| projection (`events/projection.rs`) | `TaskSnapshot` | `apply`, `absorb`, `fold` | the same history gives the same snapshot however it is reached |
| effect ledger (`events/idempotency.rs`) | `task_tool_effects`: one row per idempotency key | `begin`, `settle`, `promote_pending_to_unknown`, `reconcile` | an effect at most once; replayed answers are true; nothing pending for ever |
| leases (`events/lease.rs`) | `run_leases`: owner, token, expiry | `acquire`, `release` (`renew` has no caller) | one driver; only the holder clears the row |
| checkpoints and recovery (`events/checkpoint.rs`, `recording.rs`, `resume.rs`, `recover_interrupted`) | `run_checkpoints` | `checkpoint`, `save_checkpoint`, strand, offer or close off | the resume point never lags what the loop was told; a start leaves nothing looking live |
| tool calls (`authorize`, `execute` in `agent_runtime/mod.rs`; the loop in `src/agent-runtime/src/tools.ts`) | the calls of a turn | authorise, redeem, run, settle, drop, give up | every call comes to a result; a tool starts with its step set aside |
| plan and grants (`orchestrator/plan.rs`, `agent_runtime/grants.rs`) | steps spent, slots held, owed tools, halts; single-use grants | `reserve_at`, `release`, `record_step`, `issue`, `redeem` | the budget is not overrun by calls in flight, the deliverable keeps its steps |
| approvals (`orchestrator/approvals.rs`, `agent_runtime/approval.rs`, `events/approvals.rs`, `commands/approvals.rs`) | the queue in memory, standing approvals, `run_approvals` | ask, poll, decide, restore | a call acts on the answer given about it; two records tell one story; a wait ends |
| cancellation (`agent_runtime/cancellation.rs`) | tokens of turns by id, remembered stops | `register`, `also_known_as`, `cancel`, `forget`, `cancelled` | a stop reaches its turn whenever it comes, and under either id |
| model transition (`agent_runtime/model_handoff.rs`, `model_transition.rs`, `agents/store.rs`) | a row per transition, the agent's binding in memory and on disk | `execute`, `rollback`, `reconcile`, the sweep at a start | the record tells what the agent is bound to; nothing open is left behind |
| model servers (`serving/mod.rs`, `serving/admission.rs`, `subagents/scheduling.rs`) | the table of processes, readiness, last use, the card's lease | `managed_endpoint`, `admit`, `stop`, `reserve` | no server unlisted or twice; handed out only once it answered; every caller is answered |
| in-process generation (`ai_engine/scheduler.rs`, `runtime.rs`, `manager.rs`; `gateway/server.rs`) | the queue, the worker, watchers, one runtime and its one flag | submit, cancel, generate, stop, load, unload | of an abandoned answer at most one piece of text is produced; nobody else's is cut short; every reader is answered |
| the agents' shared memory (`knowledge/graph/runtime_store.rs`, `runtime_memory.rs`, `subagents/graph_io.rs`) | items, edges, a log, an outbox | publish, correct, revoke, mirror, deliver, `changes_since` | results follow their inputs; a publication reaches the task log once |
| the window on it (`src/components/graph/memoryFeed.ts`, `AgentMemoryPanel.tsx`) | a cache and a cursor | bell, drain, reload | nothing is passed over |

### How they interact

The loop asks Rust to `authorize` and `execute` tool calls, several at a time,
each served by a task of its own. `authorize` consults the plan, may ask a
person and ends by issuing a grant; `execute` redeems it, consults the ledger,
runs the tool, settles, records the outcome in the log, takes a checkpoint and
only then answers. Beside it `drive_run` records the phases of the run, the
handler of state commits takes checkpoints, and the commands behind Stop,
Resume, Approve, Reconcile and the model picker write to the same tables.
Workers dispatched by a run reserve a server and a share of the card, read the
shared memory and publish to it; whoever commits there delivers the pending
rows of the outbox to the task log. Inside a process one mutex guards each
connection, so single transactions do not overlap, but nothing spans two of
them, and nothing is held across an `await`. A second process may open the
same file. At a start, the application promotes what was pending, decides for
each unfinished run whether it can be offered, sweeps open transitions, puts
back pending questions, mirrors the legacy memory and drains the outbox.

The hard part is therefore order: every pair of transactions can have a death,
a second handler, a Stop, a decision or another process between them.

### The parts not modelled

Section 7 lists them with the reason for each. `PROJECT.json` lists every
component with its status, and every hazard found in the code with the
properties that would catch it, or why none does.

## 2. Modules

| module | models | state and how it corresponds |
|---|---|---|
| `RunMachine` | `events/machine.rs`, `TERMINAL_TYPES` | no variables. `MovesTo`, `PhaseEnds` are `advance`'s arms; `Rank`, `IsTerminal` its guards |
| `RunProjection` | `events/projection.rs` | no variables. `Apply`, `CatchUp`, `Rebuild` over records with the fields recovery reads |
| `TaskEventLog` | `record()` and the snapshot cache | `log` = rows of one run, `stored` = its snapshot row, `pc`/`event`/`folded` = where each writer is between its transactions and what it holds |
| `AtMostOnceEffect` | the promise, not the code | a key is open, permitted, spent, or waived |
| `EffectLedger` | `events/idempotency.rs` and its use in `execute` | `status`, `callOf` = the rows; `pc`, `key`, `call`, `answer` = attempts; the rest is history |
| `RunRecovery` | one run across deaths: driver, tool calls, checkpoints, startup, Stop, Resume, Reconcile | `log`, `status`, `ckpt`, `lease` are durable and survive `Crash`; everything else is lost with the process |
| `RunLease` | `events/lease.rs` and `RunClaim` | `leaseRow`, the clock, the lease each driver was given, and which processes claimed while they drove |
| `ToolCalls` | `authorize`, `execute`, the plan, the grants, the loop that sends calls | `pc` = how far the core got with each call, `turn` = the loop's calls without a result; `lease`, `taken`, `owed`, `seen`, `stopped` = `PlanRun`; `grant` = the ledger of grants |
| `Approvals` | the question's two records, the poll, the decision, Stop, the start | `queue`, `standing`, `stopped` = `ApprovalQueue`; `row` = `run_approvals`; `wait` = where `await_decision` is, one place per look; `hand` = where `decide_approval` is between its three writes |
| `Cancellations` | the table of tokens and `drive_run`'s use of it | `live`, `remembered` = the table's two maps; `flag`, `woken` = a token and its waiters; `found`, `flagged` = a Stop between the table, the flag and the notification |
| `ModelHandoff` | `execute`, `rollback`, `reconcile`, phase by phase | `held`, `stored` = the registry in memory and on disk; `ledger` = the rows; `record` = what a driver holds; `warm` = models served; `seed`, `resume` = the run's checkpoint seed and saved resume point |
| `ModelServers` | the table, admission, the scheduler of workers | `table`, `ready`, `order` = the table's entries and `last_used`; `state` = the processes; `pc`, `victims`, `killing` = where a caller is outside the lock; `residency`, `card` = the scheduler's verdicts and the card |
| `GenerationQueue` | the gateway's requests, the worker and its watcher, the desktop's chats, the runtime | `queue`, `depth`, `cancel`, `stream` = the scheduler's channels; `mutex`, `flag`, `stage` = the runtime; `watching` = watcher threads |
| `MemoryGraph` | the write side of the shared memory | `item`, `edges`, `log` = three tables; `legacy` = the mirrored store; `worker`, `window` = what was read before a write |
| `MemoryOutbox` | the outbox's way to the task log | `outbox`, `sent`, `tried` = the rows; `recorded` = events in the log; `pass` = the rows each thread is carrying |
| `MemoryFeed` | the changefeed and the window that follows it | extends `MemoryGraph`; `bells` = announcements on their way, `cache`, `drain`, `load` = the panel's references and its two kinds of request |
| `RunProjection_proofs`, `TaskEventLog_proofs`, `EffectLedger_proofs`, `RunRecovery_proofs`, `ToolCalls_proofs` | theorems about the module before the underscore | |
| `RunControl_proofs` | theorems about `RunLease`, `Cancellations` and `Approvals` | |
| `Serving_proofs` | theorems about `GenerationQueue`, `ModelServers` and `ModelHandoff` | |
| `Memory_proofs` | theorems about `MemoryGraph`, `MemoryFeed` and `MemoryOutbox` | |
| `MC_*` | constants of the runs | |

`RunProjection` extends `RunMachine`; `TaskEventLog` and `RunRecovery` extend
`RunProjection`; `MemoryFeed` extends `MemoryGraph` and composes each of its
writes with the bell it rings. `EffectLedger` instantiates `AtMostOnceEffect`.
`RunRecovery` composes the parts of a run: it reads a snapshot as the fold of
its log, which is sound because every read is one (`TaskEventLog`'s
`ViewsAgree`, which is proved); its tool calls use the ledger through the
actions `EffectLedger` has, and its lease is cut to who holds it, which
`RunLease` models with tokens and time. What stands between the model and the
call (`ToolCalls`, `Approvals`) is in `RunRecovery` one step, `Authorize`.

One action is one transaction, or one stretch under a lock, with the code
around it up to the next point where another actor may run. Awaits, polls and
the gaps between two locks are where actions end. The main correspondences:

- `RunRecovery`: `Start`, `RecordUnknown`, `NothingToRecover | OfferRecovery |
  CloseOff` are `recover_interrupted`, with a `Crash` possible between any two;
  `StartRun`, `RecordOpening` (five times), `EnterLoop`, `Verify`, `EndRun` are
  `drive_run`, and `GiveUp` a `?` before the loop; `Cancel`, `SetToken` are
  `agent_abort_run`; `Begin | Answer`, `RecordPending`, `Perform`, `Settle`,
  `RecordOutcome`, and `ReadHistory`, `ReadUnknown`, `SaveCheckpoint |
  CheckpointFails` are one tool call, the last three a state commit as well;
  `Assess`, `RecordResumed`, `Claim | ClaimRefused` are `agent_resume_run`.
- `ToolCalls`: `Check`, `AskPlan`, `Issue` and the ways to be refused are
  `authorize`; `Redeem`, `Withdraw`, `Start`, `Finish` are `execute`; `Turn`,
  `Ask`, `Send`, `Hear`, `GiveUp`, `Drop` are the loop's.
- `Approvals`: `Poll` is one turn of the loop in `await_decision`, its three
  looks three steps; `Decide`, `GrantStanding`, `Resolve` are `decide_approval`;
  `Restart` is what `lib.rs` puts back, or goes on without.
- `ModelHandoff`: the phases of `drive` one after another, `Undo` and what
  follows it `settle_failure`, `Close` a person's rollback and the sweep.

### What is abstracted

- Events carry a type, what they are about and whether their id is derived.
  Payloads, hashes, redaction and rows that cannot be read are left out.
- Arguments, fingerprints, keys, ids, texts and models are members of sets. A
  runtime that presents one key for two calls is included (`Presents`).
- What a model says, what a driver of a graphics card reports, whether a
  policy allows, whether a target satisfies what a transition demands: free
  choices.
- `EffectLedger` lets a tool that reports failure have acted or not; in
  `RunRecovery` every tool that runs acts and settles as succeeded, which is
  the case its properties are about.
- A checkpoint is the sequence it was taken at and the effects unknown then.
  The notes and the manifest it carries, and the two guards of
  `save_checkpoint` that refuse to empty them (`store.rs:963`), are left out:
  with them the state space is more than ten times as large. They cannot
  refuse a handler's checkpoint in favour of one behind it, since notes are
  accepted before the commit that carries them is saved. Reading them showed a
  hazard that no property covers: a handler copies the notes before it reads
  the sequence (`recording.rs:136`), so its save may put back notes older than
  those a commit has saved in between.
  The resumption's checks of policy, plan, workspace, owner and model are
  taken as passing: nobody changed the rest of the world in between.
- In `RunRecovery` one process is up at a time and drives the run at most
  once; a dead process's lease lapses at any moment. Several processes are the
  subject of `TaskEventLog`, `EffectLedger` and `RunLease`.
- `promote_pending_to_unknown`'s two statements are one step. In one process
  nothing is begun during a start. `CloseOff` is one step though the code
  records `recovery_failed` and the ending one after the other: the offer is
  made once under a derived id, so the attempts never reach
  `MAX_RECOVERY_ATTEMPTS` and the first of the two is never written.
- Storage faults are there where the code handles them differently from
  success: a blind begin, a lost settlement, a checkpoint that cannot be
  written, a snapshot or an approval's row not written, pending approvals that
  cannot be read back, a registry file or a transition's row not written, a
  delivery refused. Other reads and writes are taken to succeed: among them the
  sweep's own reading of the open transitions, and the marking of an outbox row
  or of its failure, either of which would end the pass.
- In `Approvals` a run asks one question at a time. In `ModelHandoff` there is
  one agent. In `MemoryGraph` a worker re-derives at most one item, and roles
  and projects stay as they are.
- `link()` and `invalidate_source` of the memory store, `renew` of the lease,
  `forget_run` and `forget_conversation` of the approvals are called by tests
  only and are no actions.

## 3. Runs

Every module with behaviour has one run. All state spaces are explored
completely within these bounds (two workers).

| run | asks | bounds and why they are enough | states |
|---|---|---|---|
| `task_event_log` | is the cache ever wrong, the history ever ended twice, the screen ever set back? | three writers (two share a process, so the mutex matters; one does not, so its absence does), four appended events after `run_created`: enough for a phase event, an ending, a late one of each kind, and a reconciliation | 115 thousand |
| `effect_ledger` | at most once, true answers, statuses that say what is the case, the refinement | one process, three attempts over two keys of which one is shared by two calls: an original, a concurrent retry and a conflicting call; one storage fault. Two processes are covered by the proofs, except for `UnknownMeansLost`, which is of one | 382 thousand |
| `run_recovery` | the whole life of a run across deaths, liveness included | one side effect, three starts (the first, one during the run, one during recovery or resumption), one resumption, one checkpoint of the tool call's that is not written (`MayMiss`). `MaxRecoveryAttempts` is the code's 2 | 1.1 million |
| `run_lease` | one driver, holder's release | four drivers in three processes, two of them in one, term 2, clock to 5, five claims: a process can claim twice, and a lease lapse twice and be taken over by a third | 5.4 million |
| `tool_calls` | is the budget kept with calls in flight, does a tool start inside its reservation, does every call end? | four calls: two searches alike, another, and the document the plan owes; grants that may lapse at once, reservations that lapse after one tick, two ticks to the plan's deadline. The order of the three terms is the code's (a grant 60 s, a slot five minutes) | 524 thousand |
| `approvals` | does a call act on the answer, do the records agree, does a wait end? | one run, two calls of which the second is the resumption's of the first, one death: a question can be asked, decided half-way, lost and asked again | 586 thousand |
| `cancellations` | is a stop ever lost, does every id reach, does a stopped turn end? | a fresh turn with a correlation id and a resumption without, room for two remembered stops (the code's 256): the table can be full | 51 thousand |
| `model_handoff` | does the record tell the binding, is an undone move served, is nothing left open? | a move of a run, the same act asked from the agent's screen, a person closing; two commands under way at once, one edit, one death, one failed write. Moves that load nothing, and moves back, are covered by the theorems | 1.3 million |
| `model_servers` | are servers accounted for, do card holders take turns, is everybody answered? | two workers on two models and a turn, on a card with room for one model, four servers, one that dies | 217 thousand |
| `generation_queue` | is only the abandoned stopped, at its next text; does every reader get an end? | two requests (one streamed), a chat, two chunks and three tokens, a model that comes or goes twice | 280 thousand |
| `memory_feed` | do results follow their inputs, does a correction replace what its author saw, is nothing missed? | a claim and one re-derived from it, a mirrored record, a correction, one revocation, edit and restart each, batches of two rows, one reload | 3.3 million |
| `memory_outbox` | does the task log match the outbox, is a publication recorded? | two publications, one tried twice, and a correction; two failed deliveries, two deaths | 86 thousand |

What the properties say is at their definitions. Those that belong together
are one property (`HistoryIsSound`, `ViewsAgree`, `StatusIsTrue`,
`NothingIsLeftOpen`, `BudgetIsKept`, `AnswersAreHonoured`, `MovesLeaveAModel`,
`ServersAreAccountedFor`, `StopsAsAsked`, `ResultsFollowTheirInputs`,
`RecordMatchesOutbox`), each the conjunction of named parts that are stated
and explained one by one. A type invariant that is proved is not checked again
by the run.

Some are worth reading with their limits:

- `UnknownMeansLost`, half of `StatusIsTrue`, is of one process: with two, a
  start promotes what the other is working on, and a person can be asked about
  an effect still under way.
- `OneDriverWithinTerm` is what the lease gives, a driver within its term: a
  run that outlasts 300 seconds is not renewed and can be claimed by another
  process while it is still driven. The owner being the process, a process
  that claims the run while it is driving it gives up what the lease promises
  of its own drivers. Both properties of the lease name that process
  (`doubled`) as their one exception, until its drivers have gone; the run has
  two drivers in one process, so that it happens.
- `ToldIsCheckpointed` asks of a checkpoint that could not be written that the
  events say so after the outcome, unless the run has ended and its events are
  closed.
- `RecordTellsBinding` excepts what follows four steps, which set `torn`: a
  death, or a row that cannot be written, once the commit has begun, the row
  not being written between the opening and the driver's return; a death while
  the registry's file is behind what is in memory; a retry or a close that
  works on a row somebody else is driving; and a row opened by a move that read
  the model before another changed it, or beside one at work. Deaths, failed
  writes and overlapping commands otherwise leave it standing. Each exception
  is needed: TLC finds the property violated without it.
- `CardHoldersTakeTurns` is of workers that both had to have the card; a
  worker judged to fit beside the others holds nothing.
- `OnlyTheAbandonedIsStopped` is of requests: the desktop's Stop waits for the
  mutex a generation holds, and so cannot end one. It says nothing of chats,
  which a gateway client's going can end, there being one flag.
  `AtMostOneUnreadPiece` counts text and not tokens: the callback that finds
  out that nobody reads is not called for a token that shows nothing, and a run
  of those is bounded by `max_tokens` only (section 6).
- `MovesLeaveAModel` excepts a move beside which another command has stopped
  servers (`crossed`): a reload of one finds room by stopping the other's.
- `NothingIsMissed` is of items. A line between two of them may be passed
  over.

`CHECK_DEADLOCK FALSE` is said where the system really stops: the bounded
history is full, the bounded clock has run out, every caller has been served,
or the application has been opened for the last time.

Every property has a mutant in a module (marked "Mutant"): a plausible bug in
one definition under which TLC finds the property violated.

## 4. Fairness

Stated only where the code's scheduling gives it:

- `RunRecovery`: the application is opened again (`WF(Start)`; a run nobody
  comes back to is not settled, and nothing could settle it); a start runs to
  its end; `agent_abort_run` sets the token after its record, the next
  statement; an effect that was begun is put on record, performed and settled.
  Nothing in the core times a tool out (the loop's timer, `tools.ts:292`, stops
  only the waiting), but the tools with side effects are synchronous writes in
  Rust or a container with a limit of its own, so they return. A settlement
  that cannot be written is not in this module, and `NothingIsLeftOpen` says
  nothing of one: `EffectLedger` has it. A driver whose token is set moves on. Nothing is assumed of a
  driver that was not stopped: a model may think for ever. A start's fairness
  is written as `<>[]enabled => []<>step`, which is weak fairness by
  definition, because evaluating `ENABLED` on an action that folds the log is
  slow. Deaths are bounded by `MaxStarts`.
- `ToolCalls`: the core's handlers, the loop's own steps and its timers. None
  on tools: one that never returns is what the loop's timer is for. None on
  the model, which need not ask for anything.
- `Approvals`: the poll, which sleeps and looks. None on people, on Stop or on
  the clock: `WaitEnds` takes any one of the three to have happened.
- `Cancellations`: a turn that can go on goes on, a Stop sets the flag and
  wakes, and a stage that does not listen to the token ends. A stage that does
  may wait for ever.
- `ModelHandoff`: a command goes on with what it awaits, and the sweep of a
  start is run.
- `ModelServers`: a caller does its next step. None on a server coming up, or
  on a caller finishing with the one it has.
- `GenerationQueue`: a request's handler, the worker, a generation under way.
  None on clients, chats, or a model being loaded.
- `MemoryOutbox`: a thread goes on with the rows it carries and a start drains.
  None on the next start: `PublicationIsRecorded` is of a program that stays
  up.

## 5. Theorems

Proved by TLAPS for every value of the constants (`PROJECT.json` lists them
with the properties they state).

**`RunProjection_proofs`** has no theorem about a behaviour, only lemmas about
the fold. The fold is a recursive function over the positions of a log. The
library's induction theorems take an operator, which the provers cannot
instantiate, so what holds at every position is shown by `Upwards`: of the
positions where it fails, a set of naturals, there would be a least one
(`LeastMember`, from well-foundedness). With it: the function exists
(`FoldExists`), two logs that agree up to a position fold alike (`FoldsAgree`),
folding on from a fold of a prefix gives the fold of the whole
(`CatchUpFromPrefix`), and an appended event is one `Apply` more
(`CatchUpAppend`).

**`TaskEventLog_proofs`**: `NothingFollowsEnding`, `KeyedEventsOnce` and with
them `HistoriesAreSound`: the step that matters is `Insert`, where the ending
and the derived id are looked up inside the appending transaction, and every
other action leaves the log alone. `SnapshotsAreFolds`: the stored snapshot, and
each that a writer holds between reading and saving, is the fold of the log up
to its own `seq` (`ViewsAreFolds`); the log only grows, so that stays true of it
however long it is held, by whichever process. Hence `SnapshotsAdvance` and
`ViewsTellOneStory`; for the ending, `EndingIsState` follows the state the
events themselves come to. `DraftsAssumption` says of events what the code does:
that an effect is unknown is recorded under that effect's key, and that a
recovery failed is recorded by a start, which records the ending next.

**`EffectLedger_proofs`**: `TypeCorrect`, `AtMostOnceHolds`, `AnswersAreTrue`,
`SettledFinal`, `PendingHolds`, `UnknownIsLost`, `StatusesAreTrue`,
`LedgerImplementsAtMostOnce`. `AtMostOnce` is not inductive: a second
performance is excluded by who may be about to perform. `OnceInv` adds that two
attempts past their begin under one key mean that the key was once let through
blind (`SoleWorker`), that an attempt past its begin has a row or a blind key
(`RowFirst`), and that under a key whose worker has not run the tool nothing
took place (`NotYetPerformed`). `TruthInv` ties an answer to what happened
through the row. `PendingHolds` is of any number of processes and inductive
with the types: the last one to come up promotes what the dead left, and from
then on only an attempt makes a row pending. `UnknownIsLost` assumes
`OneProcess`: an attempt past its begin lives in a process that is up, and
`Start` runs only while none is. `LedgerImplementsAtMostOnce` assumes nothing:
with attempts in any processes, deaths, verdicts and storage faults every step
is the abstract `Permit`, `Perform`, `Lose`, a waiver of the one key a fault
was met on, or a stutter.

**`RunRecovery_proofs`**: `EffectsOnce`, `EndedIsNotDriven`,
`CheckpointsAdvance`, `ToldIsPast`, for any side effects, starts,
resumptions and checkpoints that cannot be written. `EffectsOnce` rests on `EffectInv`: a handler about to perform has
its row, and under its key, as under a key with no row, nothing took place; a
death takes the handlers and leaves the rows. `EndedIsNotDriven` rests on
`LogStep`, which says what a step may do to the log: nothing, record something
that is no ending, record an ending (only Stop and the driver's own return do),
or close the run off (only a start does, and `IdleUntilServing` says that no
driver is there yet). `ToldIsPast` follows a result from the log to the store:
`HeldRecorded` (a handler holds a gathered checkpoint only once its outcome is
recorded), `AtWork` (handlers are at work only while the run is driven, or once
it is over) and `Covered` (the checkpoint a handler holds, and the stored one
once the loop is told, are past every outcome of that call). `save_checkpoint`
keeps the later of two, so a handler that saves late does not undo what
another's caller was told; and where the save failed, the event that says so is
in the log past the outcome, for the log only grows. It uses
`CommitAssumption`, that a state commit is not a call. `NothingLooksLive`: a start ends a run's recovery by finding it
over, by offering it, which leaves what nobody settled as it was in the fold of
the log (`OfferLeavesUnknown`), or by closing it off, which ends it
(`CloseOffEnds`). `TypeCorrect`: a checkpoint, held or stored, is at a position
the log has (`CheckpointWithin`).

**`ToolCalls_proofs`**: `TypeCorrect`, `BudgetHolds`,
`DeliverableKeepsItsSteps`, `BudgetsAreKept`, `HaltHolds`, for any calls, terms
and clock. The invariant adds to the two halves of the budget that the calls
charged are at most the steps taken (`ChargedOnce`) and that what is owed was
owed at first (`OwedAtFirst`). Slots are counted by cardinality: `TakeSlot`,
`GiveSlot` and `Reclaims` say what a step of the plan does to the number held,
and each action is one of them. `ReserveKeeps` is the heart: a slot is taken
only below the ceiling, and by an ordinary call only below the ceiling less the
hold. `StartsWithASlot` needs that a slot is kept from the plan's answer to the
start (`SlotIsKept`), though each question to the plan reclaims what has
lapsed: a turn is of reads or of one call (`TurnsAreApart`), a read's slot is
as old as its grant, which lapses first, and while any other call is at work
the plan is asked about no other.

**`RunControl_proofs`, leases**: `LeaseTypeCorrect`, `TokensRise`,
`LeaseExcludes` and `StragglerKeepsOff`, for any drivers of any processes,
several of one process included. The invariant (`RowIsOwn`) is about processes
that did not claim the run while driving it: their driver is alone, a row in
their name is the lease that driver was given, and within its term the row is
still there; and a lease bears its driver's process (`OwnName`). So of two live
leases of such processes both would be the row. It has to be inductive while
other processes claim twice, clear their own rows and let the token start
again: none of that touches a live row of somebody else, as `acquire` refuses
it and `release` compares owners.

**`RunControl_proofs`, approvals**: `ApprovalTypeCorrect`, `ActsOnlyOnAnswer`,
`TwoRecordsAgree`, `StandingComesFromAlways`, `AnswersHonoured`. The invariant
says of every question that the queue's decision is one that was given
(`QueueIsAnswered`), that a question nobody asked has no record
(`NotYetAsked`), and that the table follows the queue, a decision on its way to
the table being in the hand of the person who took it (`TableFollowsQueue`).

**`RunControl_proofs`, cancellation**: `CancelTypeCorrect`, and assuming
`IdsAreDistinct` (no two turns bear one id) `NoStopIsLost`,
`OnlyAskedTurnsStop`, `EndedTurnsAreForgotten`, `EveryIdReaches`. The invariant
ties the table to the turns: an id reaches the turn that named it
(`LiveIsNamed`, `NamedIsLive`), what is remembered was asked
(`RememberedIsAsked`), and a token set was asked for (`StoppedIsAsked`).
Without the assumption `EitherIdReaches` is false (section 6).

**`Serving_proofs`, generations**: `QueueTypeCorrect`, `OnlyTheAbandonedStops`,
`ReadersAreTold`, for any requests, chats, chunks and tokens. The one flag is
what makes this hard: many lower it. While a request is generated it is lowered
only for that request (`TheirOwnStops`, `LoweredForItself`), because every other
who lowers it needs the mutex the generation holds, and the watcher, who does
not, watches the worker's own job (`WatchedIsTheWorker`). The depth the gateway
reports is the cardinality of the jobs sent, waiting or worked on, and `active`
that of the requests not over (`CountsAreKept`): the counts are kept apart from
what they count in the code, and this says that they agree.

**`Serving_proofs`, servers**: `ServersAccounted`, `TurnsOnTheCard`, for any
callers, models and servers, of which any may die at any time. The invariant
says that the order kept for reclaiming is strict and of the models in the table
(`OrderIsTheTables`), that a process outside the table is over or in the hands
of the caller ending it (`RunningIsListed`, `KillingIsBrief`), that what a
caller was given was started and is used only once it was ready
(`GivenWasStarted`), and that a worker which has to have the card and is past
waiting for it holds it, alone (`CardIsHeld`).

**`Serving_proofs`, changes of model**: `ResumePointIsBound`,
`MovesLeaveSomething` and `RowsTellTheBinding`, for any number of commands at
once, deaths and failed writes. Every place a command can be at says what its
record must hold (`CommandsAreWhole`) and each of the sixteen steps keeps that,
one lemma a step. `MovesLeaveSomething` adds that the source an undo has
loaded again is served unless servers were stopped beside it (`UndoneIsServed`
is inductive with that). `RowsTellTheBinding` adds, as long as nothing has torn
the newest row from the binding, that at most one command is at work on a row
(`OneDrives`), what the binding is at each place of that command (`Placed`),
that only the newest row can be open, and that a row still open which nobody
drives names the model the agent is on (`Standing`); a command beside it that
is looking or about to open is either refused or tears.

**`Memory_proofs`, the graph**: `ResultsFollow`, `CorrectionsAreOfWhatWasRead`,
for any items, claims, readers and workers. `GraphInvariant` says that what
stands rests on what stands and restrictions reach what rests on them, that
every row is told in the log, and that who is about to publish or correct has
looked at a revision there was. What a change reaches is the least set that
holds its roots and the dependents of its members; the proofs use those two
facts and no more, so they do not depend on the order the code walks in.

**`Memory_proofs`, the window**: `FeedTypeCorrect`, `NoChangeIsPassedOver`, for
any batch size. What the panel shows, what a catching-up started from, and what
its answer would make of that are each right up to their own cursor (`Good`):
an item they show wrongly has its latest row after the cursor. `AnswersCover`
says of `changes_since` that up to the cursor it returns nothing newer was left
out, although it reads the rows as they are now and not as they were when
logged; `AppliedIsGood` folds the answer, by induction on positions as above;
`GoodStays` is that a write puts its rows after every cursor.

**`Memory_proofs`, the outbox**: `OutboxIsCarried`, for any publications,
threads, failed deliveries and deaths. While the program runs, every row nobody
has tried or marked is on its way: some pass is about to list the pending rows
or has this one before it (`NoneForgotten`), since a commit announces itself in
the step that writes the row and a start lists before it serves. A pass that
marks finds its row recorded (`HandedOverIsRecorded`), which other passes
cannot undo: the log is only added to. `OnwardsKeeps` is what a delivery that
failed and one that was marked have in common.

**Only model-checked**: liveness under fairness, which is beyond the prover:
`NothingIsLeftOpen`, `TurnEnds`, `WaitEnds`, `StoppedTurnEnds`, `SweptAtStart`,
`EveryCallEnds`, `EveryReaderIsAnswered`, `PublicationIsRecorded`. Every
invariant and every action property of the runs is a theorem.

## 6. Where the code and its documentation part

Each formula below states what a text of the repository says, at the end of its
module under a heading of its own. No run checks them: TLC finds each violated,
under the constants of the module's run unless the table says otherwise.

| formula | the text | what the code does |
|---|---|---|
| `RunRecovery` `OffersAreBounded` | `events/mod.rs:40` recovery has to be bounded | the offer is idempotent, so attempts stop counting at 1 and the run is offered at every start (needs more starts than the run has) |
| `RunRecovery` `UnsettledStopsResume` | `commands/agent.rs:6215` a side effect nobody settled stops a resumption outright | a death between the promotion and its events leaves the row unknown and nothing that says so |
| `RunRecovery` `ResumedIsDriven` | `commands/agent.rs:6256` no resumption is recorded that then may not proceed | it is recorded before the claim, which a dead process's lease refuses for up to five minutes |
| `RunRecovery` `NothingNewStarts` | `agent_runtime/mod.rs:1350` after the ending nothing new starts | a call authorised before Stop begins after it |
| `ToolCalls` `RefusedHoldsNothing` | `agent_runtime/mod.rs:2848`, `plan.rs:535` a refusal after admission costs no step | a redemption that fails returns without `release_reservation`; the slot is held until its term |
| `ToolCalls` `WhatRanIsCounted` | `agent_runtime/mod.rs:2380` counted whatever the tool returned | a slot older than five minutes is reclaimed though its tool runs on; when it finishes nothing is charged |
| `ToolCalls` `GrantsDieWithRun` | `grants.rs:24` a run's grants die with the run | `revoke_run` has no caller. Nothing is done under such a grant: `execute` looks for the plan first |
| `Approvals` `DecidedOnce` | `orchestrator/approvals.rs:326` a decision is final | the table is written last; a death before it puts the question back, to be decided the other way |
| `Approvals` `ResumedReadsDecision` | `orchestrator/approvals.rs:240` a resumed run reads the decision rather than asking again | nothing reads it; the question is asked under a fresh id |
| `Approvals` `NoQuestionOutlivesItsRun` | `orchestrator/approvals.rs:107` an approval does not outlive its run | a wait that is cancelled or times out leaves its request pending in both records |
| `Cancellations` `RememberedAwaitsATurn` | `cancellation.rs:54` remembered stops await a run that never started | a Stop that finds its turn just over is remembered for the life of the process |
| `ModelHandoff` `NothingIsSwappedUnderARound` | `model_transition.rs:106` nothing new is scheduled while draining | the run's state is read once; a round may begin after that and lose its server |
| `ModelServers` `NotReadyIsStopped` | `serving/mod.rs:846` a server that never became ready is stopped | `stop` names a model: by then its server may have answered somebody else |
| `ModelServers` `DeadIsReplaced` | `serving/mod.rs:832` a server that died is caught where it matters | the failed request stops nothing; the entry stays ready and is handed out again |
| `ModelServers` `EvictionFollowsUse` | `serving/mod.rs:702` the time a server was last handed to a caller | a page read goes by `endpoint_for` and `touch` has no caller |
| `ModelServers` `WorkersTakeTurns` | `scheduling.rs:203` one at a time on the card | workers judged before either loaded both take no card, and one's admission stops the other's server |
| `GenerationQueue` `StopIsNotOverwritten` | `scheduler.rs:72` within one token or one prefill chunk | the watcher clears the flag once, before `generate` raises it; the whole prompt is decoded |
| `GenerationQueue` `StopsWithinOneToken` | `scheduler.rs:300` the generation loop stops at the next token | only a token that shows text reaches the callback (`runtime.rs:888`); silent ones go on being decoded for a client that has gone |
| `GenerationQueue` `ActiveIsServed` | `gateway/state.rs:175` marks a request finished however it ended | a client that hangs up is never counted down |
| `GenerationQueue` `StopEndsTheChat` | `manager.rs:409` a generation can be cancelled by `stop_generation` | it waits for the lock the generation holds |
| `MemoryGraph` `RevocationLasts` | `runtime_memory.rs:593` a person whose access was withdrawn does not get it back | mirroring a changed legacy record writes it with nobody revoked (needs a second text) |
| `MemoryFeed` `QuietWindowIsCurrent` | `AgentMemoryPanel.tsx:153` pulls changes until caught up | a bell heard during a drain is dropped |
| `MemoryFeed` `CaughtUpHoldsTheSnapshot` | `runtime_store.rs:2635` a client caught up holds what a snapshot holds | a line whose end is later in the batch is passed over (needs two corrections and batches of six rows) |
| `MemoryFeed` `CursorNeverGoesBack` | `memoryFeed.ts:8` guards against an old revision coming back | a reload and a drain that overlap each put their own cache in place |

Some disagreements are the exceptions a property names, or need two of
something a run has one of:

- Two presses of Resume in one process both claim the lease, its owner being
  the process (`events/lease.rs:12` names the case it is for), and as a release
  deletes the row, the token starts again and a straggler can clear another's
  lease (`events/store.rs:800`). The run of `RunLease` has this: it is the
  exception `doubled` in `OneDriverWithinTerm` and `ReleasedByHolder`, and both
  are violated without it. The same two turns register one run id, and the
  first is no longer reached by it: `EitherIdReaches` with two turns of one id
  (`cancellation.rs:23`).
- Two model changes at once: the same move asked twice drives one record twice,
  and the second undoes what the first committed (`model_handoff.rs:306`); a
  row closed by a person while its driver is at work goes from failed to
  committed (`model_handoff.rs:394`); of two moves loading at once the later
  stops the server the other has just started again.
- A death between `rebind_model` and the last save of a transition's row: the
  sweep closes it as failed, "the agent is on the model it was on", while the
  registry names the target; `CommitPending`'s branch is never reached, as the
  row says requested throughout (`model_transition.rs:51`).

The last two are in the run of `ModelHandoff`, as the exceptions `torn` and
`crossed` that its properties name.

And some are in code with no module, because no invariant relating its parts
holds of it:

- The record of which model is resident in this process
  (`ai_engine/activation.rs`, `orchestrator_state.rs`): a failed load leaves it
  naming the model that was unloaded (`manager.rs:278`); the Models page
  unloads without telling it (`manager.rs:393`); of two loads that overlap the
  one replaced may write last (`manager.rs:295`); and `ensure_ready` takes steps
  its own table of transitions does not have (`activation.rs:332`).
- A conversation is one JSON file that every operation reads, changes and
  writes whole without a lock (`conversations.rs:718` and the rest): the window
  and a run's driver can lose one of two updates.

## 7. Plan, and what is not modelled

Done, each with proofs: the record of a run and its recovery; the way from a
call to a tool, approvals and cancellation; changes of model, servers and
generations; the shared memory, its outbox and its window.

What would come next: a composition of `ToolCalls` with `Approvals`, whose
waits are what make a reservation lapse; sub-agents' own slots by key
(`subagents/manager.rs`) over the ledger.

Not modelled:

- **Conversations, and the record of the resident model**: section 6.
- **State commits and run memory**: the checkpoint a commit takes is in
  `RunRecovery`; the rest compares the loop's notes with the record, a function
  of data with no other actor.
- **Audit chain**: one append under one mutex in one transaction that reads the
  last row itself. No step of another actor fits in between; what remains is
  hashing.
- **Policy, identity and sovereignty**: functions of their inputs, taken as
  free choices where a verdict matters.
- **Knowledge index and ingestion, routing, prompts, OCR, documents**: data and
  I/O, with little control a model would tell apart.
- **The HTTP gateway** beyond its requests' life, **hooks, skills, the registry
  of models, the memory engine**: configuration and lookups.
- **The activator's lease and idle release, the gateway's request registry**:
  called by nothing.
- **The transport to the Node process**: the modules take a call as made and
  answered, or lost with the process; `PROJECT.json` has the hazard.
- **Vendored code**, beyond the order in which its loop sends tool calls.

## 8. Running it

    tlc -config EffectLedger.cfg MC_EffectLedger
    tlapm EffectLedger_proofs.tla

Each `.cfg` names the run it belongs to in `PROJECT.json`.
