---------------------------- MODULE RunRecovery ----------------------------
(***************************************************************************)
(* One run across the deaths of the application: what drives it            *)
(* (drive_run() in commands/agent.rs), the tool calls it makes (execute()  *)
(* in agent_runtime/mod.rs), the point it can be continued from            *)
(* (checkpoint() in recording.rs, save_checkpoint() in store.rs), what a   *)
(* start does about it (recover_interrupted() in store.rs), and how a      *)
(* person stops it, settles its effects and resumes it.                    *)
(*                                                                         *)
(* One process at a time has the database open, and drives the run at most *)
(* once; several drivers of one run are RunLease's subject.  Within the    *)
(* process the driver, the handlers of tool calls, the handler of state    *)
(* commits and the commands behind the buttons interleave between          *)
(* transactions.  Every read of a snapshot is the fold of the log, which   *)
(* is what TaskEventLog's ReadIsRebuild shows it to be.                    *)
(***************************************************************************)
EXTENDS RunProjection

CONSTANTS
  Keys,                 \* side effects the run makes, by idempotency key
  MaxRecoveryAttempts,  \* MAX_RECOVERY_ATTEMPTS, 2 in the code
  MaxStarts,            \* bound: starts of the application
  MaxResumes,           \* bound: presses of Resume
  MayMiss               \* bound: takers whose checkpoint may fail to be written

ASSUME LimitsAssumption ==
  MaxRecoveryAttempts \in Nat /\ MaxStarts \in Nat /\ MaxResumes \in Nat

Commit == "commit"      \* the handler of the loop's state commits
Takers == Keys \cup {Commit}

ASSUME CommitAssumption == Commit \notin Keys /\ MayMiss \subseteq Takers

VARIABLES
  \* durable
  log,         \* the run's events
  status,      \* its row of the effect ledger under each key
  ckpt,        \* its row of run_checkpoints
  lease,       \* who holds its lease: "nobody", this process, a dead one
  \* the process
  stage,       \* "down", "recording" while it starts, then "serving"
  stranded,    \* effects promoted at this start and not yet put on record
  driver,      \* where the command that drives or resumes the run is
  opened,      \* how many of its opening events it has recorded
  stop,        \* its cancellation token
  cancelling,  \* Stop was pressed, and the token is not set yet
  call,        \* where the handler of each tool call is
  taking,      \* how far each taker is with its checkpoint
  held,        \* the checkpoint it is building, not yet saved
  telling,     \* effects a person settled and whose event is not yet written
  \* history
  starts, resumes,
  performed,   \* how many times each effect took place
  missed,      \* takers whose checkpoint could not be written
  offers       \* how many starts left the run open, to be picked up again

durable == <<log, status, ckpt, lease>>
startup == <<stage, stranded>>
drive == <<driver, opened, stop, cancelling>>
points == <<taking, held>>
handlers == <<call, points, telling>>
history == <<starts, resumes, performed, missed, offers>>
vars == <<durable, startup, drive, handlers, history>>

NoCheckpoint == [seq |-> 0, unknown |-> {}]

Snapshot == Rebuild(log)

Init ==
  /\ log = <<>>
  /\ status = [k \in Keys |-> "absent"]
  /\ ckpt = NoCheckpoint
  /\ lease = "nobody"
  /\ stage = "down"
  /\ stranded = {}
  /\ driver = "none"
  /\ opened = 0
  /\ stop = FALSE
  /\ cancelling = FALSE
  /\ call = [k \in Keys |-> "idle"]
  /\ taking = [t \in Takers |-> "no"]
  /\ held = [t \in Takers |-> NoCheckpoint]
  /\ telling = {}
  /\ starts = 0
  /\ resumes = 0
  /\ performed = [k \in Keys |-> 0]
  /\ missed = {}
  /\ offers = 0

-----------------------------------------------------------------------------
(* Appending.                                                              *)

Duplicate(draft) == draft.keyed /\ \E n \in 1 .. Len(log) : log[n] = draft

\* The log once record() has returned: unchanged past an ending or by a
\* duplicate.
Recorded(draft) ==
  IF Ended(log) \/ Duplicate(draft) THEN log ELSE Append(log, draft)

\* The same of append_past_ending().
RecordedPastEnding(draft) ==
  IF Duplicate(draft) THEN log ELSE Append(log, draft)

-----------------------------------------------------------------------------
(* A start: recover_interrupted(), before anything else can write.         *)

\* Mutant: pending effects are left as they were.
StartWithoutPromotion ==
  /\ stage = "down"
  /\ starts < MaxStarts
  /\ starts' = starts + 1
  /\ stranded' = {k \in Keys : status[k] = "pending"}
  /\ stage' = "recording"
  /\ UNCHANGED <<durable, drive, handlers, resumes, performed, missed, offers>>

\* Every effect still pending becomes unknown.
Start ==
  /\ stage = "down"
  /\ starts < MaxStarts
  /\ starts' = starts + 1
  /\ stranded' = {k \in Keys : status[k] = "pending"}
  /\ status' = [k \in Keys |-> IF status[k] = "pending" THEN "unknown" ELSE status[k]]
  /\ stage' = "recording"
  /\ UNCHANGED <<log, ckpt, lease, drive, handlers, resumes, performed,
                 missed, offers>>

\* Each gets an event against its run, refused if the run is over.
RecordUnknown(k) ==
  /\ stage = "recording"
  /\ k \in stranded
  /\ stranded' = stranded \ {k}
  /\ log' = Recorded(Keyed("tool_effect_unknown", k))
  /\ UNCHANGED <<status, ckpt, lease, stage, drive, handlers, history>>

\* unfinished_runs() does not list the run.
NothingToRecover ==
  /\ stage = "recording" /\ stranded = {}
  /\ log = <<>> \/ Ended(log)
  /\ stage' = "serving"
  /\ UNCHANGED <<durable, stranded, drive, handlers, history>>

FoundUnfinished ==
  /\ stage = "recording" /\ stranded = {}
  /\ log # <<>> /\ ~Ended(log)
  /\ stage' = "serving"

WorthOffering ==
  /\ ckpt # NoCheckpoint
  /\ Snapshot.unknown = {}
  /\ Snapshot.attempts < MaxRecoveryAttempts

\* Left open for a person to resume.  A duplicate leaves it open as well.
OfferRecovery ==
  /\ FoundUnfinished
  /\ WorthOffering
  /\ log' = Recorded(Keyed("recovery_started", "recovery"))
  /\ offers' = offers + 1
  /\ UNCHANGED <<status, ckpt, lease, stranded, drive, handlers, starts,
                 resumes, performed, missed>>

\* Mutant: a run with nothing to continue from is left alone.
CloseOffCheckpointed ==
  /\ FoundUnfinished
  /\ ~WorthOffering
  /\ log' = IF ckpt = NoCheckpoint THEN log ELSE Recorded(Keyed("run_degraded", "recovery"))
  /\ UNCHANGED <<status, ckpt, lease, stranded, drive, handlers, history>>

\* Everything else is closed off, having first said so if its attempts are
\* used up.
CloseOff ==
  /\ FoundUnfinished
  /\ ~WorthOffering
  /\ LET exhausted == IF Snapshot.attempts >= MaxRecoveryAttempts
                      THEN <<Keyed("recovery_failed", "recovery-exhausted")>>
                      ELSE <<>>
     IN log' = log \o exhausted \o <<Keyed("run_degraded", "recovery")>>
  /\ UNCHANGED <<status, ckpt, lease, stranded, drive, handlers, history>>

\* The process dies, at any moment before its last start (MaxStarts).
Crash ==
  /\ stage # "down"
  /\ starts < MaxStarts
  /\ stage' = "down"
  /\ stranded' = {}
  /\ driver' = "none"
  /\ opened' = 0
  /\ stop' = FALSE
  /\ cancelling' = FALSE
  /\ call' = [k \in Keys |-> "idle"]
  /\ taking' = [t \in Takers |-> "no"]
  /\ held' = [t \in Takers |-> NoCheckpoint]
  /\ telling' = {}
  /\ lease' = IF lease = "held" THEN "dead" ELSE lease
  /\ UNCHANGED <<log, status, ckpt, history>>

-----------------------------------------------------------------------------
(* The command that drives the run.                                        *)

Serving == stage = "serving"

\* What it records before the loop is asked for anything, with random ids:
\* a resumption records all of them again.
Opening == <<"run_created", "run_classified", "run_routed", "plan_ready",
             "run_started">>

\* The run's first attempt.  Nobody else can have claimed an id just made.
StartRun ==
  /\ Serving
  /\ driver = "none" /\ log = <<>> /\ lease = "nobody"
  /\ driver' = "opening"
  /\ opened' = 0
  /\ lease' = "held"
  /\ UNCHANGED <<log, status, ckpt, startup, stop, cancelling, handlers,
                 history>>

\* A record that is refused is only logged.
RecordOpening ==
  /\ driver = "opening"
  /\ opened < Len(Opening)
  /\ log' = Recorded(Fresh(Opening[opened + 1]))
  /\ opened' = opened + 1
  /\ UNCHANGED <<status, ckpt, lease, startup, driver, stop, cancelling,
                 handlers, history>>

\* The last check of the token before the request is sent.
EnterLoop ==
  /\ driver = "opening"
  /\ opened = Len(Opening)
  /\ ~stop
  /\ driver' = "looping"
  /\ UNCHANGED <<durable, startup, opened, stop, cancelling, handlers,
                 history>>

\* Leaving drive_run(): the tables are dropped and the lease given back.
Return ==
  /\ driver' = "none"
  /\ opened' = 0
  /\ stop' = FALSE
  /\ lease' = "nobody"

\* A "?" between the claim and the loop: no event says that it happened.
GiveUp ==
  /\ driver = "opening"
  /\ opened \notin {1, 2}
  /\ Return
  /\ UNCHANGED <<log, status, ckpt, startup, cancelling, handlers, history>>

\* The loop has answered, been stopped or run out of time, and there is an
\* answer to verify.
Verify ==
  /\ driver = "looping"
  /\ driver' = "verifying"
  /\ log' = Recorded(Fresh("verification_started"))
  /\ UNCHANGED <<status, ckpt, lease, startup, opened, stop, cancelling,
                 handlers, history>>

\* The ending, refused if the run already has one.
EndRun(ending) ==
  /\ driver \in {"looping", "verifying"}
  /\ log' = Recorded(Keyed(ending, "ending"))
  /\ Return
  /\ UNCHANGED <<status, ckpt, startup, cancelling, handlers, history>>

\* agent_abort_run(): the ending is recorded, if there is none yet ...
Cancel ==
  /\ Serving
  /\ log # <<>> /\ ~cancelling
  /\ driver # "none" \/ ~Ended(log)
  /\ log' = Recorded(Fresh("run_cancelled"))
  /\ cancelling' = TRUE
  /\ UNCHANGED <<status, ckpt, lease, startup, driver, opened, stop,
                 handlers, history>>

\* Mutant: only the record is written.
ForgetToken ==
  /\ cancelling
  /\ cancelling' = FALSE
  /\ UNCHANGED <<durable, startup, driver, opened, stop, handlers, history>>

\* ... and then the token is set, or remembered for a driver that has not
\* registered the run's id yet.
SetToken ==
  /\ cancelling
  /\ cancelling' = FALSE
  /\ stop' = (driver # "none")
  /\ UNCHANGED <<durable, startup, driver, opened, handlers, history>>

-----------------------------------------------------------------------------
(* A tool call: authorised, then begun, performed, settled, recorded and    *)
(* checkpointed by its own handler, beside the driver.                     *)

\* authorize(): refused once the run is over.
Authorize(k) ==
  /\ driver = "looping"
  /\ call[k] = "idle"
  /\ ~Ended(log)
  /\ log' = Recorded(Fresh("tool_authorized"))
  /\ call' = [call EXCEPT ![k] = "authorized"]
  /\ UNCHANGED <<status, ckpt, lease, startup, drive, points, telling, history>>

\* execute() runs while the plan is registered, which is until the driver
\* returns.
Redeemed(k) == call[k] = "authorized" /\ driver \in {"looping", "verifying"}

\* Mutant: an effect that is not settled is begun again.
BeginUnlessSettled(k) ==
  /\ Redeemed(k)
  /\ status[k] \notin {"succeeded", "failed"}
  /\ status' = [status EXCEPT ![k] = "pending"]
  /\ call' = [call EXCEPT ![k] = "claimed"]
  /\ UNCHANGED <<log, ckpt, lease, startup, drive, points, telling, history>>

\* No row under this key: the intent is written ...
Begin(k) ==
  /\ Redeemed(k)
  /\ status[k] = "absent"
  /\ status' = [status EXCEPT ![k] = "pending"]
  /\ call' = [call EXCEPT ![k] = "claimed"]
  /\ UNCHANGED <<log, ckpt, lease, startup, drive, points, telling, history>>

\* ... and then the event, refused if the run has ended meanwhile.
RecordPending(k) ==
  /\ call[k] = "claimed"
  /\ log' = Recorded(Fresh("tool_effect_pending"))
  /\ call' = [call EXCEPT ![k] = "begun"]
  /\ UNCHANGED <<status, ckpt, lease, startup, drive, points, telling, history>>

\* A row already there: its outcome is replayed, or the call refused.
Answer(k) ==
  /\ Redeemed(k)
  /\ status[k] # "absent"
  /\ log' = Recorded(Fresh(IF status[k] \in {"succeeded", "failed"}
                           THEN "tool_replayed" ELSE "tool_refused"))
  /\ call' = [call EXCEPT ![k] = "answered"]
  /\ UNCHANGED <<status, ckpt, lease, startup, drive, points, telling, history>>

Perform(k) ==
  /\ call[k] = "begun"
  /\ performed' = [performed EXCEPT ![k] = @ + 1]
  /\ call' = [call EXCEPT ![k] = "ran"]
  /\ UNCHANGED <<durable, startup, drive, points, telling, starts, resumes,
                 missed, offers>>

Settle(k) ==
  /\ call[k] = "ran"
  /\ status' = IF status[k] = "pending"
               THEN [status EXCEPT ![k] = "succeeded"] ELSE status
  /\ call' = [call EXCEPT ![k] = "settled"]
  /\ UNCHANGED <<log, ckpt, lease, startup, drive, points, telling, history>>

\* Mutant: the loop is told before the checkpoint is taken.
TellAtOnce(k) ==
  /\ call[k] = "settled"
  /\ log' = Recorded(About("tool_succeeded", k))
  /\ call' = [call EXCEPT ![k] = "told"]
  /\ UNCHANGED <<status, ckpt, lease, startup, drive, points, telling, history>>

\* remember_outcome(), first half; lost if the run has ended meanwhile.
RecordOutcome(k) ==
  /\ call[k] = "settled"
  /\ log' = Recorded(About("tool_succeeded", k))
  /\ call' = [call EXCEPT ![k] = "recorded"]
  /\ UNCHANGED <<status, ckpt, lease, startup, drive, points, telling, history>>

\* Mutant: the sequence of the next event, not of the last.
ReadAhead(t) ==
  /\ driver \in {"looping", "verifying"}
  /\ taking[t] = "no"
  /\ IF t = Commit THEN driver = "looping" ELSE call[t] = "recorded"
  /\ held' = [held EXCEPT ![t].seq = Len(log) + 1]
  /\ taking' = [taking EXCEPT ![t] = "reading"]
  /\ UNCHANGED <<durable, startup, drive, call, telling, history>>

\* checkpoint(), for a tool call whose outcome is recorded and for a commit of
\* the loop's state: the sequence of the last event is read, if the run has its
\* seed ...
ReadHistory(t) ==
  /\ driver \in {"looping", "verifying"}
  /\ taking[t] = "no"
  /\ IF t = Commit THEN driver = "looping" ELSE call[t] = "recorded"
  /\ held' = [held EXCEPT ![t].seq = Len(log)]
  /\ taking' = [taking EXCEPT ![t] = "reading"]
  /\ UNCHANGED <<durable, startup, drive, call, telling, history>>

\* ... and then the effects nobody settled.
ReadUnknown(t) ==
  /\ taking[t] = "reading"
  /\ held' = [held EXCEPT ![t].unknown = {k \in Keys : status[k] = "unknown"}]
  /\ taking' = [taking EXCEPT ![t] = "built"]
  /\ UNCHANGED <<durable, startup, drive, call, telling, history>>

\* The driver has returned and taken the seed with it: there is nothing to
\* checkpoint against.
NoSeed(k) ==
  /\ driver \notin {"looping", "verifying"}
  /\ call[k] = "recorded" /\ taking[k] = "no"
  /\ call' = [call EXCEPT ![k] = "told"]
  /\ UNCHANGED <<durable, startup, drive, points, telling, history>>

\* The loop has the result of the call whose checkpoint this was.
Told(t) ==
  /\ call' = IF t = Commit THEN call ELSE [call EXCEPT ![t] = "told"]
  /\ taking' = [taking EXCEPT ![t] = "no"]
  /\ held' = [held EXCEPT ![t] = NoCheckpoint]

\* save_checkpoint(): dropped if the stored one was taken after a later event.
SaveCheckpoint(t) ==
  /\ taking[t] = "built"
  /\ ckpt' = IF ckpt.seq > held[t].seq THEN ckpt ELSE held[t]
  /\ Told(t)
  /\ UNCHANGED <<log, status, lease, startup, drive, telling, history>>

\* checkpoint_or_note(): one that cannot be written is noted in the run's events,
\* and the loop is told all the same (bound: once for each of MayMiss).
CheckpointFails(t) ==
  /\ taking[t] = "built" /\ t \in MayMiss \ missed
  /\ missed' = missed \cup {t}
  /\ log' = Recorded(Fresh("checkpoint_failed"))
  /\ Told(t)
  /\ UNCHANGED <<status, ckpt, lease, startup, drive, telling, starts, resumes,
                 performed, offers>>

-----------------------------------------------------------------------------
(* A person resumes the run, or settles an effect.                         *)

\* assess_resumability(), with the rest of the world as it was.
Assess ==
  /\ Serving
  /\ driver = "none" /\ log # <<>>
  /\ resumes < MaxResumes
  /\ ckpt # NoCheckpoint
  /\ ckpt.unknown = {}
  /\ ~IsTerminal(Snapshot.state)
  /\ driver' = "resuming"
  /\ resumes' = resumes + 1
  /\ UNCHANGED <<durable, startup, opened, stop, cancelling, handlers,
                 starts, performed, missed, offers>>

\* The resumption is recorded before the loop is asked to do anything; if it
\* cannot be, the command fails.
RecordResumed ==
  /\ driver = "resuming"
  /\ log' = Recorded(Fresh("run_resumed"))
  /\ driver' = IF Ended(log) THEN "none" ELSE "claiming"
  /\ stop' = (stop /\ ~Ended(log))
  /\ UNCHANGED <<status, ckpt, lease, startup, opened, cancelling, handlers,
                 history>>

\* drive_run() claims the run: what is left of a dead process's lease has lapsed.
Claim ==
  /\ driver = "claiming"
  /\ ~stop
  /\ lease' = "held"
  /\ driver' = "opening"
  /\ opened' = 0
  /\ UNCHANGED <<log, status, ckpt, startup, stop, cancelling, handlers,
                 history>>

\* Stopped before the claim, or a dead process's lease has not lapsed yet.
ClaimRefused ==
  /\ driver = "claiming"
  /\ stop \/ lease = "dead"
  /\ driver' = "none"
  /\ stop' = FALSE
  /\ UNCHANGED <<durable, startup, opened, cancelling, handlers, history>>

\* reconcile_effect(), the row; then, in a transaction of its own, the event.
Reconcile(k, verdict) ==
  /\ Serving
  /\ status[k] = "unknown"
  /\ status' = [status EXCEPT ![k] = verdict]
  /\ telling' = telling \cup {k}
  /\ UNCHANGED <<log, ckpt, lease, startup, drive, call, points, history>>

TellReconciled(k) ==
  /\ k \in telling
  /\ telling' = telling \ {k}
  /\ log' = RecordedPastEnding(Keyed("tool_effect_reconciled", k))
  /\ UNCHANGED <<status, ckpt, lease, startup, drive, call, points, history>>

-----------------------------------------------------------------------------
Recovering ==
  \/ \E k \in Keys : RecordUnknown(k)
  \/ NothingToRecover \/ OfferRecovery \/ CloseOff

Driving ==
  \/ StartRun \/ RecordOpening \/ EnterLoop \/ GiveUp \/ Verify
  \/ \E ending \in {"run_completed", "run_timed_out"} : EndRun(ending)

Handling(k) ==
  \/ Authorize(k) \/ Begin(k) \/ RecordPending(k) \/ Answer(k) \/ Perform(k)
  \/ Settle(k) \/ RecordOutcome(k) \/ NoSeed(k)

Checkpointing(t) ==
  ReadHistory(t) \/ ReadUnknown(t) \/ SaveCheckpoint(t) \/ CheckpointFails(t)

Resuming == Assess \/ RecordResumed \/ Claim \/ ClaimRefused

Next ==
  \/ Start \/ Recovering \/ Crash
  \/ Driving \/ Resuming \/ Cancel \/ SetToken
  \/ \E k \in Keys : Handling(k)
  \/ \E t \in Takers : Checkpointing(t)
  \/ \E k \in Keys, verdict \in {"succeeded", "failed"} : Reconcile(k, verdict)
  \/ \E k \in Keys : TellReconciled(k)

Spec == Init /\ [][Next]_vars

\* The application is opened again, a start runs to its end, a handler that has
\* begun runs to its end, and a driver that was told to stop returns.  The
\* second conjunct is WF_vars(Recovering) with its enabling condition spelled
\* out, which TLC would otherwise find by folding the log over and over.
Fairness ==
  /\ WF_vars(Start)
  /\ <>[](stage = "recording") => []<><<Recovering>>_vars
  /\ WF_vars(SetToken)
  /\ \A k \in Keys : WF_vars(RecordPending(k)) /\ WF_vars(Perform(k)) /\ WF_vars(Settle(k))
  /\ WF_vars(stop /\ (RecordOpening \/ RecordResumed \/ ClaimRefused))
  /\ WF_vars(stop /\ (GiveUp \/ EndRun("run_completed")))

FairSpec == Spec /\ Fairness

-----------------------------------------------------------------------------
\* The rows, the process's own state and the history are well formed.
TypeOK ==
  /\ \A n \in 1 .. Len(log) :
       /\ log[n].type \in DOMAIN MovesTo \cup DOMAIN PhaseEnds
            \cup {"tool_effect_pending", "tool_effect_unknown", "tool_effect_reconciled",
                  "checkpoint_failed"}
       /\ log[n].keyed \in BOOLEAN
  /\ status \in [Keys -> {"absent", "pending", "succeeded", "failed", "unknown"}]
  /\ ckpt \in [seq : 0 .. Len(log), unknown : SUBSET Keys]
  /\ lease \in {"nobody", "held", "dead"}
  /\ stage \in {"down", "recording", "serving"}
  /\ driver \in {"none", "opening", "looping", "verifying", "resuming", "claiming"}
  /\ opened \in 0 .. Len(Opening)
  /\ call \in [Keys -> {"idle", "authorized", "claimed", "begun", "answered", "ran",
                        "settled", "recorded", "told"}]
  /\ taking \in [Takers -> {"no", "reading", "built"}]
  /\ held \in [Takers -> [seq : 0 .. Len(log), unknown : SUBSET Keys]]
  /\ stranded \subseteq Keys /\ telling \subseteq Keys
  /\ stop \in BOOLEAN /\ cancelling \in BOOLEAN
  /\ missed \subseteq MayMiss

\* Across every death, resumption and verdict, one effect takes place once: a
\* resumed attempt derives the key again and meets the row the first one left.
EffectOnce == \A k \in Keys : performed[k] <= 1

\* "The resume point never claims a tool settled that the history does not also
\* show settling", and never lags what the loop was told: when the loop has the
\* result of a call, the point it would be continued from is past the event
\* that recorded it (remember_outcome()).  Where the checkpoint could not be
\* written, "a later reader sees the gap rather than inferring it"
\* (recording.rs): unless the run has ended, its events say so after that event.
Noted(n) ==
  Ended(log) \/ \E m \in 1 .. Len(log) : m > n /\ log[m].type = "checkpoint_failed"

ToldIsCheckpointed ==
  driver = "looping" =>
    \A n \in 1 .. Len(log) :
      log[n].type = "tool_succeeded" /\ call[log[n].about] = "told"
        => ckpt.seq >= n \/ (log[n].about \in missed /\ Noted(n))

\* A run that is over is not driven any further, except by a driver that has
\* been told to stop or is about to be: no resumption, restart or late ending
\* leaves work going on behind the record's back.
DrivenIsOpen ==
  driver \in {"claiming", "opening", "looping"} /\ ~stop /\ ~cancelling => ~Ended(log)

\* The resume point never moves back, though a tool call and a state commit
\* gather theirs and save them with nothing between (save_checkpoint()).
CheckpointNeverBackwards == [][ckpt'.seq >= ckpt.seq]_vars

\* A start leaves nothing looking live: once it is done the run is over, or it
\* can be continued and has no effect on its record that nobody settled.
Accounted(events, point) ==
  \/ events = <<>>
  \/ Ended(events)
  \/ point # NoCheckpoint /\ Rebuild(events).unknown = {}

StartLeavesNothingLive ==
  [][stage = "recording" /\ stage' = "serving" => Accounted(log', ckpt')]_vars

\* A run the application died under is eventually over or offered.
DeadRunIsSettled ==
  (stage = "down" /\ log # <<>>)
    ~> (Ended(log) \/ Keyed("recovery_started", "recovery") \in {log[n] : n \in 1 .. Len(log)})

\* An effect does not stay pending: its handler settles it, or the next start
\* puts it in front of a person.
PendingIsResolved == \A k \in Keys : (status[k] = "pending") ~> (status[k] # "pending")

\* Stop is not forgotten: the driver of a stopped run returns.
StopIsHeeded == stop ~> (driver = "none")

\* What a death, a lost answer or a Stop left open is brought to an end.
NothingIsLeftOpen == DeadRunIsSettled /\ PendingIsResolved /\ StopIsHeeded

-----------------------------------------------------------------------------
(* What the texts of the program say of these steps and the code does not  *)
(* keep.  No run checks these formulas: TLC finds a counterexample to each, *)
(* and README.md, section 6, says how it comes about.                       *)

\* "Recovery has to be bounded or a run that fails during recovery is recovered
\* again, fails again": a run is left open to be picked up at most as many
\* times as MAX_RECOVERY_ATTEMPTS says.
OffersAreBounded == offers <= MaxRecoveryAttempts

\* "A side effect nobody settled stops this outright": the run is not resumed
\* while one of its effects is unknown.
UnsettledStopsResume ==
  driver = "resuming" => \A k \in Keys : status[k] # "unknown"

\* No resumption "has written a line saying a person continued a run that never
\* continued": one that is recorded is driven, unless the process dies or it
\* is stopped.
ResumedIsDriven ==
  [][driver = "claiming" /\ driver' = "none" => stage' = "down" \/ stop]_vars

\* "A tool already executing is left to finish, but nothing new starts" once
\* the run has its ending.
NothingNewStarts ==
  [][\A k \in Keys : call[k] = "authorized" /\ call'[k] = "claimed" => ~Ended(log)]_vars
=============================================================================
