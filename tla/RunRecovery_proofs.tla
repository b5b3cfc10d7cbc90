------------------------ MODULE RunRecovery_proofs ------------------------
(***************************************************************************)
(* Proofs about a run across the deaths of the application, for every set  *)
(* of side effects, number of starts and number of resumptions.            *)
(***************************************************************************)
EXTENDS RunRecovery, RunProjection_proofs

-----------------------------------------------------------------------------
(* An effect takes place once.                                             *)

\* The rows, the handlers and the history of effects, and what ties them: a
\* handler about to perform has its row, and under its key, as under a key with
\* no row, nothing has taken place.
EffectInv ==
  /\ status \in [Keys -> {"absent", "pending", "succeeded", "failed", "unknown"}]
  /\ call \in [Keys -> {"idle", "authorized", "claimed", "begun", "answered", "ran",
                        "settled", "recorded", "told"}]
  /\ performed \in [Keys -> Nat]
  /\ \A k \in Keys : call[k] \in {"claimed", "begun"} => status[k] # "absent"
  /\ \A k \in Keys :
       status[k] = "absent" \/ call[k] \in {"claimed", "begun"} => performed[k] = 0
  /\ EffectOnce

LEMMA EffectInvStep == EffectInv /\ [Next]_vars => EffectInv'
  <1> SUFFICES ASSUME EffectInv, [Next]_vars PROVE EffectInv'
    OBVIOUS
  <1> USE DEF EffectInv, EffectOnce
  <1>1. CASE Start
    BY <1>1 DEF Start, handlers, points
  <1>2. CASE Recovering
    BY <1>2 DEF Recovering, RecordUnknown, NothingToRecover, OfferRecovery, CloseOff,
       FoundUnfinished, durable, handlers, points, history
  <1>3. CASE Crash
    BY <1>3 DEF Crash, history
  <1>4. CASE Driving
    BY <1>4 DEF Driving, StartRun, RecordOpening, EnterLoop, GiveUp, Verify, EndRun, durable,
       handlers, points, history
  <1>5. CASE Resuming
    BY <1>5 DEF Resuming, Assess, RecordResumed, Claim, ClaimRefused, durable, handlers,
       points, history
  <1>6. CASE Cancel \/ SetToken
    BY <1>6 DEF Cancel, SetToken, durable, handlers, points, history
  <1>7. ASSUME NEW k \in Keys, Begin(k)
        PROVE  EffectInv'
    BY <1>7 DEF Begin, history
  <1>8. ASSUME NEW k \in Keys, Perform(k)
        PROVE  EffectInv'
    BY <1>8 DEF Perform, durable
  <1>9. ASSUME NEW k \in Keys, Settle(k)
        PROVE  EffectInv'
    BY <1>9 DEF Settle, history
  <1>10. ASSUME NEW k \in Keys,
                Authorize(k) \/ RecordPending(k) \/ Answer(k) \/ RecordOutcome(k) \/ NoSeed(k)
         PROVE  EffectInv'
    BY <1>10 DEF Authorize, RecordPending, Answer, RecordOutcome, NoSeed, durable, history
  <1>11. ASSUME NEW t \in Takers, Checkpointing(t)
         PROVE  EffectInv'
    BY <1>11 DEF Checkpointing, ReadHistory, ReadUnknown, SaveCheckpoint,
       CheckpointFails, Told, durable, history
  <1>12. ASSUME NEW k \in Keys, NEW verdict \in {"succeeded", "failed"}, Reconcile(k, verdict)
         PROVE  EffectInv'
    BY <1>12 DEF Reconcile, history
  <1>13. ASSUME NEW k \in Keys, TellReconciled(k)
         PROVE  EffectInv'
    BY <1>13 DEF TellReconciled, history
  <1>14. CASE UNCHANGED vars
    BY <1>14 DEF vars, durable, handlers, points, history
  <1> QED
    BY <1>1, <1>2, <1>3, <1>4, <1>5, <1>6, <1>7, <1>8, <1>9, <1>10, <1>11, <1>12, <1>13,
       <1>14 DEF Next, Handling

\* Through every death, restart, resumption and verdict, and with any number of
\* handlers at work, one effect takes place once (EffectOnce).
THEOREM EffectsOnce == Spec => []EffectOnce
<1>1. Init => EffectInv
  BY DEF Init, EffectInv, EffectOnce
<1>2. EffectInv => EffectOnce
  BY DEF EffectInv
<1> QED
  BY <1>1, <1>2, EffectInvStep, PTL DEF Spec

-----------------------------------------------------------------------------
(* The log only grows, by entries that are well formed.                    *)

Unended == {"run_created", "run_classified", "run_routed", "plan_ready", "run_started",
            "verification_started", "tool_authorized", "tool_effect_pending",
            "tool_replayed", "tool_refused", "tool_succeeded", "tool_effect_unknown",
            "tool_effect_reconciled", "recovery_started", "recovery_failed", "run_resumed",
            "checkpoint_failed"}

Endings == {"run_cancelled", "run_completed", "run_timed_out", "run_degraded"}

Subjects == Keys \cup {NoSubject, "recovery", "recovery-exhausted", "ending"}

Entries == {entry \in [type : Unended \cup Endings, about : Subjects, keyed : BOOLEAN] :
              entry.type = "tool_succeeded" => entry.about \in Keys}

LEMMA UnendedTypes == \A type \in Unended : type \notin TerminalTypes
  BY DEF Unended, TerminalTypes

LogTyped == log \in Seq(Entries) /\ opened \in 0 .. Len(Opening)

\* What record() leaves is the log or the log and the draft, and the run is
\* over only if it was or the draft is an ending.
LEMMA RecordedLog ==
  ASSUME LogTyped, NEW draft \in Entries,
         NEW after, after \in {Recorded(draft), RecordedPastEnding(draft)}
  PROVE  /\ after \in Seq(Entries)
         /\ draft.type \notin TerminalTypes => (Ended(after) <=> Ended(log))
<1>1. after = log \/ after = Append(log, draft)
  BY DEF Recorded, RecordedPastEnding
<1>2. CASE after = log
  BY <1>2 DEF LogTyped
<1>3. CASE after = Append(log, draft)
  <2>1. /\ after \in Seq(Entries)
        /\ Len(after) = Len(log) + 1
        /\ Len(log) \in Nat
        /\ after[Len(log) + 1] = draft
        /\ \A n \in 1 .. Len(log) : after[n] = log[n]
    BY <1>3 DEF LogTyped
  <2>2. Ended(log) => Ended(after)
    <3> SUFFICES ASSUME NEW n \in 1 .. Len(log), log[n].type \in TerminalTypes
                 PROVE  Ended(after)
      BY DEF Ended
    <3>1. n \in 1 .. Len(after) /\ after[n].type \in TerminalTypes
      BY <2>1
    <3> QED
      BY <3>1 DEF Ended
  <2>3. draft.type \notin TerminalTypes /\ Ended(after) => Ended(log)
    <3> SUFFICES ASSUME draft.type \notin TerminalTypes,
                        NEW n \in 1 .. Len(after), after[n].type \in TerminalTypes
                 PROVE  Ended(log)
      BY DEF Ended
    <3>1. n # Len(log) + 1
      BY <2>1
    <3>2. n \in 1 .. Len(log) /\ log[n].type \in TerminalTypes
      BY <2>1, <3>1
    <3> QED
      BY <3>2 DEF Ended
  <2> QED
    BY <2>1, <2>2, <2>3
<1> QED
  BY <1>1, <1>2, <1>3

LEMMA DraftsAreEntries ==
  ASSUME NEW type \in Unended \cup Endings, NEW subject \in Subjects
  PROVE  /\ type # "tool_succeeded" => Fresh(type) \in Entries /\ Keyed(type, subject) \in Entries
         /\ subject \in Keys => About(type, subject) \in Entries
         /\ Fresh(type).type = type
         /\ About(type, subject).type = type /\ About(type, subject).about = subject
         /\ Keyed(type, subject).type = type
  BY DEF Fresh, About, Keyed, Entries, Subjects

\* What a step may do to the log: nothing, record what is no ending, record an
\* ending, or close the run off.
RecordsUnended ==
  \E draft \in Entries :
    /\ draft.type \in Unended
    /\ log' \in {Recorded(draft), RecordedPastEnding(draft)}
    /\ draft.type = "tool_succeeded" => \E k \in Keys : draft.about = k /\ RecordOutcome(k)

RecordsEnding ==
  /\ \E draft \in Entries : draft.type \in Endings /\ log' = Recorded(draft)
  /\ Cancel \/ \E ending \in {"run_completed", "run_timed_out"} : EndRun(ending)

LEMMA LogStep ==
  ASSUME LogTyped, [Next]_vars
  PROVE  \/ UNCHANGED log
         \/ RecordsUnended
         \/ RecordsEnding
         \/ CloseOff /\ log' \in Seq(Entries)
  <1>1. ASSUME NEW type \in Unended \ {"tool_succeeded"}, NEW subject \in Subjects,
               \/ log' = Recorded(Fresh(type))
               \/ log' = Recorded(Keyed(type, subject))
               \/ log' = RecordedPastEnding(Keyed(type, subject))
        PROVE  RecordsUnended
    BY <1>1, DraftsAreEntries DEF RecordsUnended
  <1>2. CASE RecordOpening
    <2>1. Opening[opened + 1] \in Unended \ {"tool_succeeded"}
      BY <1>2 DEF RecordOpening, Opening, LogTyped, Unended
    <2> QED
      BY <1>1, <1>2, <2>1 DEF RecordOpening, Subjects
  <1>3. CASE RecordResumed \/ OfferRecovery \/ Verify
    BY <1>1, <1>3 DEF RecordResumed, OfferRecovery, Verify, Subjects, Unended
  <1>4. CASE Cancel
    BY <1>4, DraftsAreEntries DEF Cancel, RecordsEnding, Endings, Subjects
  <1>5. ASSUME NEW ending \in {"run_completed", "run_timed_out"}, EndRun(ending)
        PROVE  RecordsEnding
    BY <1>5, DraftsAreEntries DEF EndRun, RecordsEnding, Endings, Subjects
  <1>6. CASE CloseOff
    <2>1. /\ Keyed("recovery_failed", "recovery-exhausted") \in Entries
          /\ Keyed("run_degraded", "recovery") \in Entries
      BY DraftsAreEntries DEF Unended, Endings, Subjects
    <2> QED
      BY <1>6, <2>1 DEF CloseOff, LogTyped
  <1>7. ASSUME NEW k \in Keys,
               RecordUnknown(k) \/ Handling(k) \/ TellReconciled(k)
        PROVE  UNCHANGED log \/ RecordsUnended
    <2> k \in Subjects
      BY DEF Subjects
    <2>1. CASE RecordUnknown(k) \/ TellReconciled(k)
      BY <1>1, <2>1 DEF RecordUnknown, TellReconciled, Unended
    <2>2. CASE Authorize(k) \/ RecordPending(k) \/ Answer(k)
      BY <1>1, <2>2 DEF Authorize, RecordPending, Answer, Unended
    <2>3. CASE RecordOutcome(k)
      <3>1. log' = Recorded(About("tool_succeeded", k)) /\ "tool_succeeded" \in Unended
        BY <2>3 DEF RecordOutcome, Unended
      <3> QED
        BY <2>3, <3>1, DraftsAreEntries DEF RecordsUnended
    <2>4. CASE Begin(k) \/ Perform(k) \/ Settle(k) \/ NoSeed(k)
      BY <2>4 DEF Begin, Perform, Settle, NoSeed, durable
    <2> QED
      BY <1>7, <2>1, <2>2, <2>3, <2>4 DEF Handling
  <1>8. CASE Start \/ NothingToRecover \/ Crash \/ StartRun \/ EnterLoop \/ GiveUp
    BY <1>8 DEF Start, NothingToRecover, Crash, StartRun, EnterLoop, GiveUp, durable
  <1>9. CASE Assess \/ Claim \/ ClaimRefused \/ SetToken
    BY <1>9 DEF Assess, Claim, ClaimRefused, SetToken, durable
  <1>10. ASSUME NEW t \in Takers, Checkpointing(t)
         PROVE  UNCHANGED log \/ RecordsUnended
    <2>1. CASE CheckpointFails(t)
      BY <1>1, <2>1 DEF CheckpointFails, Unended, Subjects
    <2> QED
      BY <1>10, <2>1 DEF Checkpointing, ReadHistory, ReadUnknown, SaveCheckpoint, durable
  <1>11. ASSUME NEW k \in Keys, NEW verdict \in {"succeeded", "failed"}, Reconcile(k, verdict)
         PROVE  UNCHANGED log
    BY <1>11 DEF Reconcile
  <1>12. CASE UNCHANGED vars
    BY <1>12 DEF vars, durable
  <1> QED
    BY <1>2, <1>3, <1>4, <1>5, <1>6, <1>7, <1>8, <1>9, <1>10, <1>11, <1>12
       DEF Next, Recovering, Driving, Resuming

LEMMA LogTypedHolds == Spec => []LogTyped
<1>1. Init => LogTyped
  BY DEF Init, LogTyped, Opening
<1>2. LogTyped /\ [Next]_vars => LogTyped'
  <2> SUFFICES ASSUME LogTyped, [Next]_vars PROVE LogTyped'
    OBVIOUS
  <2>1. log' \in Seq(Entries)
    BY LogStep, RecordedLog DEF LogTyped, RecordsUnended, RecordsEnding
  <2>2. opened' \in 0 .. Len(Opening)
    <3>1. Len(Opening) = 5
      BY DEF Opening
    <3>2. opened' \in {opened, 0} \/ RecordOpening
      BY DEF Next, Recovering, Driving, Resuming, Handling, vars, drive, Start, RecordUnknown,
         NothingToRecover, OfferRecovery, CloseOff, Crash, StartRun, EnterLoop, GiveUp,
         Return, Verify, EndRun, Cancel, SetToken, Assess, RecordResumed, Claim, ClaimRefused,
         Authorize, Begin, RecordPending, Answer, Perform, Settle, RecordOutcome, NoSeed,
         Checkpointing, ReadHistory, ReadUnknown, SaveCheckpoint, CheckpointFails, Reconcile,
         TellReconciled
    <3> QED
      BY <3>1, <3>2 DEF LogTyped, RecordOpening
  <2> QED
    BY <2>1, <2>2 DEF LogTyped
<1> QED
  BY <1>1, <1>2, PTL DEF Spec

-----------------------------------------------------------------------------
(* A run that is over is not driven.                                       *)

\* Nothing drives the run before a start is done.
IdleUntilServing == stage # "serving" => driver = "none"

LEMMA IdleUntilServingStep == IdleUntilServing /\ [Next]_vars => IdleUntilServing'
  <1> SUFFICES ASSUME IdleUntilServing, [Next]_vars PROVE IdleUntilServing'
    OBVIOUS
  <1> USE DEF IdleUntilServing
  <1>1. CASE Start \/ Recovering \/ Crash
    BY <1>1 DEF Start, Recovering, RecordUnknown, NothingToRecover, OfferRecovery, CloseOff,
       FoundUnfinished, Crash, drive
  <1>2. CASE Driving
    BY <1>2 DEF Driving, StartRun, Serving, RecordOpening, EnterLoop, GiveUp, Return, Verify,
       EndRun, startup
  <1>3. CASE Resuming
    BY <1>3 DEF Resuming, Assess, Serving, RecordResumed, Claim, ClaimRefused, startup
  <1>4. CASE Cancel \/ SetToken
    BY <1>4 DEF Cancel, SetToken, startup
  <1>5. ASSUME NEW k \in Keys, Handling(k) \/ TellReconciled(k)
        PROVE  IdleUntilServing'
    BY <1>5 DEF Handling, Authorize, Begin, RecordPending, Answer, Perform, Settle,
       RecordOutcome, NoSeed, TellReconciled, startup, drive
  <1>6. ASSUME NEW t \in Takers, Checkpointing(t)
        PROVE  IdleUntilServing'
    BY <1>6 DEF Checkpointing, ReadHistory, ReadUnknown, SaveCheckpoint,
       CheckpointFails, startup, drive
  <1>7. ASSUME NEW k \in Keys, NEW verdict \in {"succeeded", "failed"}, Reconcile(k, verdict)
        PROVE  IdleUntilServing'
    BY <1>7 DEF Reconcile, startup, drive
  <1>8. CASE UNCHANGED vars
    BY <1>8 DEF vars, startup, drive
  <1> QED
    BY <1>1, <1>2, <1>3, <1>4, <1>5, <1>6, <1>7, <1>8 DEF Next

\* The driver is kept from an ended run by its token or by the log.
LEMMA DrivenIsOpenStep ==
  LogTyped /\ IdleUntilServing /\ DrivenIsOpen /\ [Next]_vars => DrivenIsOpen'
  <1> SUFFICES ASSUME LogTyped, IdleUntilServing, DrivenIsOpen, [Next]_vars,
                      driver' \in {"claiming", "opening", "looping"}, ~stop', ~cancelling',
                      Ended(log')
               PROVE  FALSE
    BY DEF DrivenIsOpen
  <1>1. ~Cancel /\ ~ \E ending \in {"run_completed", "run_timed_out"} : EndRun(ending)
    BY DEF Cancel, EndRun, Return
  <1>2. ~CloseOff
    BY DEF CloseOff, FoundUnfinished, IdleUntilServing, drive
  <1>3. Ended(log)
    BY <1>1, <1>2, LogStep, RecordedLog, UnendedTypes DEF RecordsUnended, RecordsEnding
  <1>4. \/ driver \in {"claiming", "opening", "looping"} /\ stop' = stop /\ cancelling' = cancelling
        \/ StartRun \/ RecordResumed \/ SetToken
    BY DEF Next, Recovering, Driving, Resuming, Handling, vars, drive, Start, RecordUnknown,
       NothingToRecover, OfferRecovery, CloseOff, Crash, RecordOpening, EnterLoop, GiveUp,
       Return, Verify, EndRun, Cancel, Assess, Claim, ClaimRefused, Authorize, Begin,
       RecordPending, Answer, Perform, Settle, RecordOutcome, NoSeed, Checkpointing,
       ReadHistory, ReadUnknown, SaveCheckpoint, CheckpointFails, Reconcile, TellReconciled
  <1>5. ~StartRun
    BY <1>3 DEF StartRun, Ended
  <1>6. ~RecordResumed
    BY <1>3 DEF RecordResumed
  <1>7. ~SetToken
    BY DEF SetToken
  <1> QED
    BY <1>3, <1>4, <1>5, <1>6, <1>7 DEF DrivenIsOpen

\* Work does not go on behind a run's ending, wherever the ending comes from:
\* its driver has been told to stop or is about to be (DrivenIsOpen).
THEOREM EndedIsNotDriven == Spec => []DrivenIsOpen
<1>1. Init => IdleUntilServing /\ DrivenIsOpen
  BY DEF Init, IdleUntilServing, DrivenIsOpen
<1> QED
  BY <1>1, LogTypedHolds, IdleUntilServingStep, DrivenIsOpenStep, PTL DEF Spec

-----------------------------------------------------------------------------
(* The resume point never moves back.                                      *)

Points == [seq : Nat, unknown : SUBSET Keys]

CheckpointTyped == ckpt \in Points /\ held \in [Takers -> Points]

LEMMA CheckpointStep ==
  ASSUME LogTyped, CheckpointTyped, [Next]_vars
  PROVE  CheckpointTyped' /\ ckpt'.seq >= ckpt.seq
  <1> USE DEF CheckpointTyped
  <1>1. NoCheckpoint \in Points /\ Len(log) \in Nat
    BY DEF NoCheckpoint, Points, LogTyped
  <1>2. ckpt.seq \in Nat
    BY DEF Points
  <1>3. ASSUME NEW t \in Takers, ReadHistory(t) \/ ReadUnknown(t) \/ CheckpointFails(t)
        PROVE  CheckpointTyped' /\ ckpt'.seq >= ckpt.seq
    <2>1. CASE ReadHistory(t) \/ ReadUnknown(t)
      BY <1>1, <1>2, <2>1 DEF ReadHistory, ReadUnknown, Points, durable
    <2>2. CASE CheckpointFails(t)
      BY <1>1, <1>2, <2>2 DEF CheckpointFails, Told
    <2> QED
      BY <1>3, <2>1, <2>2
  <1>4. ASSUME NEW t \in Takers, SaveCheckpoint(t)
        PROVE  CheckpointTyped' /\ ckpt'.seq >= ckpt.seq
    <2>1. held[t] \in Points /\ held[t].seq \in Nat
      BY DEF Points
    <2> QED
      BY <1>1, <1>2, <1>4, <2>1 DEF SaveCheckpoint, Told
  <1>5. CASE Crash
    BY <1>1, <1>2, <1>5 DEF Crash
  <1>6. CASE UNCHANGED <<ckpt, held>>
    BY <1>2, <1>6
  <1>7. \/ UNCHANGED <<ckpt, held>> \/ Crash
        \/ \E t \in Takers : Checkpointing(t)
    BY DEF Next, Recovering, Driving, Resuming, Handling, vars, durable, handlers, points,
       Start, RecordUnknown, NothingToRecover, OfferRecovery, CloseOff, StartRun,
       RecordOpening, EnterLoop, GiveUp, Verify, EndRun, Cancel, SetToken, Assess,
       RecordResumed, Claim, ClaimRefused, Authorize, Begin, RecordPending, Answer, Perform,
       Settle, RecordOutcome, NoSeed, Reconcile, TellReconciled
  <1> QED
    BY <1>3, <1>4, <1>5, <1>6, <1>7 DEF Checkpointing

\* However many handlers gather a resume point and save it later, in whatever
\* order, an earlier one never replaces a later one (CheckpointNeverBackwards).
THEOREM CheckpointsAdvance == Spec => CheckpointNeverBackwards
<1>1. Init => CheckpointTyped
  BY DEF Init, CheckpointTyped, Points, NoCheckpoint
<1>2. LogTyped /\ CheckpointTyped /\ [Next]_vars => CheckpointTyped'
  BY CheckpointStep
<1>3. LogTyped /\ CheckpointTyped /\ [Next]_vars => [ckpt'.seq >= ckpt.seq]_vars
  BY CheckpointStep
<1> QED
  BY <1>1, <1>2, <1>3, LogTypedHolds, PTL DEF Spec, CheckpointNeverBackwards

-----------------------------------------------------------------------------
(* The resume point keeps up with what the loop was told.                  *)

\* What becomes of the log in a step that does not close the run off: its
\* entries stay, and the outcome of a call is added by its own handler only.
LEMMA KeptEntries ==
  ASSUME LogTyped, NEW draft \in Entries,
         NEW after, after \in {Recorded(draft), RecordedPastEnding(draft)}
  PROVE  /\ Ended(log) => Ended(after)
         /\ \A n \in 1 .. Len(after) :
              (n \in 1 .. Len(log) /\ after[n] = log[n]) \/ after[n] = draft
         /\ \A n \in 1 .. Len(log) : n \in 1 .. Len(after) /\ after[n] = log[n]
<1>1. after = log \/ after = Append(log, draft)
  BY DEF Recorded, RecordedPastEnding
<1>2. CASE after = log
  BY <1>2
<1>3. CASE after = Append(log, draft)
  <2>1. /\ Len(after) = Len(log) + 1
        /\ Len(log) \in Nat
        /\ after[Len(log) + 1] = draft
        /\ \A n \in 1 .. Len(log) : after[n] = log[n]
    BY <1>3 DEF LogTyped
  <2>2. \A n \in 1 .. Len(log) : n \in 1 .. Len(after)
    BY <2>1
  <2>3. Ended(log) => Ended(after)
    BY <2>1, <2>2 DEF Ended
  <2> QED
    BY <2>1, <2>3
<1> QED
  BY <1>1, <1>2, <1>3

\* Recording an ending leaves the run over, whether or not it already was.
LEMMA EndingEnds ==
  ASSUME LogTyped, NEW draft \in Entries, draft.type \in TerminalTypes
  PROVE  Ended(Recorded(draft))
<1>1. CASE Ended(log)
  BY <1>1 DEF Recorded
<1>2. CASE ~Ended(log) /\ Duplicate(draft)
  BY <1>2 DEF Duplicate, Ended
<1>3. CASE ~Ended(log) /\ ~Duplicate(draft)
  <2>1. Recorded(draft) = Append(log, draft)
    BY <1>3 DEF Recorded
  <2>2. /\ Len(Append(log, draft)) = Len(log) + 1
        /\ Append(log, draft)[Len(log) + 1] = draft
        /\ Len(log) + 1 \in 1 .. (Len(log) + 1)
    BY DEF LogTyped
  <2> QED
    BY <2>1, <2>2 DEF Ended
<1> QED
  BY <1>1, <1>2, <1>3

\* The positions of the outcomes recorded for a call.
Outcomes(k, events) ==
  {n \in 1 .. Len(events) : events[n].type = "tool_succeeded" /\ events[n].about = k}

LEMMA OutcomesStep ==
  ASSUME LogTyped, [Next]_vars, ~CloseOff, NEW k \in Keys, ~RecordOutcome(k)
  PROVE  Outcomes(k, log') \subseteq Outcomes(k, log)
  <1>1. CASE UNCHANGED log
    BY <1>1 DEF Outcomes
  <1>2. CASE RecordsUnended \/ RecordsEnding
    <2>1. PICK draft \in Entries :
            /\ log' \in {Recorded(draft), RecordedPastEnding(draft)}
            /\ draft.type = "tool_succeeded" => draft.about # k
      <3>1. "tool_succeeded" \notin Endings
        BY DEF Endings
      <3> QED
        BY <1>2, <3>1 DEF RecordsUnended, RecordsEnding
    <2>2. \A n \in 1 .. Len(log') :
            (n \in 1 .. Len(log) /\ log'[n] = log[n]) \/ log'[n] = draft
      BY <2>1, KeptEntries
    <2> QED
      BY <2>1, <2>2 DEF Outcomes
  <1> QED
    BY <1>1, <1>2, LogStep

LEMMA EndedStep ==
  ASSUME LogTyped, [Next]_vars, ~CloseOff, Ended(log)
  PROVE  Ended(log')
  BY LogStep, KeptEntries DEF RecordsUnended, RecordsEnding

LEMMA EndRunEnds ==
  ASSUME LogTyped, NEW ending \in {"run_completed", "run_timed_out"}, EndRun(ending)
  PROVE  Ended(log')
<1>1. /\ Keyed(ending, "ending") \in Entries
      /\ Keyed(ending, "ending").type = ending
  BY DraftsAreEntries DEF Endings, Subjects
<1>2. ending \in TerminalTypes
  BY DEF TerminalTypes
<1> QED
  BY <1>1, <1>2, EndingEnds DEF EndRun

-----------------------------------------------------------------------------
\* What a handler holds is the checkpoint of an outcome it has recorded.
HeldRecorded ==
  /\ taking \in [Takers -> {"no", "reading", "built"}]
  /\ \A k \in Keys : taking[k] # "no" => call[k] = "recorded"

LEMMA HeldRecordedStep ==
  ASSUME EffectInv, CheckpointTyped, HeldRecorded, [Next]_vars
  PROVE  HeldRecorded'
  <1> USE DEF EffectInv, CheckpointTyped, HeldRecorded
  <1>1. ASSUME NEW t \in Takers, ReadHistory(t) \/ ReadUnknown(t)
        PROVE  HeldRecorded'
    BY <1>1, CommitAssumption DEF ReadHistory, ReadUnknown, Takers
  <1>2. ASSUME NEW t \in Takers, SaveCheckpoint(t) \/ CheckpointFails(t)
        PROVE  HeldRecorded'
    BY <1>2, CommitAssumption DEF SaveCheckpoint, CheckpointFails, Told, Takers
  <1>3. ASSUME NEW k \in Keys, Handling(k)
        PROVE  HeldRecorded'
    BY <1>3 DEF Handling, Authorize, Begin, RecordPending, Answer, Perform, Settle,
       RecordOutcome, NoSeed, Redeemed, points
  <1>4. CASE Crash
    BY <1>4 DEF Crash, Takers
  <1>5. CASE UNCHANGED <<call, points>>
    BY <1>5 DEF points
  <1>6. \/ UNCHANGED <<call, points>> \/ Crash
        \/ \E k \in Keys : Handling(k)
        \/ \E t \in Takers : Checkpointing(t)
    BY DEF Next, Recovering, Driving, Resuming, vars, handlers, points, Start, RecordUnknown,
       NothingToRecover, OfferRecovery, CloseOff, StartRun, RecordOpening, EnterLoop, GiveUp,
       Verify, EndRun, Cancel, SetToken, Assess, RecordResumed, Claim, ClaimRefused, Reconcile,
       TellReconciled
  <1> QED
    BY <1>1, <1>2, <1>3, <1>4, <1>5, <1>6 DEF Checkpointing

\* Handlers are at work only while the run is driven, or once it is over.
AtWork ==
  /\ stage # "serving" => \A k \in Keys : call[k] = "idle"
  /\ \A k \in Keys : call[k] # "idle" =>
       \/ driver \in {"looping", "verifying"}
       \/ driver \in {"none", "resuming"} /\ Ended(log)

LEMMA AtWorkStep ==
  ASSUME LogTyped, IdleUntilServing, EffectInv, HeldRecorded, AtWork, [Next]_vars
  PROVE  AtWork'
  <1> USE DEF EffectInv
  <1>1. CASE CloseOff
    BY <1>1 DEF CloseOff, FoundUnfinished, AtWork, handlers, points, drive
  <1>2. CASE StartRun \/ RecordResumed \/ Claim \/ ClaimRefused \/ EnterLoop \/ GiveUp
    <2>1. Ended(log) => Ended(log')
      BY <1>2, EndedStep DEF CloseOff, FoundUnfinished, StartRun, Serving, RecordResumed, Claim,
         ClaimRefused, EnterLoop, GiveUp, IdleUntilServing
    <2>2. StartRun => ~Ended(log)
      BY DEF StartRun, Ended
    <2> QED
      BY <1>2, <2>1, <2>2 DEF AtWork, StartRun, Serving, RecordResumed, Claim, ClaimRefused,
         EnterLoop, GiveUp, Return, IdleUntilServing, handlers, points, startup
  <1>3. ASSUME NEW ending \in {"run_completed", "run_timed_out"}, EndRun(ending)
        PROVE  AtWork'
    BY <1>3, EndRunEnds DEF AtWork, EndRun, Return, IdleUntilServing, handlers, points, startup
  <1>4. CASE Crash
    BY <1>4 DEF Crash, AtWork
  <1>5. ASSUME NEW k \in Keys, Authorize(k)
        PROVE  AtWork'
    BY <1>5 DEF Authorize, AtWork, IdleUntilServing, startup, drive
  <1> DEFINE Quiet == /\ driver' = driver \/ Assess \/ Verify
                      /\ stage' = "serving" \/ \A k \in Keys : call'[k] = "idle"
                      /\ \A k \in Keys : call'[k] # "idle" => call[k] # "idle"
  <1>6. ASSUME ~CloseOff, Quiet
        PROVE  AtWork'
    BY <1>6, EndedStep DEF AtWork, Assess, Verify
  <1>7. CASE Start \/ NothingToRecover \/ OfferRecovery \/ \E k \in Keys : RecordUnknown(k)
    <2>1. Quiet
      BY <1>7 DEF Start, RecordUnknown, NothingToRecover, OfferRecovery, FoundUnfinished,
         AtWork, handlers, points, drive
    <2> QED
      BY <1>1, <1>6, <2>1
  <1>8. CASE RecordOpening \/ Verify \/ Cancel \/ SetToken \/ Assess
    <2>1. Quiet
      BY <1>8 DEF RecordOpening, Verify, Cancel, SetToken, Assess, Serving, AtWork, handlers,
         points, drive, startup
    <2> QED
      BY <1>1, <1>6, <2>1
  <1>9. ASSUME NEW k \in Keys,
               \/ Begin(k) \/ RecordPending(k) \/ Answer(k) \/ Perform(k) \/ Settle(k)
               \/ RecordOutcome(k) \/ NoSeed(k)
        PROVE  AtWork'
    <2>1. call[k] # "idle" /\ driver' = driver /\ stage' = stage
      BY <1>9 DEF Begin, RecordPending, Answer, Perform, Settle, RecordOutcome, NoSeed,
         Redeemed, drive, startup
    <2>2. \A j \in Keys : j # k => call'[j] = call[j]
      BY <1>9 DEF Begin, RecordPending, Answer, Perform, Settle, RecordOutcome, NoSeed
    <2>3. stage = "serving"
      BY <2>1 DEF AtWork
    <2>4. Quiet
      BY <2>1, <2>2, <2>3
    <2> QED
      BY <1>1, <1>6, <2>4
  <1>10. ASSUME NEW t \in Takers, Checkpointing(t)
         PROVE  AtWork'
    <2>1. driver' = driver /\ stage' = stage
      BY <1>10 DEF Checkpointing, ReadHistory, ReadUnknown, SaveCheckpoint,
       CheckpointFails, drive, startup
    <2>2. \A j \in Keys : call'[j] # "idle" => call[j] # "idle"
      BY <1>10 DEF Checkpointing, ReadHistory, ReadUnknown, SaveCheckpoint,
       CheckpointFails, Told, Takers, HeldRecorded, handlers, points
    <2>3. stage # "serving" => \A j \in Keys : call'[j] = "idle"
      BY <2>2 DEF AtWork
    <2>4. Quiet
      BY <2>1, <2>2, <2>3
    <2> QED
      BY <1>1, <1>6, <2>4
  <1>11. CASE \/ UNCHANGED vars
              \/ \E k \in Keys : TellReconciled(k)
              \/ \E k \in Keys, verdict \in {"succeeded", "failed"} : Reconcile(k, verdict)
    <2>1. Quiet
      BY <1>11 DEF Reconcile, TellReconciled, AtWork, vars, handlers, points, drive, startup
    <2> QED
      BY <1>1, <1>6, <2>1
  <1> QED
    BY <1>1, <1>2, <1>3, <1>4, <1>5, <1>7, <1>8, <1>9, <1>10, <1>11
       DEF Next, Recovering, Driving, Resuming, Handling

-----------------------------------------------------------------------------
\* The checkpoint a handler holds is past the outcomes of its call, and so is
\* the stored one once the loop has been told.
Covered ==
  /\ \A k \in Keys : taking[k] # "no" =>
       \A n \in Outcomes(k, log) : n <= held[k].seq
  /\ \A k \in Keys : call[k] = "told" /\ driver \in {"looping", "verifying"} =>
       \A n \in Outcomes(k, log) : n <= ckpt.seq \/ (k \in missed /\ Noted(n))

\* The gap stays in the run's events.
LEMMA NotedStep ==
  ASSUME LogTyped, [Next]_vars, ~CloseOff, NEW n \in 1 .. Len(log), Noted(n)
  PROVE  Noted(n)'
<1>1. CASE Ended(log)
  BY <1>1, EndedStep DEF Noted
<1>2. CASE ~Ended(log)
  <2>1. PICK m \in 1 .. Len(log) : m > n /\ log[m].type = "checkpoint_failed"
    BY <1>2 DEF Noted
  <2>2. m \in 1 .. Len(log') /\ log'[m] = log[m]
    BY LogStep, KeptEntries DEF RecordsUnended, RecordsEnding
  <2> QED
    BY <2>1, <2>2 DEF Noted
<1> QED
  BY <1>1, <1>2

\* A checkpoint that could not be written is in the run's events, after every
\* outcome so far.
LEMMA FailureIsNoted ==
  ASSUME LogTyped, NEW t \in Takers, CheckpointFails(t), NEW n \in 1 .. Len(log)
  PROVE  Noted(n)'
<1> DEFINE note == Fresh("checkpoint_failed")
<1>1. log' = Recorded(note) /\ note.type = "checkpoint_failed" /\ ~note.keyed
  BY DEF CheckpointFails, Fresh, About
<1> HIDE DEF note
<1>2. CASE Ended(log)
  BY <1>1, <1>2 DEF Recorded, Noted
<1>3. CASE ~Ended(log)
  <2>1. log' = Append(log, note)
    BY <1>1, <1>3 DEF Recorded, Duplicate
  <2>2. Len(log) \in Nat /\ Len(log') = Len(log) + 1 /\ log'[Len(log) + 1] = note
    BY <2>1 DEF LogTyped
  <2>3. Len(log) + 1 \in 1 .. Len(log') /\ Len(log) + 1 > n
    BY <2>2
  <2> QED
    BY <1>1, <2>2, <2>3 DEF Noted
<1> QED
  BY <1>2, <1>3

\* A step that brings no outcome for a call, and neither reads, saves nor tells
\* anything about it, leaves it covered.
LEMMA CoveredKept ==
  ASSUME LogTyped, CheckpointTyped, CheckpointTyped', Covered, [Next]_vars, ~CloseOff,
         NEW k \in Keys,
         Outcomes(k, log') \subseteq Outcomes(k, log),
         taking'[k] # "no" => taking[k] # "no" /\ held'[k].seq = held[k].seq,
         call'[k] = "told" /\ driver' \in {"looping", "verifying"}
           => call[k] = "told" /\ driver \in {"looping", "verifying"},
         missed \subseteq missed',
         ckpt'.seq >= ckpt.seq
  PROVE  /\ taking'[k] # "no" => \A n \in Outcomes(k, log') : n <= held'[k].seq
         /\ call'[k] = "told" /\ driver' \in {"looping", "verifying"} =>
              \A n \in Outcomes(k, log') : n <= ckpt'.seq \/ (k \in missed' /\ Noted(n)')
<1>1. ckpt.seq \in Nat /\ ckpt'.seq \in Nat
  BY DEF CheckpointTyped, Points
<1>2. \A n \in Outcomes(k, log) : n \in Nat /\ n \in 1 .. Len(log)
  BY DEF Outcomes, LogTyped
<1>3. \A n \in Outcomes(k, log) : Noted(n) => Noted(n)'
  BY <1>2, NotedStep
<1> QED
  BY <1>1, <1>2, <1>3 DEF Covered

LEMMA MissedGrows == [Next]_vars => missed \subseteq missed'
  BY DEF Next, Recovering, Driving, Resuming, Handling, Checkpointing, vars, history, Start,
     RecordUnknown, NothingToRecover, OfferRecovery, CloseOff, Crash, StartRun, RecordOpening,
     EnterLoop, GiveUp, Verify, EndRun, Cancel, SetToken, Assess, RecordResumed, Claim,
     ClaimRefused, Authorize, Begin, RecordPending, Answer, Perform, Settle, RecordOutcome,
     NoSeed, ReadHistory, ReadUnknown, SaveCheckpoint, CheckpointFails, Reconcile,
     TellReconciled

LEMMA CoveredStep ==
  ASSUME LogTyped, CheckpointTyped, CheckpointTyped', IdleUntilServing, EffectInv,
         HeldRecorded, AtWork, Covered, [Next]_vars
  PROVE  Covered'
  <1> DEFINE CoveredAt(k) ==
        /\ taking'[k] # "no" => \A n \in Outcomes(k, log') : n <= held'[k].seq
        /\ call'[k] = "told" /\ driver' \in {"looping", "verifying"} =>
             \A n \in Outcomes(k, log') : n <= ckpt'.seq \/ (k \in missed' /\ Noted(n)')
  <1> SUFFICES ASSUME NEW k \in Keys PROVE CoveredAt(k)
    BY DEF Covered
  <1> USE DEF EffectInv, CheckpointTyped
  <1>1. ckpt'.seq >= ckpt.seq
    BY CheckpointStep
  <1>2. CASE CloseOff
    <2>1. call[k] = "idle" /\ taking[k] = "no"
      BY <1>2 DEF CloseOff, FoundUnfinished, AtWork, HeldRecorded, Takers
    <2> QED
      BY <1>2, <2>1 DEF CloseOff, handlers, points
  <1>3. CASE RecordOutcome(k)
    BY <1>3 DEF RecordOutcome, HeldRecorded, points, Takers
  <1>4. CASE ReadHistory(k)
    <2>1. log' = log /\ held'[k].seq = Len(log) /\ call'[k] = "recorded"
      BY <1>4, CommitAssumption DEF ReadHistory, Takers, durable, Points
    <2>2. \A n \in Outcomes(k, log) : n <= Len(log)
      BY DEF Outcomes, LogTyped
    <2> QED
      BY <2>1, <2>2
  <1>5. CASE SaveCheckpoint(k)
    <2>1. /\ log' = log /\ taking'[k] = "no" /\ taking[k] # "no"
          /\ ckpt' = IF ckpt.seq > held[k].seq THEN ckpt ELSE held[k]
      BY <1>5 DEF SaveCheckpoint, Told, Takers, HeldRecorded
    <2>2. \A n \in Outcomes(k, log) : n <= held[k].seq /\ n \in Nat
      BY <2>1 DEF Covered, Outcomes, LogTyped
    <2>3. held[k].seq \in Nat /\ ckpt.seq \in Nat
      BY DEF Points, Takers
    <2> QED
      BY <2>1, <2>2, <2>3
  <1>6. CASE CheckpointFails(k)
    <2>1. taking'[k] = "no" /\ k \in missed'
      BY <1>6 DEF CheckpointFails, Told, Takers, HeldRecorded
    <2>2. Outcomes(k, log') \subseteq 1 .. Len(log)
      <3>1. ~RecordOutcome(k) /\ ~CloseOff
        BY <1>6 DEF CheckpointFails, RecordOutcome, CloseOff, FoundUnfinished, HeldRecorded,
           AtWork
      <3> QED
        BY <3>1, OutcomesStep DEF Outcomes
    <2>3. \A n \in 1 .. Len(log) : Noted(n)'
      BY <1>6, FailureIsNoted DEF Takers
    <2> QED
      BY <2>1, <2>2, <2>3
  <1>7. CASE EnterLoop
    BY <1>7 DEF EnterLoop, AtWork, HeldRecorded, handlers, points, Takers
  <1>8. CASE NoSeed(k)
    BY <1>8 DEF NoSeed, drive, points
  <1>9. ASSUME ~CloseOff, ~RecordOutcome(k), ~ReadHistory(k), ~SaveCheckpoint(k),
               ~CheckpointFails(k), ~EnterLoop, ~NoSeed(k)
        PROVE  CoveredAt(k)
    <2>1. Outcomes(k, log') \subseteq Outcomes(k, log)
      BY <1>9, OutcomesStep
    <2>2. /\ taking'[k] # "no" => taking[k] # "no" /\ held'[k].seq = held[k].seq
          /\ call'[k] = "told" => call[k] = "told"
      <3>1. ASSUME NEW t \in Takers, Checkpointing(t), t # k
            PROVE  taking'[k] = taking[k] /\ held'[k] = held[k] /\ call'[k] = call[k]
        BY <3>1, CommitAssumption
           DEF Checkpointing, ReadHistory, ReadUnknown, SaveCheckpoint, CheckpointFails, Told,
               Takers, HeldRecorded
      <3>2. CASE ReadUnknown(k)
        BY <3>2 DEF ReadUnknown, Takers, HeldRecorded, Points
      <3>3. ASSUME NEW j \in Keys, Handling(j)
            PROVE  UNCHANGED points /\ (call'[k] = "told" => call[k] = "told")
        BY <1>9, <3>3 DEF Handling, Authorize, Begin, RecordPending, Answer, Perform, Settle,
           RecordOutcome, NoSeed
      <3>4. CASE Crash
        BY <3>4 DEF Crash, Takers
      <3>5. CASE UNCHANGED <<call, points>>
        BY <3>5 DEF points
      <3>6. \/ UNCHANGED <<call, points>> \/ Crash
            \/ \E j \in Keys : Handling(j)
            \/ \E t \in Takers : Checkpointing(t)
        BY DEF Next, Recovering, Driving, Resuming, vars, handlers, points, Start,
           RecordUnknown, NothingToRecover, OfferRecovery, CloseOff, StartRun, RecordOpening,
           EnterLoop, GiveUp, Verify, EndRun, Cancel, SetToken, Assess, RecordResumed, Claim,
           ClaimRefused, Reconcile, TellReconciled
      <3>7. ASSUME Checkpointing(k)
            PROVE  ReadUnknown(k)
        BY <1>9, <3>7 DEF Checkpointing
      <3> QED
        BY <3>1, <3>2, <3>3, <3>4, <3>5, <3>6, <3>7 DEF points
    <2>3. driver' \in {"looping", "verifying"} => driver \in {"looping", "verifying"}
      BY <1>9 DEF Next, Recovering, Driving, Resuming, Handling, Checkpointing, vars, drive,
         Start, RecordUnknown, NothingToRecover, OfferRecovery, CloseOff, Crash, StartRun,
         RecordOpening, GiveUp, Return, Verify, EndRun, Cancel, SetToken, Assess, RecordResumed,
         Claim, ClaimRefused, Authorize, Begin, RecordPending, Answer, Perform, Settle,
         RecordOutcome, NoSeed, ReadHistory, ReadUnknown, SaveCheckpoint, CheckpointFails,
         Reconcile, TellReconciled
    <2> QED
      BY <1>1, <1>9, <2>1, <2>2, <2>3, MissedGrows, CoveredKept
  <1> QED
    BY <1>2, <1>3, <1>4, <1>5, <1>6, <1>7, <1>8, <1>9

\* When the loop has the result of a call, the point it would be continued from
\* is past the event that recorded it, or the run's events show the gap after
\* it, however many calls and state commits gather and save their checkpoints
\* side by side and whichever of them cannot be written (ToldIsCheckpointed).
THEOREM ToldIsPast == Spec => []ToldIsCheckpointed
<1> DEFINE Inv == /\ LogTyped /\ CheckpointTyped /\ IdleUntilServing /\ EffectInv
                  /\ HeldRecorded /\ AtWork /\ Covered
<1>1. Init => Inv
  <2> SUFFICES ASSUME Init PROVE Inv
    OBVIOUS
  <2>1. LogTyped
    BY DEF Init, LogTyped, Opening
  <2>2. CheckpointTyped
    BY DEF Init, CheckpointTyped, Points, NoCheckpoint
  <2>3. IdleUntilServing /\ EffectInv
    BY DEF Init, IdleUntilServing, EffectInv, EffectOnce
  <2>4. HeldRecorded /\ AtWork /\ Covered
    BY DEF Init, HeldRecorded, AtWork, Covered, Takers
  <2> QED
    BY <2>1, <2>2, <2>3, <2>4
<1>2. Inv /\ LogTyped' /\ [Next]_vars => Inv'
  BY CheckpointStep, IdleUntilServingStep, EffectInvStep, HeldRecordedStep, AtWorkStep,
     CoveredStep
<1>3. Inv => ToldIsCheckpointed
  <2> SUFFICES ASSUME Inv, driver = "looping", NEW n \in 1 .. Len(log),
                      log[n].type = "tool_succeeded", call[log[n].about] = "told"
               PROVE  ckpt.seq >= n \/ (log[n].about \in missed /\ Noted(n))
    BY DEF ToldIsCheckpointed
  <2>1. log[n].about \in Keys
    BY DEF LogTyped, Entries
  <2>2. n <= ckpt.seq \/ (log[n].about \in missed /\ Noted(n))
    BY <2>1 DEF Covered, Outcomes
  <2>3. n \in Nat /\ ckpt.seq \in Nat
    BY DEF LogTyped, CheckpointTyped, Points
  <2> QED
    BY <2>2, <2>3
<1> HIDE DEF Inv
<1>4. Spec => []Inv
  BY <1>1, <1>2, LogTypedHolds, PTL DEF Spec
<1> QED
  BY <1>3, <1>4, PTL

-----------------------------------------------------------------------------
(* What a start leaves behind.                                             *)

LEMMA EntriesAreHistory ==
  ASSUME LogTyped
  PROVE  IsHistory(log, Subjects)
BY DEF LogTyped, Entries, IsHistory, Names

\* Marking a run for recovery leaves what nobody settled as it was.
LEMMA OfferLeavesUnknown ==
  ASSUME LogTyped, NEW draft, draft.type = "recovery_started", log' = Append(log, draft)
  PROVE  Rebuild(log').unknown = Rebuild(log).unknown
<1>1. /\ Len(log) \in Nat /\ Len(log') = Len(log) + 1 /\ log'[Len(log')] = draft
      /\ \A n \in 1 .. Len(log) : log'[n] = log[n]
  BY DEF LogTyped
<1>2. Rebuild(log') = Apply(Rebuild(log), Len(log'), draft)
  BY <1>1, RebuildAppend
<1>3. Rebuild(log) \in Views(Subjects, 1 .. Len(log)) /\ Rebuild(log).seq = Len(log)
  BY EntriesAreHistory, RebuildTyped
<1>4. Len(log') \in Nat /\ Len(log') \in 1 .. Len(log')
  BY <1>1
<1>5. Rebuild(log) \in Views(Subjects, 1 .. Len(log'))
  BY <1>1, <1>3 DEF Views
<1>6. Apply(Rebuild(log), Len(log'), draft).unknown = Rebuild(log).unknown
  BY <1>4, <1>5, ApplyKeepsUnknown
<1>. QED  BY <1>2, <1>6

\* Closing a run off ends it.
LEMMA CloseOffEnds ==
  ASSUME LogTyped, CloseOff
  PROVE  Ended(log')
<1> DEFINE last == Keyed("run_degraded", "recovery")
<1>1. last.type \in TerminalTypes
  BY DEF Keyed, TerminalTypes
<1>2. PICK before \in Seq(Entries) : log' = before \o <<last>>
  <2> DEFINE failed == Keyed("recovery_failed", "recovery-exhausted")
  <2>1. failed \in Entries
    BY DraftsAreEntries DEF Unended, Endings, Subjects
  <2>2. PICK more \in {<<failed>>, <<>>} : log' = (log \o more) \o <<last>>
    BY DEF CloseOff
  <2> HIDE DEF failed, last
  <2>3. log \o more \in Seq(Entries)
    <3>1. <<failed>> \in Seq(Entries) /\ <<>> \in Seq(Entries)
      BY <2>1
    <3>2. more \in Seq(Entries)
      BY <3>1
    <3>. QED  BY <3>2 DEF LogTyped
  <2>. QED  BY <2>2, <2>3
<1> HIDE DEF last
<1>3. Len(log') \in 1 .. Len(log') /\ log'[Len(log')] = last
  <2>1. \A b \in Seq(Entries) :
          /\ Len(b \o <<last>>) = Len(b) + 1 /\ Len(b) \in Nat
          /\ (b \o <<last>>)[Len(b) + 1] = last
    OBVIOUS
  <2>. QED  BY <1>2, <2>1
<1>. QED  BY <1>1, <1>3 DEF Ended

\* When a start is done the run is over, or it can be continued and no effect on
\* its record is one nobody settled (StartLeavesNothingLive).
THEOREM NothingLooksLive == Spec => StartLeavesNothingLive
<1>1. LogTyped /\ [Next]_vars
        => [stage = "recording" /\ stage' = "serving" => Accounted(log', ckpt')]_vars
  <2> SUFFICES ASSUME LogTyped, [Next]_vars, stage = "recording", stage' = "serving"
               PROVE  Accounted(log', ckpt')
    OBVIOUS
  <2>1. NothingToRecover \/ OfferRecovery \/ CloseOff
    BY DEF Next, Recovering, Driving, Resuming, Handling, vars, startup, Start, RecordUnknown,
       Crash, StartRun, RecordOpening, EnterLoop, GiveUp, Verify, EndRun, Cancel, SetToken,
       Assess, RecordResumed, Claim, ClaimRefused, Authorize, Begin, RecordPending, Answer,
       Perform, Settle, RecordOutcome, NoSeed, Checkpointing, ReadHistory, ReadUnknown,
       SaveCheckpoint, CheckpointFails, Reconcile, TellReconciled
  <2>2. CASE NothingToRecover
    BY <2>2 DEF NothingToRecover, durable, Accounted
  <2>3. CASE OfferRecovery
    <3>1. ckpt' # NoCheckpoint /\ Rebuild(log).unknown = {}
      BY <2>3 DEF OfferRecovery, WorthOffering, Snapshot
    <3>2. log' \in {log, Append(log, Keyed("recovery_started", "recovery"))}
      BY <2>3 DEF OfferRecovery, Recorded
    <3>3. Keyed("recovery_started", "recovery").type = "recovery_started"
      BY DEF Keyed
    <3>4. Rebuild(log').unknown = {}
      BY <3>1, <3>2, <3>3, OfferLeavesUnknown
    <3>. QED  BY <3>1, <3>4 DEF Accounted
  <2>4. CASE CloseOff
    BY <2>4, CloseOffEnds DEF Accounted
  <2>. QED  BY <2>1, <2>2, <2>3, <2>4
<1>. QED  BY <1>1, LogTypedHolds, PTL DEF Spec, StartLeavesNothingLive

-----------------------------------------------------------------------------
(* The rows and the process are well formed.                               *)

\* A checkpoint was taken at a position of the log.
PointsWithin(events) == [seq : 0 .. Len(events), unknown : SUBSET Keys]

CheckpointWithin == ckpt \in PointsWithin(log) /\ held \in [Takers -> PointsWithin(log)]

ProcessTyped ==
  /\ lease \in {"nobody", "held", "dead"}
  /\ stage \in {"down", "recording", "serving"}
  /\ driver \in {"none", "opening", "looping", "verifying", "resuming", "claiming"}
  /\ stranded \subseteq Keys /\ telling \subseteq Keys
  /\ stop \in BOOLEAN /\ cancelling \in BOOLEAN
  /\ taking \in [Takers -> {"no", "reading", "built"}] /\ missed \subseteq MayMiss

LEMMA ProcessTypedStep == ProcessTyped /\ [Next]_vars => ProcessTyped'
<1> SUFFICES ASSUME ProcessTyped, [Next]_vars PROVE ProcessTyped'
  OBVIOUS
<1> USE DEF ProcessTyped
<1>1. CASE Start \/ Recovering \/ Crash
  BY <1>1 DEF Start, Recovering, RecordUnknown, NothingToRecover, OfferRecovery, CloseOff,
     FoundUnfinished, Crash, durable, drive, handlers, points, history
<1>2. CASE Driving
  BY <1>2 DEF Driving, StartRun, RecordOpening, EnterLoop, GiveUp, Return, Verify, EndRun,
     durable, startup, handlers, points, history
<1>3. CASE Resuming
  BY <1>3 DEF Resuming, Assess, RecordResumed, Claim, ClaimRefused, durable, startup, handlers,
     points, history
<1>4. CASE Cancel \/ SetToken
  BY <1>4 DEF Cancel, SetToken, durable, startup, handlers, points, history
<1>5. ASSUME NEW k \in Keys, Handling(k) \/ TellReconciled(k)
      PROVE  ProcessTyped'
  BY <1>5 DEF Handling, Authorize, Begin, RecordPending, Answer, Perform, Settle,
     RecordOutcome, NoSeed, TellReconciled, durable, startup, drive, points, history
<1>6. ASSUME NEW t \in Takers, Checkpointing(t)
      PROVE  ProcessTyped'
  BY <1>6 DEF Checkpointing, ReadHistory, ReadUnknown, SaveCheckpoint,
     CheckpointFails, Told, durable, startup, drive, history
<1>7. ASSUME NEW k \in Keys, NEW verdict \in {"succeeded", "failed"}, Reconcile(k, verdict)
      PROVE  ProcessTyped'
  BY <1>7 DEF Reconcile, startup, drive, points, history
<1>8. CASE UNCHANGED vars
  BY <1>8 DEF vars, durable, startup, drive, handlers, points, history
<1>. QED  BY <1>1, <1>2, <1>3, <1>4, <1>5, <1>6, <1>7, <1>8 DEF Next

\* The log only grows.
LEMMA LogGrows ==
  ASSUME LogTyped, [Next]_vars
  PROVE  Len(log') \in Nat /\ Len(log) \in Nat /\ Len(log') >= Len(log)
<1>1. \A draft \in Entries :
        Len(Append(log, draft)) = Len(log) + 1 /\ Len(log) \in Nat
  BY DEF LogTyped
<1>2. CASE RecordsUnended \/ RecordsEnding
  BY <1>1, <1>2 DEF RecordsUnended, RecordsEnding, Recorded, RecordedPastEnding
<1>3. CASE CloseOff /\ log' \in Seq(Entries)
  BY <1>3 DEF CloseOff, LogTyped
<1>4. CASE UNCHANGED log
  BY <1>4 DEF LogTyped
<1>. QED  BY <1>2, <1>3, <1>4, LogStep

LEMMA CheckpointWithinStep ==
  LogTyped /\ CheckpointWithin /\ [Next]_vars => CheckpointWithin'
<1> SUFFICES ASSUME LogTyped, CheckpointWithin, [Next]_vars PROVE CheckpointWithin'
  OBVIOUS
<1>1. PointsWithin(log) \subseteq PointsWithin(log')
  BY LogGrows DEF PointsWithin
<1>2. NoCheckpoint \in PointsWithin(log) /\ Len(log) \in 0 .. Len(log)
  BY DEF NoCheckpoint, PointsWithin, LogTyped
<1>3. ckpt' \in PointsWithin(log) /\ held' \in [Takers -> PointsWithin(log)]
  <2>1. CASE UNCHANGED <<ckpt, held>>
    BY <2>1 DEF CheckpointWithin
  <2>2. CASE Crash
    BY <1>2, <2>2 DEF Crash, CheckpointWithin
  <2>3. ASSUME NEW t \in Takers, Checkpointing(t)
        PROVE  ckpt' \in PointsWithin(log) /\ held' \in [Takers -> PointsWithin(log)]
    <3>1. CASE ReadHistory(t) \/ ReadUnknown(t)
      BY <1>2, <3>1 DEF ReadHistory, ReadUnknown, CheckpointWithin, PointsWithin, durable
    <3>2. CASE SaveCheckpoint(t) \/ CheckpointFails(t)
      BY <1>2, <3>2 DEF SaveCheckpoint, CheckpointFails, Told, CheckpointWithin
    <3>. QED  BY <2>3, <3>1, <3>2 DEF Checkpointing
  <2>4. \/ UNCHANGED <<ckpt, held>> \/ Crash
        \/ \E t \in Takers : Checkpointing(t)
    BY DEF Next, Recovering, Driving, Resuming, Handling, vars, durable, handlers, points,
       Start, RecordUnknown, NothingToRecover, OfferRecovery, CloseOff, StartRun,
       RecordOpening, EnterLoop, GiveUp, Verify, EndRun, Cancel, SetToken, Assess,
       RecordResumed, Claim, ClaimRefused, Authorize, Begin, RecordPending, Answer, Perform,
       Settle, RecordOutcome, NoSeed, Reconcile, TellReconciled
  <2>. QED  BY <2>1, <2>2, <2>3, <2>4
<1>. QED  BY <1>1, <1>3 DEF CheckpointWithin

\* The rows, what the process holds and the history stay well formed (TypeOK).
THEOREM TypeCorrect == Spec => []TypeOK
<1>1. Init => CheckpointWithin /\ ProcessTyped
  <2> SUFFICES ASSUME Init PROVE CheckpointWithin /\ ProcessTyped
    OBVIOUS
  <2>1. NoCheckpoint \in PointsWithin(log)
    BY DEF Init, NoCheckpoint, PointsWithin
  <2>. QED  BY <2>1 DEF Init, CheckpointWithin, ProcessTyped
<1>2. Init => EffectInv
  BY DEF Init, EffectInv, EffectOnce
<1>3. LogTyped /\ EffectInv /\ CheckpointWithin /\ ProcessTyped => TypeOK
  <2> SUFFICES ASSUME LogTyped, EffectInv, CheckpointWithin, ProcessTyped
               PROVE  TypeOK
    OBVIOUS
  <2>1. \A type \in Unended \cup Endings :
          type \in DOMAIN MovesTo \cup DOMAIN PhaseEnds
            \cup {"tool_effect_pending", "tool_effect_unknown", "tool_effect_reconciled",
                  "checkpoint_failed"}
    BY DEF Unended, Endings, MovesTo, PhaseEnds
  <2>2. \A n \in 1 .. Len(log) : log[n] \in Entries
    BY DEF LogTyped
  <2>3. \A entry \in Entries : entry.type \in Unended \cup Endings /\ entry.keyed \in BOOLEAN
    BY DEF Entries
  <2>. QED  BY <2>1, <2>2, <2>3
            DEF TypeOK, LogTyped, EffectInv, CheckpointWithin, PointsWithin, ProcessTyped
<1>. QED  BY <1>1, <1>2, <1>3, LogTypedHolds, EffectInvStep, CheckpointWithinStep,
             ProcessTypedStep, PTL DEF Spec
=============================================================================
