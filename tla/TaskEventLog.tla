---------------------------- MODULE TaskEventLog ----------------------------
(***************************************************************************)
(* One run's history in the task event log (agent_runtime/events/          *)
(* store.rs): an append-only log in SQLite, and beside it one stored       *)
(* snapshot which is a cache of the log's fold.                            *)
(*                                                                         *)
(* record() appends in one IMMEDIATE transaction and then, as a separate   *)
(* acquisition of the process's connection mutex, reads the snapshot,      *)
(* catches it up, and saves it.  The mutex covers the read and the save    *)
(* within one process; nothing covers them across two, and a process can   *)
(* die between any two of the three steps.  Several writers of one process *)
(* (the command that drives the run, the tool path, the Stop button) and   *)
(* writers of a second process all record against one run.                 *)
(***************************************************************************)
EXTENDS RunProjection

CONSTANTS
  Writers,       \* threads that record events
  Processes,     \* processes with the database open
  HostOf,        \* which process a writer runs in
  FreshTypes,    \* event types drafted with a random id (EventDraft::new)
  KeyedEvents,   \* [type, about] drafted with a derived id (::idempotent)
  EffectKeys,    \* idempotency keys of side effects a person may reconcile
  MaxEvents      \* bound: length of the log

ASSUME HostAssumption == HostOf \in [Writers -> Processes]
ASSUME BoundAssumption == MaxEvents \in Nat \ {0}

\* The events of a side effect bear its key, and recovery_failed is a start's,
\* which records the ending after it before anything else can write (RunRecovery).
ASSUME DraftsAssumption ==
  /\ FreshTypes \cap {"tool_effect_unknown", "recovery_failed"} = {}
  /\ \A draft \in KeyedEvents :
       /\ draft.type # "recovery_failed"
       /\ draft.type = "tool_effect_unknown" => draft.about \in EffectKeys

Reconciled(key) == Keyed("tool_effect_reconciled", key)

Drafts  == {Fresh(type) : type \in FreshTypes}
              \cup {Keyed(draft.type, draft.about) : draft \in KeyedEvents}
Events  == Drafts \cup {Reconciled(key) : key \in EffectKeys}
              \cup {Fresh("run_created")}

VARIABLES
  log,      \* the run's rows of task_events, in seq order
  stored,   \* its row of task_snapshots; EmptySnapshot while there is none
  pc,       \* how far each writer is through record()
  event,    \* the seq of the event a writer has appended
  folded    \* the snapshot a writer has folded and not yet saved

vars == <<log, stored, pc, event, folded>>

Init ==
  /\ log = <<Fresh("run_created")>>
  /\ stored = EmptySnapshot
  /\ pc = [w \in Writers |-> "idle"]
  /\ event = [w \in Writers |-> 0]
  /\ folded = [w \in Writers |-> EmptySnapshot]

\* The connection mutex of a writer's process is held from its fold to its save.
MutexFree(w) == \A v \in Writers : HostOf[v] = HostOf[w] => pc[v] # "folded"

\* snapshot_within(): the stored row caught up with the log.  With no row this
\* is rebuild_within().
Read == CatchUp(stored, log)

\* Only a derived id can be presented twice.
Duplicate(draft) == draft.keyed /\ \E n \in 1 .. Len(log) : log[n] = draft

Insert(w, draft) ==
  /\ pc[w] = "idle"
  /\ MutexFree(w)
  /\ Len(log) < MaxEvents
  /\ ~Duplicate(draft)
  /\ log' = Append(log, draft)
  /\ pc' = [pc EXCEPT ![w] = "appended"]
  /\ event' = [event EXCEPT ![w] = Len(log) + 1]
  /\ UNCHANGED <<stored, folded>>

\* Mutant: the ending is not looked up inside the transaction.
AppendUnchecked(w) == \E draft \in Drafts : Insert(w, draft)

\* append(): refused, changing nothing, as a duplicate or past an ending.
AppendEvent(w) == \E draft \in Drafts : ~Ended(log) /\ Insert(w, draft)

\* append_past_ending(): what reconcile_effect() writes.
AppendPastEnding(w) == \E key \in EffectKeys : Insert(w, Reconciled(key))

\* advance_snapshot(), up to the save.  The appended event is applied once
\* more after the catch-up, which has normally folded it already.
FoldSnapshot(w) ==
  /\ pc[w] = "appended"
  /\ MutexFree(w)
  /\ folded' = [folded EXCEPT ![w] = Apply(Read, event[w], log[event[w]])]
  /\ pc' = [pc EXCEPT ![w] = "folded"]
  /\ UNCHANGED <<log, stored, event>>

\* These writers are out of record(), and have forgotten what they held.
Return(ws) ==
  /\ pc' = [w \in Writers |-> IF w \in ws THEN "idle" ELSE pc[w]]
  /\ event' = [w \in Writers |-> IF w \in ws THEN 0 ELSE event[w]]
  /\ folded' = [w \in Writers |-> IF w \in ws THEN EmptySnapshot ELSE folded[w]]

\* Mutant: the upsert has lost its WHERE.
SaveUnguarded(w) ==
  /\ pc[w] = "folded"
  /\ stored' = folded[w]
  /\ Return({w})
  /\ UNCHANGED log

\* save_within(): an older view never replaces a newer one.
SaveSnapshot(w) ==
  /\ pc[w] = "folded"
  /\ stored' = IF folded[w].seq >= stored.seq THEN folded[w] ELSE stored
  /\ Return({w})
  /\ UNCHANGED log

\* The snapshot could not be written: logged, and the event stands.
SaveFails(w) ==
  /\ pc[w] = "folded"
  /\ Return({w})
  /\ UNCHANGED <<log, stored>>

\* The process dies: its writers' local state is gone, the rows are not.
Crash(p) ==
  /\ \E w \in Writers : HostOf[w] = p /\ pc[w] # "idle"
  /\ Return({w \in Writers : HostOf[w] = p})
  /\ UNCHANGED <<log, stored>>

Next ==
  \/ \E w \in Writers :
       \/ AppendEvent(w)
       \/ AppendPastEnding(w)
       \/ FoldSnapshot(w)
       \/ SaveSnapshot(w)
       \/ SaveFails(w)
  \/ \E p \in Processes : Crash(p)

Spec == Init /\ [][Next]_vars

-----------------------------------------------------------------------------
Snapshots == [seq : Nat, state : RunStates, attempts : Nat,
              unknown : SUBSET EffectKeys, approvals : Nat,
              anomalies : SUBSET (1 .. MaxEvents)]

\* The rows and the writers' local state are well formed.
TypeOK ==
  /\ log \in Seq(Events)
  /\ Len(log) \in 1 .. MaxEvents
  /\ stored \in Snapshots
  /\ pc \in [Writers -> {"idle", "appended", "folded"}]
  /\ event \in [Writers -> 0 .. MaxEvents]
  /\ folded \in [Writers -> Snapshots]

\* Whatever the interleaving of saves and crashes left in the cache, a reader
\* who catches it up sees exactly what folding the whole history would show:
\* "a broken cache is a slow read, never a wrong answer" (snapshot(), rebuild()).
ReadIsRebuild == Read = Rebuild(log)

\* After an ending only a person's account of a side effect is ever appended,
\* so a run has at most one ending (append_inner(), append_past_ending()).
NothingAfterEnding ==
  \A m, n \in 1 .. Len(log) :
    m < n /\ log[m].type \in TerminalTypes
      => log[n].type = "tool_effect_reconciled"

\* An event whose id is derived from what it is about is written at most once,
\* whoever presents it and however often (existing_seq()).
KeyedOnce ==
  \A m, n \in 1 .. Len(log) : log[m].keyed /\ log[m] = log[n] => m = n

\* "The same rule held in the two places it has to hold": the store's list of
\* endings and the machine's terminal states agree on whether this history is
\* over, and the state shown is that of the ending recorded.
EndingIsState ==
  LET state == Rebuild(log).state
  IN /\ Ended(log) <=> IsTerminal(state)
     /\ \A n \in EndingAt(log) : MovesTo[log[n].type] = state

\* The history is one a reader can trust: it says nothing past its ending but what
\* a person found out about a side effect, and says nothing twice, whichever
\* writers, deaths and retries it was written through.
HistoryIsSound == NothingAfterEnding /\ KeyedOnce

\* save_within()'s guard: the stored view never moves backwards, though two
\* processes fold and save with nothing between them.
SnapshotNeverBackwards ==
  [][stored'.seq >= stored.seq]_vars

\* A screen that re-reads a run never sees it go back a phase, nor leave an
\* ending, whatever late event is appended (advance()'s rank check): since a
\* read is a rebuild and the log only grows, what it shows after one more event.
StateNeverRegresses ==
  \A n \in 1 .. (Len(log) - 1) :
    LET before == Rebuild(SubSeq(log, 1, n)).state
        after  == Rebuild(SubSeq(log, 1, n + 1)).state
    IN /\ Rank(after) >= Rank(before)
       /\ IsTerminal(before) => after = before

\* What a screen is shown is one story, whoever reads it and when: the cached
\* view caught up is the history folded, its ending is the history's, and it
\* goes forward only.
ViewsAgree == TypeOK /\ ReadIsRebuild /\ EndingIsState /\ StateNeverRegresses
=============================================================================
