------------------------ MODULE TaskEventLog_proofs ------------------------
(***************************************************************************)
(* Proofs about the task event log, for every set of writers, processes    *)
(* and event types, and every length of log.                               *)
(***************************************************************************)
EXTENDS TaskEventLog, RunProjection_proofs

\* The log is a sequence of drafts.
LogTyped == log \in Seq(Events)

LEMMA InsertedDraft ==
  ASSUME LogTyped, NEW w \in Writers, NEW draft \in Events, Insert(w, draft)
  PROVE  /\ LogTyped'
         /\ Len(log') = Len(log) + 1
         /\ log'[Len(log')] = draft
         /\ \A n \in 1 .. Len(log) : log'[n] = log[n]
  BY DEF LogTyped, Insert

\* Every step inserts one draft at the end of the log or leaves it alone.
LEMMA LogStep ==
  ASSUME [Next]_vars
  PROVE  \/ UNCHANGED log
         \/ \E w \in Writers, draft \in Events :
              /\ Insert(w, draft)
              /\ ~Duplicate(draft)
              /\ ~Ended(log) \/ draft.type = "tool_effect_reconciled"
  <1>1. ASSUME NEW w \in Writers, AppendEvent(w)
        PROVE  \E draft \in Events : Insert(w, draft) /\ ~Duplicate(draft) /\ ~Ended(log)
    BY <1>1 DEF AppendEvent, Events, Insert
  <1>2. ASSUME NEW w \in Writers, AppendPastEnding(w)
        PROVE  \E draft \in Events :
                 /\ Insert(w, draft)
                 /\ ~Duplicate(draft)
                 /\ draft.type = "tool_effect_reconciled"
    BY <1>2 DEF AppendPastEnding, Events, Insert, Reconciled, Keyed
  <1>3. ASSUME NEW w \in Writers, FoldSnapshot(w) \/ SaveSnapshot(w) \/ SaveFails(w)
        PROVE  UNCHANGED log
    BY <1>3 DEF FoldSnapshot, SaveSnapshot, SaveFails
  <1>4. ASSUME NEW p \in Processes, Crash(p)
        PROVE  UNCHANGED log
    BY <1>4 DEF Crash
  <1>5. CASE UNCHANGED vars
    BY <1>5 DEF vars
  <1> QED
    BY <1>1, <1>2, <1>3, <1>4, <1>5 DEF Next

LEMMA LogTypedHolds == Spec => []LogTyped
<1>1. Init => LogTyped
  BY DEF Init, LogTyped, Events
<1>2. LogTyped /\ [Next]_vars => LogTyped'
  BY LogStep, InsertedDraft DEF LogTyped
<1> QED
  BY <1>1, <1>2, PTL DEF Spec

\* After an ending only a person's account of a side effect is ever appended,
\* whoever records and wherever a process dies (NothingAfterEnding).
THEOREM NothingFollowsEnding == Spec => []NothingAfterEnding
<1>1. Init => NothingAfterEnding
  BY DEF Init, NothingAfterEnding
<1>2. LogTyped /\ NothingAfterEnding /\ [Next]_vars => NothingAfterEnding'
  <2> SUFFICES ASSUME LogTyped, NothingAfterEnding, [Next]_vars,
                      NEW m \in 1 .. Len(log'), NEW n \in 1 .. Len(log'), m < n,
                      log'[m].type \in TerminalTypes
               PROVE  log'[n].type = "tool_effect_reconciled"
    BY DEF NothingAfterEnding
  <2>1. CASE UNCHANGED log
    BY <2>1 DEF NothingAfterEnding
  <2>2. ASSUME NEW w \in Writers, NEW draft \in Events, Insert(w, draft),
               ~Ended(log) \/ draft.type = "tool_effect_reconciled"
        PROVE  log'[n].type = "tool_effect_reconciled"
    <3>1. /\ Len(log) \in Nat
          /\ Len(log') = Len(log) + 1
          /\ log'[Len(log')] = draft
          /\ \A i \in 1 .. Len(log) : log'[i] = log[i]
      BY <2>2, InsertedDraft DEF LogTyped
    <3>2. m \in 1 .. Len(log) /\ log[m].type \in TerminalTypes
      BY <3>1
    <3>3. CASE n = Len(log')
      BY <2>2, <3>1, <3>2, <3>3 DEF Ended
    <3>4. CASE n # Len(log')
      BY <3>1, <3>2, <3>4 DEF NothingAfterEnding
    <3> QED
      BY <3>3, <3>4
  <2> QED
    BY <2>1, <2>2, LogStep
<1> QED
  BY <1>1, <1>2, LogTypedHolds, PTL DEF Spec

\* An event with a derived id is written at most once, however many writers and
\* processes present it and after however many crashes (KeyedOnce).
THEOREM KeyedEventsOnce == Spec => []KeyedOnce
<1>1. Init => KeyedOnce
  BY DEF Init, KeyedOnce
<1>2. LogTyped /\ KeyedOnce /\ [Next]_vars => KeyedOnce'
  <2> SUFFICES ASSUME LogTyped, KeyedOnce, [Next]_vars,
                      NEW m \in 1 .. Len(log'), NEW n \in 1 .. Len(log'),
                      log'[m].keyed, log'[m] = log'[n], m # n
               PROVE  FALSE
    BY DEF KeyedOnce
  <2>1. CASE UNCHANGED log
    BY <2>1 DEF KeyedOnce
  <2>2. ASSUME NEW w \in Writers, NEW draft \in Events, Insert(w, draft), ~Duplicate(draft)
        PROVE  FALSE
    <3>1. /\ Len(log) \in Nat
          /\ Len(log') = Len(log) + 1
          /\ log'[Len(log')] = draft
          /\ \A i \in 1 .. Len(log) : log'[i] = log[i]
      BY <2>2, InsertedDraft DEF LogTyped
    <3>2. CASE m = Len(log')
      <4>1. n \in 1 .. Len(log) /\ log[n] = draft /\ draft.keyed
        BY <3>1, <3>2
      <4> QED
        BY <2>2, <4>1 DEF Duplicate
    <3>3. CASE n = Len(log')
      <4>1. m \in 1 .. Len(log) /\ log[m] = draft /\ draft.keyed
        BY <3>1, <3>3
      <4> QED
        BY <2>2, <4>1 DEF Duplicate
    <3>4. CASE m # Len(log') /\ n # Len(log')
      BY <3>1, <3>4 DEF KeyedOnce
    <3> QED
      BY <3>2, <3>3, <3>4
  <2> QED
    BY <2>1, <2>2, LogStep
<1> QED
  BY <1>1, <1>2, LogTypedHolds, PTL DEF Spec

\* A run's history says nothing past its ending and nothing twice (HistoryIsSound),
\* for any writers, processes, events and crashes.
THEOREM HistoriesAreSound == Spec => []HistoryIsSound
<1>1. NothingAfterEnding /\ KeyedOnce => HistoryIsSound
  BY DEF HistoryIsSound
<1> QED
  BY <1>1, NothingFollowsEnding, KeyedEventsOnce, PTL

-----------------------------------------------------------------------------
(* The stored snapshot, a cache of the log's fold.                         *)

\* A snapshot that is what the log came to at some position.
FoldOf(snap, events) ==
  /\ snap.seq \in 0 .. Len(events)
  /\ snap = Rebuild(SubSeq(events, 1, snap.seq))

\* What is stored, and what a writer has folded and not yet saved, are each
\* what the log came to at some position.
ViewsAreFolds ==
  /\ TypeOK
  /\ FoldOf(stored, log)
  /\ \A w \in Writers : FoldOf(folded[w], log)
  /\ \A w \in Writers : pc[w] = "appended" => event[w] \in 1 .. Len(log)

\* The bounded log is one whose events name effects there are.
LEMMA LogIsHistory ==
  ASSUME LogTyped
  PROVE  IsHistory(log, EffectKeys)
<1>1. \A draft \in Events : Names(draft, EffectKeys)
  BY DraftsAssumption
     DEF Events, Drafts, Fresh, About, Keyed, Reconciled, Names
<1>. QED  BY <1>1 DEF LogTyped, IsHistory

\* Every position of the log has such a snapshot.
LEMMA PrefixTyped ==
  ASSUME LogTyped, NEW k \in 0 .. Len(log)
  PROVE  /\ Rebuild(SubSeq(log, 1, k)) \in Views(EffectKeys, 1 .. k)
         /\ Rebuild(SubSeq(log, 1, k)).seq = k
         /\ Len(SubSeq(log, 1, k)) = k
         /\ \A n \in 1 .. k : SubSeq(log, 1, k)[n] = log[n]
<1>1. /\ Len(SubSeq(log, 1, k)) = k
      /\ \A n \in 1 .. k : SubSeq(log, 1, k)[n] = log[n]
  BY DEF LogTyped
<1>2. IsHistory(SubSeq(log, 1, k), EffectKeys)
  BY <1>1, LogIsHistory DEF IsHistory
<1>. QED  BY <1>1, <1>2, RebuildTyped

\* A snapshot of a position, caught up, is the history folded.
LEMMA FoldedCatchesUp ==
  ASSUME LogTyped, NEW snap, FoldOf(snap, log)
  PROVE  CatchUp(snap, log) = Rebuild(log)
<1>1. snap.seq \in 0 .. Len(log) /\ snap = Rebuild(SubSeq(log, 1, snap.seq))
  BY DEF FoldOf
<1>2. CatchUp(Rebuild(SubSeq(log, 1, snap.seq)), log) = Rebuild(log)
  BY <1>1, PrefixTyped, LogIsHistory, CatchUpFromPrefix
<1>. QED  BY <1>1, <1>2

\* What the whole history came to is such a snapshot, and so is nothing.
LEMMA WholeIsFolded ==
  ASSUME LogTyped
  PROVE  /\ FoldOf(Rebuild(log), log) /\ Rebuild(log).seq = Len(log)
         /\ FoldOf(EmptySnapshot, log)
<1>1. Rebuild(log).seq = Len(log)
  BY LogIsHistory, RebuildTyped
<1>2. Len(log) \in Nat /\ SubSeq(log, 1, Len(log)) = log
  BY DEF LogTyped
<1>3. EmptySnapshot.seq = 0
  BY DEF EmptySnapshot
<1>4. Rebuild(SubSeq(log, 1, 0)) = EmptySnapshot
  BY <1>2, <1>3, PrefixTyped DEF Rebuild, CatchUp
<1>5. FoldOf(Rebuild(log), log)
  <2>1. SubSeq(log, 1, Rebuild(log).seq) = log
    BY <1>1, <1>2
  <2>2. Rebuild(log) = Rebuild(SubSeq(log, 1, Rebuild(log).seq))
    BY <2>1
  <2>3. Rebuild(log).seq \in 0 .. Len(log)
    BY <1>1, <1>2
  <2>. QED  BY <2>2, <2>3 DEF FoldOf
<1>6. FoldOf(EmptySnapshot, log)
  <2>1. SubSeq(log, 1, EmptySnapshot.seq) = SubSeq(log, 1, 0)
    BY <1>3
  <2>2. EmptySnapshot.seq \in 0 .. Len(log)
    BY <1>2, <1>3
  <2>. QED  BY <1>4, <2>1, <2>2 DEF FoldOf
<1>. QED  BY <1>1, <1>5, <1>6

\* The log only grows, and a snapshot of it stays one.
LEMMA FoldedStays ==
  ASSUME LogTyped, NEW w \in Writers, NEW draft \in Events, Insert(w, draft),
         NEW snap, FoldOf(snap, log)
  PROVE  FoldOf(snap, log')
<1>1. /\ LogTyped' /\ Len(log) \in Nat /\ Len(log') = Len(log) + 1
      /\ \A n \in 1 .. Len(log) : log'[n] = log[n]
  BY InsertedDraft DEF LogTyped
<1>2. snap.seq \in 0 .. Len(log) /\ snap = Rebuild(SubSeq(log, 1, snap.seq))
  BY DEF FoldOf
<1>3. SubSeq(log', 1, snap.seq) = SubSeq(log, 1, snap.seq)
  BY <1>1, <1>2 DEF LogTyped
<1>4. snap.seq \in 0 .. Len(log')
  BY <1>1, <1>2
<1>. QED  BY <1>2, <1>3, <1>4 DEF FoldOf

\* A snapshot of some position is one of the table's.
LEMMA FoldedTyped ==
  ASSUME LogTyped, Len(log) <= MaxEvents, NEW snap, FoldOf(snap, log)
  PROVE  snap \in Snapshots
<1>1. snap.seq \in 0 .. Len(log) /\ snap \in Views(EffectKeys, 1 .. snap.seq)
  BY PrefixTyped DEF FoldOf
<1>2. Len(log) \in Nat /\ 1 .. snap.seq \subseteq 1 .. MaxEvents
  BY <1>1, BoundAssumption DEF LogTyped
<1>. QED  BY <1>1, <1>2 DEF Views, Snapshots

LEMMA ViewsInit == Init => ViewsAreFolds
<1> SUFFICES ASSUME Init PROVE ViewsAreFolds
  OBVIOUS
<1>1. LogTyped /\ Len(log) = 1
  BY DEF Init, LogTyped, Events
<1>2. FoldOf(EmptySnapshot, log) /\ EmptySnapshot \in Snapshots
  BY <1>1, BoundAssumption, WholeIsFolded, FoldedTyped
<1>. QED  BY <1>1, <1>2, BoundAssumption DEF Init, ViewsAreFolds, TypeOK, LogTyped

\* A writer is out of record(): what it held was a snapshot, or nothing.
LEMMA ReturnKeeps ==
  ASSUME ViewsAreFolds, NEW ws, Return(ws), UNCHANGED log,
         FoldOf(stored', log), stored' \in Snapshots
  PROVE  ViewsAreFolds'
<1>1. LogTyped /\ FoldOf(EmptySnapshot, log) /\ EmptySnapshot \in Snapshots
  <2>1. LogTyped /\ Len(log) <= MaxEvents
    BY BoundAssumption DEF ViewsAreFolds, TypeOK, LogTyped
  <2>. QED  BY <2>1, WholeIsFolded, FoldedTyped
<1>2. /\ pc' \in [Writers -> {"idle", "appended", "folded"}]
      /\ event' \in [Writers -> 0 .. MaxEvents]
      /\ folded' \in [Writers -> Snapshots]
  BY <1>1, BoundAssumption DEF ViewsAreFolds, TypeOK, Return
<1>3. \A w \in Writers : FoldOf(folded'[w], log)
  BY <1>1 DEF ViewsAreFolds, Return
<1>4. \A w \in Writers : pc'[w] = "appended" => event'[w] \in 1 .. Len(log)
  BY DEF ViewsAreFolds, Return
<1>. QED  BY <1>2, <1>3, <1>4 DEF ViewsAreFolds, TypeOK

LEMMA ViewsStep == ViewsAreFolds /\ [Next]_vars => ViewsAreFolds'
<1> SUFFICES ASSUME ViewsAreFolds, [Next]_vars PROVE ViewsAreFolds'
  OBVIOUS
<1>0. LogTyped /\ Len(log) \in 1 .. MaxEvents /\ TypeOK
  BY DEF ViewsAreFolds, TypeOK, LogTyped
<1>1. ASSUME NEW w \in Writers, NEW draft \in Events, Insert(w, draft)
      PROVE  ViewsAreFolds'
  <2>1. /\ LogTyped' /\ Len(log') = Len(log) + 1 /\ Len(log) < MaxEvents
        /\ Len(log') \in 1 .. MaxEvents
    <3>1. LogTyped' /\ Len(log') = Len(log) + 1
      BY <1>0, <1>1, InsertedDraft
    <3>2. Len(log) < MaxEvents
      BY <1>1 DEF Insert
    <3>. QED  BY <1>0, <3>1, <3>2, BoundAssumption
  <2>2. /\ pc' = [pc EXCEPT ![w] = "appended"]
        /\ event' = [event EXCEPT ![w] = Len(log')]
        /\ UNCHANGED <<stored, folded>>
    BY <1>1, <2>1 DEF Insert
  <2>3. TypeOK'
    BY <1>0, <2>1, <2>2 DEF TypeOK, LogTyped
  <2>4. FoldOf(stored', log') /\ \A v \in Writers : FoldOf(folded'[v], log')
    BY <1>0, <1>1, <2>2, FoldedStays DEF ViewsAreFolds
  <2>5. \A v \in Writers : pc'[v] = "appended" => event'[v] \in 1 .. Len(log')
    BY <1>0, <2>1, <2>2 DEF ViewsAreFolds, TypeOK
  <2>. QED  BY <2>3, <2>4, <2>5 DEF ViewsAreFolds
<1>2. ASSUME NEW w \in Writers, FoldSnapshot(w)
      PROVE  ViewsAreFolds'
  <2>1. Read = Rebuild(log)
    BY <1>0, FoldedCatchesUp DEF ViewsAreFolds, Read
  <2>2. event[w] \in 1 .. Len(log)
    BY <1>2 DEF FoldSnapshot, ViewsAreFolds
  <2>3. /\ Rebuild(log) \in Views(EffectKeys, 1 .. Len(log)) /\ Rebuild(log).seq = Len(log)
    BY <1>0, LogIsHistory, RebuildTyped
  <2>4. Apply(Read, event[w], log[event[w]]) = Rebuild(log)
    <3>1. event[w] \in Nat /\ event[w] <= Rebuild(log).seq
      BY <1>0, <2>2, <2>3
    <3>2. Names(log[event[w]], EffectKeys)
      BY <1>0, <2>2, LogIsHistory DEF IsHistory
    <3>. QED  BY <2>1, <2>2, <2>3, <3>1, <3>2, ApplyTyped
  <2>5. /\ folded' = [folded EXCEPT ![w] = Rebuild(log)]
        /\ pc' = [pc EXCEPT ![w] = "folded"]
        /\ UNCHANGED <<log, stored, event>>
    BY <1>2, <2>4 DEF FoldSnapshot
  <2>6. FoldOf(Rebuild(log), log) /\ Rebuild(log) \in Snapshots
    BY <1>0, WholeIsFolded, FoldedTyped
  <2>7. TypeOK'
    BY <1>0, <2>5, <2>6 DEF TypeOK
  <2>8. \A v \in Writers : FoldOf(folded'[v], log)
    BY <1>0, <2>5, <2>6 DEF ViewsAreFolds, TypeOK
  <2>9. \A v \in Writers : pc'[v] = "appended" => event'[v] \in 1 .. Len(log)
    BY <1>0, <2>5 DEF ViewsAreFolds, TypeOK
  <2>. QED  BY <2>5, <2>7, <2>8, <2>9 DEF ViewsAreFolds
<1>3. ASSUME NEW w \in Writers, SaveSnapshot(w) \/ SaveFails(w)
      PROVE  ViewsAreFolds'
  <2>1. stored' \in {stored, folded[w]} /\ Return({w}) /\ UNCHANGED log
    BY <1>3 DEF SaveSnapshot, SaveFails
  <2>2. FoldOf(stored', log) /\ stored' \in Snapshots
    BY <1>0, <2>1 DEF ViewsAreFolds, TypeOK
  <2>. QED  BY <2>1, <2>2, ReturnKeeps
<1>4. ASSUME NEW p \in Processes, Crash(p)
      PROVE  ViewsAreFolds'
  <2>1. UNCHANGED <<log, stored>> /\ Return({w \in Writers : HostOf[w] = p})
    BY <1>4 DEF Crash
  <2>2. FoldOf(stored', log) /\ stored' \in Snapshots
    BY <1>0, <2>1 DEF ViewsAreFolds, TypeOK
  <2>. QED  BY <2>1, <2>2, ReturnKeeps
<1>5. CASE UNCHANGED vars
  BY <1>5 DEF vars, ViewsAreFolds, TypeOK
<1>6. ASSUME NEW w \in Writers, AppendEvent(w) \/ AppendPastEnding(w)
      PROVE  ViewsAreFolds'
  <2>1. CASE AppendEvent(w)
    BY <1>1, <2>1 DEF AppendEvent, Events
  <2>2. CASE AppendPastEnding(w)
    BY <1>1, <2>2 DEF AppendPastEnding, Events
  <2>. QED  BY <1>6, <2>1, <2>2
<1>. QED  BY <1>2, <1>3, <1>4, <1>5, <1>6 DEF Next

\* Rows and writers stay well formed, and every snapshot there is, stored or held,
\* is what the history came to at some position.
THEOREM SnapshotsAreFolds == Spec => []ViewsAreFolds
BY ViewsInit, ViewsStep, PTL DEF Spec

\* The stored view never moves backwards, though two processes fold and save
\* with nothing between them (SnapshotNeverBackwards).
THEOREM SnapshotsAdvance == Spec => SnapshotNeverBackwards
<1>1. ViewsAreFolds /\ [Next]_vars => [stored'.seq >= stored.seq]_vars
  <2> SUFFICES ASSUME ViewsAreFolds, [Next]_vars PROVE stored'.seq >= stored.seq
    OBVIOUS
  <2>1. stored.seq \in Nat /\ \A w \in Writers : folded[w].seq \in Nat
    BY DEF ViewsAreFolds, TypeOK, Snapshots
  <2>2. CASE UNCHANGED stored
    BY <2>1, <2>2
  <2>3. ASSUME NEW w \in Writers, SaveSnapshot(w)
        PROVE  stored'.seq >= stored.seq
    BY <2>1, <2>3 DEF SaveSnapshot
  <2>4. CASE ~ \E w \in Writers : SaveSnapshot(w)
    BY <2>2, <2>4 DEF Next, vars, AppendEvent, AppendPastEnding, Insert, FoldSnapshot,
       SaveFails, Crash
  <2>. QED  BY <2>3, <2>4
<1>. QED  BY <1>1, SnapshotsAreFolds, PTL DEF SnapshotNeverBackwards, Spec

-----------------------------------------------------------------------------
(* The state shown.                                                        *)

\* An event moves a run that is not over to an ending if it is one of the
\* endings the store keeps, and otherwise not.
LEMMA AdvanceEnding ==
  ASSUME NEW state \in RunStates, ~IsTerminal(state), NEW type, type # "recovery_failed"
  PROVE  /\ type \in TerminalTypes => /\ Advance(state, type).to = MovesTo[type]
                                      /\ IsTerminal(MovesTo[type])
         /\ type \notin TerminalTypes => ~IsTerminal(Advance(state, type).to)
<1>1. /\ TerminalTypes \subseteq DOMAIN MovesTo
      /\ \A t \in TerminalTypes : IsTerminal(MovesTo[t])
      /\ \A t \in TerminalTypes : t \notin DOMAIN PhaseEnds /\ t # "tool_effect_reconciled"
      /\ \A t \in DOMAIN MovesTo :
           t \notin TerminalTypes /\ t # "recovery_failed" => ~IsTerminal(MovesTo[t])
  BY DEF TerminalTypes, MovesTo, IsTerminal, TerminalStates, PhaseEnds
<1>2. ~IsTerminal("running")
  BY DEF IsTerminal, TerminalStates
<1>3. CASE type \in TerminalTypes
  BY <1>1, <1>3 DEF Advance, To
<1>4. CASE type \notin TerminalTypes
  BY <1>1, <1>2, <1>4 DEF Advance, To, Illegal
<1>. QED  BY <1>3, <1>4

\* The state shown after one more event.
LEMMA StateAppend ==
  ASSUME LogTyped, NEW k \in 0 .. (Len(log) - 1)
  PROVE  LET before == Rebuild(SubSeq(log, 1, k)).state
             after  == Rebuild(SubSeq(log, 1, k + 1)).state
         IN  before \in RunStates /\ after = Advance(before, log[k + 1].type).to
<1>1. /\ Len(log) \in Nat /\ k \in 0 .. Len(log) /\ k + 1 \in 0 .. Len(log) /\ k \in Nat
      /\ k + 1 \in 1 .. (k + 1) /\ ~(k + 1 <= k)
  BY DEF LogTyped
<1> DEFINE P == SubSeq(log, 1, k)
           Q == SubSeq(log, 1, k + 1)
<1>2. /\ Rebuild(P) \in Views(EffectKeys, 1 .. k) /\ Rebuild(P).seq = k
      /\ Len(P) = k /\ Len(Q) = k + 1
      /\ \A n \in 1 .. k : Q[n] = P[n]
      /\ Q[k + 1] = log[k + 1]
  BY <1>1, PrefixTyped
<1>3. Rebuild(Q) = Apply(Rebuild(P), k + 1, log[k + 1])
  <2> HIDE DEF P, Q
  <2>. QED  BY <1>1, <1>2, RebuildAppend
<1>4. Names(log[k + 1], EffectKeys)
  BY <1>1, LogIsHistory DEF IsHistory
<1>5. Rebuild(P) \in Views(EffectKeys, 1 .. (k + 1))
  BY <1>1, <1>2 DEF Views
<1> HIDE DEF P, Q
<1>6. Rebuild(Q).state = Advance(Rebuild(P).state, log[k + 1].type).to
  BY <1>1, <1>2, <1>3, <1>4, <1>5, ApplyTyped
<1>7. Rebuild(P).state \in RunStates
  BY <1>2 DEF Views
<1>. QED  BY <1>6, <1>7 DEF P, Q

\* What a screen shows never goes back a phase, nor out of an ending.
LEMMA Forward ==
  ASSUME LogTyped
  PROVE  StateNeverRegresses
BY StateAppend, AdvanceForward DEF StateNeverRegresses, LogTyped

LEMMA EndingStep ==
  ASSUME LogTyped, EndingIsState, NothingAfterEnding', [Next]_vars
  PROVE  EndingIsState'
<1> DEFINE R == Rebuild(log).state
<1>1. CASE UNCHANGED log
  BY <1>1 DEF EndingIsState, Ended, EndingAt
<1>2. ASSUME NEW w \in Writers, NEW draft \in Events, Insert(w, draft),
             ~Ended(log) \/ draft.type = "tool_effect_reconciled"
      PROVE  EndingIsState'
  <2>1. /\ LogTyped' /\ Len(log) \in Nat /\ Len(log') = Len(log) + 1
        /\ log'[Len(log')] = draft
        /\ \A n \in 1 .. Len(log) : log'[n] = log[n]
    BY <1>2, InsertedDraft DEF LogTyped
  <2>2. R \in RunStates /\ Rebuild(log').state = Advance(R, draft.type).to
    <3>1. Rebuild(log) \in Views(EffectKeys, 1 .. Len(log)) /\ Rebuild(log).seq = Len(log)
      BY LogIsHistory, RebuildTyped
    <3>2. Rebuild(log') = Apply(Rebuild(log), Len(log'), draft)
      BY <2>1, RebuildAppend
    <3>3. /\ Rebuild(log) \in Views(EffectKeys, 1 .. Len(log'))
          /\ Len(log') \in Nat /\ Len(log') \in 1 .. Len(log') /\ Len(log') > Rebuild(log).seq
      BY <2>1, <3>1 DEF Views
    <3>4. Names(draft, EffectKeys)
      BY DraftsAssumption DEF Events, Drafts, Fresh, About, Keyed, Reconciled, Names
    <3>5. Apply(Rebuild(log), Len(log'), draft).state
            = Advance(Rebuild(log).state, draft.type).to
      <4> HIDE DEF R
      <4>. QED  BY <3>3, <3>4, ApplyTyped
    <3>6. R \in RunStates
      BY <3>1 DEF Views
    <3>. QED  BY <3>2, <3>5, <3>6
  <2>3. draft.type # "recovery_failed"
    BY DraftsAssumption DEF Events, Drafts, Fresh, About, Keyed, Reconciled
  <2>4. /\ Ended(log) <=> IsTerminal(R)
        /\ \A n \in 1 .. Len(log) : log[n].type \in TerminalTypes => MovesTo[log[n].type] = R
    BY DEF EndingIsState, EndingAt
  <2>5. Ended(log') <=> Ended(log) \/ draft.type \in TerminalTypes
    BY <2>1 DEF Ended
  <2> HIDE DEF R
  <2>6. CASE Ended(log)
    <3>1. Advance(R, draft.type).to = R /\ draft.type \notin TerminalTypes
      BY <1>2, <2>6 DEF Advance, To, TerminalTypes
    <3>2. \A n \in 1 .. Len(log') : log'[n].type \in TerminalTypes => MovesTo[log'[n].type] = R
      BY <2>1, <2>4, <3>1
    <3>. QED  BY <2>2, <2>4, <2>5, <2>6, <3>1, <3>2 DEF EndingIsState, EndingAt
  <2>7. CASE ~Ended(log)
    <3>1. \A n \in 1 .. Len(log) : log[n].type \notin TerminalTypes
      BY <2>7 DEF Ended
    <3>2. /\ draft.type \in TerminalTypes => /\ Advance(R, draft.type).to = MovesTo[draft.type]
                                             /\ IsTerminal(MovesTo[draft.type])
          /\ draft.type \notin TerminalTypes => ~IsTerminal(Advance(R, draft.type).to)
      BY <2>2, <2>3, <2>4, <2>7, AdvanceEnding
    <3>3. \A n \in 1 .. Len(log') :
            log'[n].type \in TerminalTypes => n = Len(log') /\ log'[n] = draft
      BY <2>1, <3>1
    <3>. QED  BY <2>2, <2>5, <2>7, <3>2, <3>3 DEF EndingIsState, EndingAt
  <2>. QED  BY <2>6, <2>7
<1>. QED  BY <1>1, <1>2, LogStep

LEMMA EndingInit == Init => EndingIsState
<1> SUFFICES ASSUME Init PROVE EndingIsState
  OBVIOUS
<1>1. /\ LogTyped /\ Len(log) = 1 /\ log[1].type = "run_created"
      /\ SubSeq(log, 1, 1) = log
  <2>1. Fresh("run_created") \in Events /\ Fresh("run_created").type = "run_created"
    BY DEF Events, Fresh, About
  <2>2. log = <<Fresh("run_created")>>
    BY DEF Init
  <2> HIDE DEF Fresh
  <2>3. log \in Seq(Events) /\ Len(log) = 1 /\ log[1] = Fresh("run_created")
    BY <2>1, <2>2
  <2>4. SubSeq(log, 1, 1) = log
    BY <2>3
  <2>. QED  BY <2>1, <2>3, <2>4 DEF LogTyped
<1>2. Rebuild(SubSeq(log, 1, 0)) = EmptySnapshot
  <2>1. FoldOf(EmptySnapshot, log) /\ EmptySnapshot.seq = 0
    BY <1>1, WholeIsFolded DEF EmptySnapshot
  <2>. QED  BY <2>1 DEF FoldOf
<1>3. Rebuild(log).state = Advance("created", "run_created").to
  <2>1. 0 \in 0 .. (Len(log) - 1) /\ 0 + 1 = 1
    BY <1>1
  <2>2. Rebuild(SubSeq(log, 1, 1)).state
          = Advance(Rebuild(SubSeq(log, 1, 0)).state, log[1].type).to
    BY <1>1, <2>1, StateAppend
  <2>3. Rebuild(SubSeq(log, 1, 1)) = Rebuild(log)
    BY <1>1
  <2>4. Rebuild(SubSeq(log, 1, 0)).state = "created"
    BY <1>2 DEF EmptySnapshot
  <2>. QED  BY <1>1, <2>2, <2>3, <2>4
<1>4. ~IsTerminal(Rebuild(log).state)
  <2>1. "created" \in RunStates /\ ~IsTerminal("created") /\ "run_created" \notin TerminalTypes
    BY DEF RunStates, IsTerminal, TerminalStates, TerminalTypes
  <2>. QED  BY <1>3, <2>1, AdvanceEnding
<1>. QED  BY <1>1, <1>4 DEF EndingIsState, Ended, EndingAt, TerminalTypes

\* What a screen is shown is one story (ViewsAgree): the cached view caught up is
\* the history folded, whatever saves and crashes left in the cache; its
\* ending is the history's; and it goes forward only.
THEOREM ViewsTellOneStory == Spec => []ViewsAgree
<1>1. LogTyped /\ EndingIsState /\ NothingAfterEnding' /\ [Next]_vars => EndingIsState'
  BY EndingStep
<1>2. Spec => []EndingIsState
  BY <1>1, EndingInit, LogTypedHolds, NothingFollowsEnding, PTL DEF Spec
<1>3. ViewsAreFolds /\ LogTyped /\ EndingIsState => ViewsAgree
  BY FoldedCatchesUp, Forward DEF ViewsAreFolds, ViewsAgree, ReadIsRebuild, Read
<1>. QED  BY <1>2, <1>3, SnapshotsAreFolds, LogTypedHolds, PTL
=============================================================================
