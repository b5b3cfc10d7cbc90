--------------------------- MODULE RunProjection ---------------------------
(***************************************************************************)
(* The snapshot a run's events fold into (agent_runtime/events/            *)
(* projection.rs), cut to the fields recovery and resumption read: the     *)
(* state, the attempts at recovery, the effects nobody can account for,    *)
(* the approvals outstanding and the anomalies.                            *)
(*                                                                         *)
(* An event is [type, about, keyed]: "about" is what its payload names (an *)
(* idempotency key or a discriminator), NoSubject where nothing reads it;  *)
(* "keyed" says its id is derived from what it is about rather than        *)
(* random.  Its sequence number is its position in the log.                *)
(***************************************************************************)
EXTENDS RunMachine, Sequences, FiniteSets

NoSubject == "-"

\* EventDraft::new() and EventDraft::idempotent().
About(type, subject) == [type |-> type, about |-> subject, keyed |-> FALSE]
Fresh(type)          == About(type, NoSubject)
Keyed(type, subject) == [type |-> type, about |-> subject, keyed |-> TRUE]

EmptySnapshot ==
  [seq |-> 0, state |-> "created", attempts |-> 0, unknown |-> {},
   approvals |-> 0, anomalies |-> {}]

\* absorb(): what the payload says, whatever became of the state.
Absorb(snap, event) ==
  CASE event.type = "recovery_started" ->
         [snap EXCEPT !.attempts = @ + 1]
    [] event.type = "tool_effect_unknown" ->
         [snap EXCEPT !.unknown = @ \cup {event.about}]
    [] event.type = "tool_effect_reconciled" ->
         [snap EXCEPT !.unknown = @ \ {event.about}]
    [] event.type = "approval_requested" ->
         [snap EXCEPT !.approvals = @ + 1]
    [] event.type = "approval_decided" ->
         [snap EXCEPT !.approvals = IF @ = 0 THEN 0 ELSE @ - 1]
    [] OTHER -> snap

\* Mutant: an event already seen is applied again.
ApplyAgain(snap, seq, event) ==
  LET move  == Advance(snap.state, event.type)
      moved == [snap EXCEPT !.seq = seq, !.state = move.to]
  IN IF move.legal THEN Absorb(moved, event) ELSE moved

\* apply(): an event already seen is skipped; an illegal one is noted, and
\* still read unless the run is over.
Apply(snap, seq, event) ==
  LET move  == Advance(snap.state, event.type)
      moved == [snap EXCEPT !.seq = seq, !.state = move.to,
                            !.anomalies = IF move.legal THEN @ ELSE @ \cup {seq}]
  IN IF seq <= snap.seq THEN snap
     ELSE IF ~move.legal /\ IsTerminal(snap.state) THEN moved
     ELSE Absorb(moved, event)

\* Folds the events of a log after the snapshot's own sequence number.
CatchUp(snap, log) ==
  LET upTo[n \in snap.seq .. Len(log)] ==
        IF n = snap.seq THEN snap ELSE Apply(upTo[n - 1], n, log[n])
  IN IF Len(log) <= snap.seq THEN snap ELSE upTo[Len(log)]

\* rebuild(): the whole history, ignoring any stored snapshot.
Rebuild(log) == CatchUp(EmptySnapshot, log)

-----------------------------------------------------------------------------
\* ending_of(): whether the log holds one of the endings the store knows.
Ended(log) == \E n \in 1 .. Len(log) : log[n].type \in TerminalTypes

EndingAt(log) == {n \in 1 .. Len(log) : log[n].type \in TerminalTypes}
=============================================================================
