------------------------ MODULE RunProjection_proofs ------------------------
(***************************************************************************)
(* Lemmas about the fold of a run's events, for histories of every length. *)
(*                                                                         *)
(* The fold is a recursive function over positions.  What is needed of it  *)
(* is shown by induction on positions: a set of numbers with nought and    *)
(* with every successor of its members has all of them, since the numbers  *)
(* it lacks would have a least one.                                        *)
(***************************************************************************)
EXTENDS RunProjection, WellFoundedInduction, TLAPS

-----------------------------------------------------------------------------
(* Induction.                                                              *)

\* A set of numbers that is not empty has a least member.
LEMMA LeastMember ==
  ASSUME NEW T, T \subseteq Nat, T # {}
  PROVE  \E x \in T : \A y \in T : ~(y < x)
<1> DEFINE R == OpToRel(<, Nat)
<1>1. IsWellFoundedOn(R, Nat)
  BY NatLessThanWellFounded, Zenon
<1>2. PICK x \in T : \A y \in T : ~ (<<y, x>> \in R)
  <2> HIDE DEF R
  <2>. QED  BY <1>1, WFMin, Zenon
<1>3. ASSUME NEW y \in Nat, NEW z \in Nat, y < z
      PROVE  <<y, z>> \in R
  BY <1>3, Zenon DEF OpToRel
<1> HIDE DEF R
<1>. QED  BY <1>2, <1>3

\* From one position to the next, as far as the last.
LEMMA Upwards ==
  ASSUME NEW a \in Nat, NEW b \in Nat, NEW S,
         a \in S, \A n \in a .. (b - 1) : n \in S => n + 1 \in S
  PROVE  a .. b \subseteq S
<1> DEFINE T == {n \in a .. b : n \notin S}
<1> SUFFICES ASSUME T # {} PROVE FALSE
  OBVIOUS
<1>1. PICK x \in T : \A y \in T : ~(y < x)
  <2>1. T \subseteq Nat
    OBVIOUS
  <2> HIDE DEF T
  <2>. QED  BY <2>1, LeastMember
<1>2. x # a /\ x - 1 \in a .. (b - 1)
  BY <1>1
<1>3. x - 1 \in S
  BY <1>1, <1>2
<1>. QED  BY <1>1, <1>2, <1>3

-----------------------------------------------------------------------------
(* The fold exists, and is what its equation says.                         *)

\* f folds the events of a log after the snapshot's own, as far as m.
IsFold(f, snap, log, m) ==
  f = [n \in snap.seq .. m |-> IF n = snap.seq THEN snap ELSE Apply(f[n - 1], n, log[n])]

LEMMA FoldExtends ==
  ASSUME NEW snap, snap.seq \in Nat, NEW log, NEW m \in Nat, snap.seq <= m,
         NEW f, IsFold(f, snap, log, m)
  PROVE  \E g : IsFold(g, snap, log, m + 1)
<1> DEFINE g == [n \in snap.seq .. (m + 1) |->
                   IF n = m + 1 THEN Apply(f[m], m + 1, log[m + 1]) ELSE f[n]]
           h == [n \in snap.seq .. (m + 1) |->
                   IF n = snap.seq THEN snap ELSE Apply(g[n - 1], n, log[n])]
<1>1. \A n \in snap.seq .. m : f[n] = IF n = snap.seq THEN snap ELSE Apply(f[n - 1], n, log[n])
  BY DEF IsFold
<1>2. \A n \in snap.seq .. (m + 1) : g[n] = h[n]
  <2> TAKE n \in snap.seq .. (m + 1)
  <2>1. CASE n = m + 1
    <3>1. n - 1 = m /\ n # snap.seq /\ g[n - 1] = f[m]
      BY <2>1
    <3>. QED  BY <2>1, <3>1
  <2>2. CASE n = snap.seq
    BY <1>1, <2>2
  <2>3. CASE n # m + 1 /\ n # snap.seq
    <3>1. n \in snap.seq .. m /\ g[n] = f[n] /\ g[n - 1] = f[n - 1]
      BY <2>3
    <3>. QED  BY <1>1, <2>3, <3>1
  <2>. QED  BY <2>1, <2>2, <2>3
<1>3. IsFold(g, snap, log, m + 1)
  BY <1>2 DEF IsFold
<1>. QED  BY <1>3

LEMMA FoldExists ==
  ASSUME NEW snap, snap.seq \in Nat, NEW log, NEW m \in Nat, snap.seq <= m
  PROVE  \E f : IsFold(f, snap, log, m)
<1> DEFINE S == {k \in Nat : \E f : IsFold(f, snap, log, k)}
<1>1. snap.seq \in S
  <2> DEFINE f == [n \in snap.seq .. snap.seq |-> snap]
  <2>1. IsFold(f, snap, log, snap.seq)
    BY DEF IsFold
  <2>. QED  BY <2>1
<1>2. \A k \in snap.seq .. (m - 1) : k \in S => k + 1 \in S
  BY FoldExtends
<1> HIDE DEF S
<1>3. snap.seq .. m \subseteq S
  BY <1>1, <1>2, Upwards
<1>. QED  BY <1>3 DEF S

\* Two logs hold the same events after a, as far as b.
Alike(log, other, a, b) == \A n \in (a + 1) .. b : log[n] = other[n]

\* Two logs alike as far as m fold alike as far as m.
LEMMA FoldsAgree ==
  ASSUME NEW snap, snap.seq \in Nat, NEW m \in Nat, snap.seq <= m,
         NEW log, NEW other, Alike(log, other, snap.seq, m),
         NEW f, NEW g, NEW i \in Nat, NEW j \in Nat, m <= i, m <= j,
         IsFold(f, snap, log, i), IsFold(g, snap, other, j)
  PROVE  f[m] = g[m]
<1> DEFINE S == {k \in Nat : f[k] = g[k]}
<1>1. /\ \A n \in snap.seq .. m :
           /\ f[n] = IF n = snap.seq THEN snap ELSE Apply(f[n - 1], n, log[n])
           /\ g[n] = IF n = snap.seq THEN snap ELSE Apply(g[n - 1], n, other[n])
  BY DEF IsFold
<1>2. snap.seq \in S
  BY <1>1
<1>3. \A k \in snap.seq .. (m - 1) : k \in S => k + 1 \in S
  <2> SUFFICES ASSUME NEW k \in snap.seq .. (m - 1), f[k] = g[k]
               PROVE  f[k + 1] = g[k + 1]
    OBVIOUS
  <2>1. /\ k + 1 \in snap.seq .. m /\ k + 1 # snap.seq /\ (k + 1) - 1 = k
        /\ log[k + 1] = other[k + 1]
    BY DEF Alike
  <2>2. /\ f[k + 1] = Apply(f[k], k + 1, log[k + 1])
        /\ g[k + 1] = Apply(g[k], k + 1, other[k + 1])
    BY <1>1, <2>1
  <2>. QED  BY <2>1, <2>2
<1> HIDE DEF S
<1>4. snap.seq .. m \subseteq S
  BY <1>2, <1>3, Upwards
<1>. QED  BY <1>4 DEF S

\* Catching up is the last value of such a fold.
LEMMA CatchUpIsFold ==
  ASSUME NEW snap, snap.seq \in Nat, NEW log, Len(log) \in Nat, snap.seq <= Len(log)
  PROVE  \E f : IsFold(f, snap, log, Len(log)) /\ CatchUp(snap, log) = f[Len(log)]
<1> DEFINE F == CHOOSE f : IsFold(f, snap, log, Len(log))
<1>1. IsFold(F, snap, log, Len(log))
  BY FoldExists
<1>2. CASE snap.seq < Len(log)
  <2>1. CatchUp(snap, log) = F[Len(log)]
    BY <1>2 DEF CatchUp, IsFold
  <2>. QED  BY <1>1, <2>1
<1>3. CASE snap.seq = Len(log)
  <2>1. CatchUp(snap, log) = snap
    BY <1>3 DEF CatchUp
  <2>2. F[Len(log)] = snap
    BY <1>1, <1>3 DEF IsFold
  <2>. QED  BY <1>1, <2>1, <2>2
<1>. QED  BY <1>2, <1>3

-----------------------------------------------------------------------------
(* One event.                                                              *)

\* The snapshots over a set of effects and a set of positions.
Views(effects, positions) ==
  [seq : Nat, state : RunStates, attempts : Nat, unknown : SUBSET effects,
   approvals : Nat, anomalies : SUBSET positions]

\* What an event says is unknown is one of the effects.
Names(event, effects) == event.type = "tool_effect_unknown" => event.about \in effects

\* An event moves a run forward or leaves it, and never out of an ending.
LEMMA AdvanceForward ==
  ASSUME NEW state \in RunStates, NEW type
  PROVE  /\ Advance(state, type).to \in RunStates
         /\ Rank(Advance(state, type).to) >= Rank(state)
         /\ IsTerminal(state) => Advance(state, type).to = state
         /\ Advance(state, type).legal \in BOOLEAN
<1>0. Rank(state) \in Int
  BY DEF Rank
<1>1. CASE type = "tool_effect_reconciled" \/ IsTerminal(state)
  BY <1>0, <1>1 DEF Advance, To, Illegal
<1>2. CASE type # "tool_effect_reconciled" /\ ~IsTerminal(state)
  <2>1. CASE type \in DOMAIN PhaseEnds
    <3>1. Advance(state, type) = To(IF PhaseEnds[type] = state THEN "running" ELSE state)
      BY <1>2, <2>1 DEF Advance
    <3>2. \A t \in DOMAIN PhaseEnds : PhaseEnds[t] \in WorkingStates
      BY DEF PhaseEnds, WorkingStates
    <3>3. \A s \in WorkingStates : Rank(s) = 4 /\ Rank("running") = 4
      BY DEF Rank, WorkingStates
    <3>. QED  BY <1>0, <1>2, <2>1, <3>1, <3>2, <3>3 DEF To, RunStates, WorkingStates
  <2>2. CASE type \notin DOMAIN PhaseEnds /\ type \notin DOMAIN MovesTo
    <3>1. Advance(state, type) = To(state)
      BY <1>2, <2>2 DEF Advance
    <3>. QED  BY <1>0, <3>1 DEF To
  <2>3. CASE type \notin DOMAIN PhaseEnds /\ type \in DOMAIN MovesTo
    <3>1. Advance(state, type) = IF \/ IsTerminal(MovesTo[type])
                                    \/ Rank(MovesTo[type]) >= Rank(state)
                                 THEN To(MovesTo[type]) ELSE Illegal(state)
      BY <1>2, <2>3 DEF Advance
    <3>2. \A t \in DOMAIN MovesTo : MovesTo[t] \in RunStates
      BY DEF MovesTo, RunStates, WorkingStates, TerminalStates
    <3>3. /\ \A s \in TerminalStates : Rank(s) = 6
          /\ \A s \in RunStates : Rank(s) <= 6
      BY DEF Rank, RunStates, WorkingStates, TerminalStates
    <3>. QED  BY <1>0, <1>2, <2>3, <3>1, <3>2, <3>3 DEF To, Illegal, IsTerminal
  <2>. QED  BY <2>1, <2>2, <2>3
<1>. QED  BY <1>1, <1>2

\* An event seen already changes nothing; any other is the last one seen.
LEMMA ApplyTyped ==
  ASSUME NEW effects, NEW positions, NEW snap \in Views(effects, positions),
         NEW seq \in Nat, seq \in positions, NEW event, Names(event, effects)
  PROVE  /\ Apply(snap, seq, event) \in Views(effects, positions)
         /\ Apply(snap, seq, event).seq = IF seq <= snap.seq THEN snap.seq ELSE seq
         /\ seq <= snap.seq => Apply(snap, seq, event) = snap
         /\ seq > snap.seq =>
              Apply(snap, seq, event).state = Advance(snap.state, event.type).to
<1> DEFINE move == Advance(snap.state, event.type)
           moved == [snap EXCEPT !.seq = seq, !.state = move.to,
                     !.anomalies = IF move.legal THEN @ ELSE @ \cup {seq}]
<1>1. CASE seq <= snap.seq
  BY <1>1 DEF Apply, Views
<1>2. CASE seq > snap.seq
  <2>1. move.to \in RunStates
    BY AdvanceForward DEF Views
  <2>2. /\ moved \in Views(effects, positions) /\ moved.seq = seq /\ moved.state = move.to
    <3> HIDE DEF move
    <3>. QED  BY <2>1 DEF Views
  <2>3. Apply(snap, seq, event) \in {moved, Absorb(moved, event)}
    BY <1>2 DEF Apply, Views
  <2>4. /\ Absorb(moved, event) \in Views(effects, positions)
        /\ Absorb(moved, event).seq = moved.seq /\ Absorb(moved, event).state = moved.state
    <3> HIDE DEF moved
    <3>. QED  BY <2>2 DEF Absorb, Views, Names
  <2> HIDE DEF moved
  <2>. QED  BY <1>2, <2>2, <2>3, <2>4 DEF Views
<1>. QED  BY <1>1, <1>2 DEF Views

\* Only the events about an effect change which effects nobody settled.
LEMMA ApplyKeepsUnknown ==
  ASSUME NEW effects, NEW positions, NEW snap \in Views(effects, positions),
         NEW seq \in Nat, seq \in positions, NEW event,
         event.type \notin {"tool_effect_unknown", "tool_effect_reconciled"}
  PROVE  Apply(snap, seq, event).unknown = snap.unknown
<1> DEFINE move == Advance(snap.state, event.type)
           moved == [snap EXCEPT !.seq = seq, !.state = move.to,
                     !.anomalies = IF move.legal THEN @ ELSE @ \cup {seq}]
<1>1. moved \in Views(effects, positions) /\ moved.unknown = snap.unknown
  <2>1. move.to \in RunStates
    BY AdvanceForward DEF Views
  <2> HIDE DEF move
  <2>. QED  BY <2>1 DEF Views
<1>2. Apply(snap, seq, event) \in {snap, moved, Absorb(moved, event)}
  BY DEF Apply
<1>3. Absorb(moved, event).unknown = moved.unknown
  <2> HIDE DEF moved
  <2>. QED  BY <1>1 DEF Absorb, Views
<1> HIDE DEF moved
<1>. QED  BY <1>1, <1>2, <1>3

-----------------------------------------------------------------------------
(* A whole history.                                                        *)

\* A sequence of events each of whose effects is one of the effects.
IsHistory(log, effects) ==
  /\ Len(log) \in Nat
  /\ \A n \in 1 .. Len(log) : Names(log[n], effects)

LEMMA EmptyIsView ==
  ASSUME NEW effects, NEW positions
  PROVE  EmptySnapshot \in Views(effects, positions) /\ EmptySnapshot.seq = 0
BY DEF EmptySnapshot, Views, RunStates

\* Every value of a fold is a snapshot taken at its position.
LEMMA FoldTyped ==
  ASSUME NEW effects, NEW log, IsHistory(log, effects), NEW m \in 0 .. Len(log),
         NEW snap \in Views(effects, 1 .. m), snap.seq <= m,
         NEW f, NEW j \in Nat, m <= j, IsFold(f, snap, log, j)
  PROVE  f[m] \in Views(effects, 1 .. m) /\ f[m].seq = m
<1> DEFINE S == {k \in Nat : f[k] \in Views(effects, 1 .. m) /\ f[k].seq = k}
<1>0. snap.seq \in Nat
  BY DEF Views
<1>1. /\ Len(log) \in Nat /\ m \in Nat
      /\ \A n \in 1 .. Len(log) : Names(log[n], effects)
  BY DEF IsHistory
<1>2. \A n \in snap.seq .. m : f[n] = IF n = snap.seq THEN snap ELSE Apply(f[n - 1], n, log[n])
  BY <1>0, <1>1 DEF IsFold
<1>3. snap.seq \in S
  BY <1>0, <1>1, <1>2
<1>4. \A k \in snap.seq .. (m - 1) : k \in S => k + 1 \in S
  <2> SUFFICES ASSUME NEW k \in snap.seq .. (m - 1),
                      f[k] \in Views(effects, 1 .. m), f[k].seq = k
               PROVE  f[k + 1] \in Views(effects, 1 .. m) /\ f[k + 1].seq = k + 1
    BY <1>0, <1>1
  <2>1. /\ k + 1 \in Nat /\ k + 1 \in 1 .. m /\ Names(log[k + 1], effects) /\ ~(k + 1 <= k)
    BY <1>0, <1>1
  <2>2. f[k + 1] = Apply(f[k], k + 1, log[k + 1])
    BY <1>0, <1>1, <1>2
  <2>. QED  BY <2>1, <2>2, ApplyTyped
<1> HIDE DEF S
<1>5. snap.seq .. m \subseteq S
  BY <1>0, <1>1, <1>3, <1>4, Upwards
<1>6. m \in S
  BY <1>0, <1>1, <1>5
<1>. QED  BY <1>6 DEF S

\* What a snapshot taken inside a history catches up to was taken at its end.
LEMMA CatchUpTyped ==
  ASSUME NEW effects, NEW log, IsHistory(log, effects),
         NEW snap \in Views(effects, 1 .. Len(log)), snap.seq <= Len(log)
  PROVE  /\ CatchUp(snap, log) \in Views(effects, 1 .. Len(log))
         /\ CatchUp(snap, log).seq = Len(log)
<1>1. snap.seq \in Nat /\ Len(log) \in Nat /\ Len(log) \in 0 .. Len(log)
  BY DEF Views, IsHistory
<1>2. PICK f : IsFold(f, snap, log, Len(log)) /\ CatchUp(snap, log) = f[Len(log)]
  BY <1>1, CatchUpIsFold
<1>. QED  BY <1>1, <1>2, FoldTyped

LEMMA RebuildTyped ==
  ASSUME NEW effects, NEW log, IsHistory(log, effects)
  PROVE  /\ Rebuild(log) \in Views(effects, 1 .. Len(log))
         /\ Rebuild(log).seq = Len(log)
<1>1. Len(log) \in Nat
  BY DEF IsHistory
<1>. QED  BY <1>1, EmptyIsView, CatchUpTyped DEF Rebuild

\* One more event is applied to what the others came to.
LEMMA CatchUpAppend ==
  ASSUME NEW snap, snap.seq \in Nat, NEW log, Len(log) \in Nat, snap.seq <= Len(log),
         NEW longer, Len(longer) = Len(log) + 1,
         \A n \in 1 .. Len(log) : longer[n] = log[n]
  PROVE  CatchUp(snap, longer) = Apply(CatchUp(snap, log), Len(longer), longer[Len(longer)])
<1>1. PICK f : IsFold(f, snap, log, Len(log)) /\ CatchUp(snap, log) = f[Len(log)]
  BY CatchUpIsFold
<1>2. PICK g : IsFold(g, snap, longer, Len(longer)) /\ CatchUp(snap, longer) = g[Len(longer)]
  BY CatchUpIsFold
<1>3. f[Len(log)] = g[Len(log)]
  <2>1. PICK i \in Nat, j \in Nat : i = Len(log) /\ j = Len(longer)
    OBVIOUS
  <2>2. Alike(log, longer, snap.seq, i)
    BY <2>1 DEF Alike
  <2>3. IsFold(f, snap, log, i) /\ IsFold(g, snap, longer, j) /\ snap.seq <= i /\ i <= i /\ i <= j
    BY <1>1, <1>2, <2>1
  <2>4. f[i] = g[i]
    BY <2>2, <2>3, FoldsAgree
  <2>. QED  BY <2>1, <2>4
<1>4. /\ Len(longer) \in snap.seq .. Len(longer) /\ Len(longer) # snap.seq
      /\ Len(longer) - 1 = Len(log)
  OBVIOUS
<1>5. g[Len(longer)] = Apply(g[Len(longer) - 1], Len(longer), longer[Len(longer)])
  BY <1>2, <1>4 DEF IsFold
<1>. QED  BY <1>1, <1>2, <1>3, <1>4, <1>5

\* The same of a history folded from its beginning.
LEMMA RebuildAppend ==
  ASSUME NEW log, Len(log) \in Nat, NEW longer, Len(longer) = Len(log) + 1,
         \A n \in 1 .. Len(log) : longer[n] = log[n]
  PROVE  Rebuild(longer) = Apply(Rebuild(log), Len(longer), longer[Len(longer)])
<1>1. EmptySnapshot.seq = 0
  BY DEF EmptySnapshot
<1>. QED  BY <1>1, CatchUpAppend DEF Rebuild

\* A history folded as far as some position and caught up from there is the
\* whole history folded.
LEMMA CatchUpFromPrefix ==
  ASSUME NEW effects, NEW log, IsHistory(log, effects), NEW k \in 0 .. Len(log),
         NEW prefix, Len(prefix) = k, \A n \in 1 .. k : prefix[n] = log[n]
  PROVE  CatchUp(Rebuild(prefix), log) = Rebuild(log)
<1>1. /\ Len(log) \in Nat /\ k \in Nat /\ k <= Len(log)
      /\ EmptySnapshot.seq = 0 /\ EmptySnapshot \in Views(effects, 1 .. k)
  BY EmptyIsView DEF IsHistory
<1>2. PICK f : IsFold(f, EmptySnapshot, log, Len(log)) /\ Rebuild(log) = f[Len(log)]
  BY <1>1, CatchUpIsFold DEF Rebuild
<1>3. PICK g : IsFold(g, EmptySnapshot, prefix, k) /\ Rebuild(prefix) = g[k]
  BY <1>1, CatchUpIsFold DEF Rebuild
<1>4. f[k] = g[k]
  <2>1. /\ Alike(log, prefix, EmptySnapshot.seq, k)
        /\ EmptySnapshot.seq \in Nat /\ EmptySnapshot.seq <= k /\ k <= k
    BY <1>1 DEF Alike
  <2>. QED  BY <1>1, <1>2, <1>3, <2>1, FoldsAgree
<1>5. f[k].seq = k
  BY <1>1, <1>2, FoldTyped
<1> DEFINE h == [n \in k .. Len(log) |-> f[n]]
<1>6. IsFold(h, f[k], log, Len(log))
  <2> DEFINE e == [n \in k .. Len(log) |-> IF n = k THEN f[k] ELSE Apply(h[n - 1], n, log[n])]
  <2>1. \A n \in 0 .. Len(log) : f[n] = IF n = 0 THEN EmptySnapshot ELSE Apply(f[n - 1], n, log[n])
    BY <1>1, <1>2 DEF IsFold
  <2>2. \A n \in k .. Len(log) : h[n] = e[n]
    <3> TAKE n \in k .. Len(log)
    <3>1. CASE n = k
      BY <3>1
    <3>2. CASE n # k
      <4>1. n - 1 \in k .. Len(log) /\ n \in 0 .. Len(log) /\ n # 0
        BY <1>1, <3>2
      <4>. QED  BY <2>1, <3>2, <4>1
    <3>. QED  BY <3>1, <3>2
  <2>3. h = e
    BY <2>2
  <2>. QED  BY <1>5, <2>3 DEF IsFold
<1>7. PICK d : IsFold(d, f[k], log, Len(log)) /\ CatchUp(f[k], log) = d[Len(log)]
  BY <1>1, <1>5, CatchUpIsFold
<1> HIDE DEF h
<1>8. d[Len(log)] = h[Len(log)]
  <2>1. PICK i \in Nat : i = Len(log)
    BY <1>1
  <2>2. Alike(log, log, f[k].seq, i)
    BY DEF Alike
  <2>3. /\ IsFold(d, f[k], log, i) /\ IsFold(h, f[k], log, i)
        /\ f[k].seq \in Nat /\ f[k].seq <= i /\ i <= i
    BY <1>1, <1>5, <1>6, <1>7, <2>1
  <2>4. d[i] = h[i]
    BY <2>2, <2>3, FoldsAgree
  <2>. QED  BY <2>1, <2>4
<1>. QED  BY <1>1, <1>2, <1>3, <1>4, <1>7, <1>8 DEF h
=============================================================================
