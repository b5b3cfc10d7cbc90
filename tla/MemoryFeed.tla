----------------------------- MODULE MemoryFeed -----------------------------
(***************************************************************************)
(* The changefeed of the agents' shared memory and the window that follows *)
(* it (knowledge/graph/runtime_store.rs, commands/memory_graph.rs,         *)
(* components/graph/memoryFeed.ts, AgentMemoryPanel.tsx).                  *)
(*                                                                         *)
(* The graph rings a bell that carries a number; the window asks for what  *)
(* changed after its cursor, and folds the answer into its cache.  Between *)
(* a question and its answer, and between the answer and its arrival, the  *)
(* graph moves, bells ring and a person presses Refresh.                   *)
(*                                                                         *)
(* The window shows one task to one person, Viewer.  Nothing in the        *)
(* program raises the feed's retention floor, so no answer is a reset.     *)
(***************************************************************************)
EXTENDS MemoryGraph

CONSTANTS
    Viewer,      \* whose window it is
    Batch,       \* how many log rows one answer covers
    Reloads      \* the times the snapshot is asked for: on mount, on Refresh

ASSUME FeedAssumption == Viewer \in Readers /\ Batch \in Nat \ {0}

VARIABLES
    bells,   \* the revisions announced and not heard yet
    cache,   \* what the window draws from, and where in the feed it stands
    drain,   \* the catching up under way: its own cache and the answer
    load     \* each asking for a snapshot

feedVars == <<bells, cache, drain, load>>
allVars == <<vars, feedVars>>

TaskItems == Items \ Mirrored
Latest == Len(log)
\* The rows of this scope after a cursor, and as many as one answer covers.
RowsAfter(cursor) == {k \in cursor + 1 .. Latest : log[k] \notin Mirrored}
FirstOf(after) == {k \in after : Cardinality({n \in after : n < k}) < Batch}

\* What this person sees of an item: its revision, or nothing.
Seen(i) == IF ReadableBy(i, Viewer) THEN item[i].rev ELSE 0
SeenLine(e) == Seen(e[1]) > 0 /\ Seen(e[2]) > 0

Empty == [shown |-> [i \in TaskItems |-> 0], lines |-> {}, cursor |-> 0]
NoAnswer == [rows |-> <<>>, cursor |-> 0, more |-> FALSE]
NoDrain == [at |-> "idle", state |-> Empty, answer |-> NoAnswer]
NoLoad == [at |-> "idle", snapshot |-> Empty]

----------------------------------------------------------------------------
(* What the graph answers *)

\* snapshot_at: the items, the edges and the cursor are of one moment.
Snapshot ==
    [shown |-> [i \in TaskItems |-> Seen(i)],
     lines |-> {e \in edges : SeenLine(e)},
     cursor |-> Latest]

\* Mutant: the cursor of an answer is where the next row will be.
CursorAtNext(scanned, cursor) == Latest + 1

\* Mutant: the cursor of an answer is the head of the log.
CursorAtHead(scanned, cursor) == Latest

\* A scope with nothing new still advances past the rows of the others.
CursorAfter(scanned, cursor) ==
    IF scanned # {} THEN Max(scanned) ELSE IF Latest > cursor THEN Latest ELSE cursor

\* changes_since: the rows at their places in the log, each subject at its last
\* mention and as it stands now, for this reader.
Changes(cursor) ==
    LET after == RowsAfter(cursor)
        scanned == FirstOf(after)
        last == {k \in scanned : ~\E n \in scanned : n > k /\ log[n] = log[k]}
    IN  [rows |-> [k \in last |->
                     [what |-> log[k],
                      now |-> IF log[k] \in TaskItems THEN Seen(log[k])
                              ELSE IF SeenLine(log[k]) THEN 1 ELSE 0]],
         cursor |-> CursorAfter(scanned, cursor),
         more |-> scanned # after]

----------------------------------------------------------------------------
(* What the window makes of it *)

WithItem(held, i, rev) ==
    IF held.shown[i] >= rev THEN held ELSE [held EXCEPT !.shown[i] = rev]

\* An item that is dropped takes every line touching it along.
Dropped(held, i) ==
    [held EXCEPT !.shown[i] = 0,
                 !.lines = {e \in @ : e[1] # i /\ e[2] # i}]

\* A line whose ends are not both held is passed over.
WithLine(held, e) ==
    IF held.shown[e[1]] > 0 /\ held.shown[e[2]] > 0
    THEN [held EXCEPT !.lines = @ \cup {e}] ELSE held

\* One entry of a batch.
Taken(held, row) ==
    IF row.what \in TaskItems
    THEN IF row.now > 0 THEN WithItem(held, row.what, row.now) ELSE Dropped(held, row.what)
    ELSE IF row.now > 0 THEN WithLine(held, row.what)
         ELSE [held EXCEPT !.lines = @ \ {row.what}]

\* applyBatch: the entries after the cursor, in the order of the log, and a last
\* sweep over the lines.
Applied(held, answer) ==
    LET end == IF answer.cursor > held.cursor THEN answer.cursor ELSE held.cursor
        folded[n \in held.cursor .. end] ==
          IF n = held.cursor THEN held
          ELSE IF n \in DOMAIN answer.rows THEN Taken(folded[n - 1], answer.rows[n])
               ELSE folded[n - 1]
    IN  [folded[end] EXCEPT
           !.cursor = end,
           !.lines = {e \in @ : folded[end].shown[e[1]] > 0 /\ folded[end].shown[e[2]] > 0}]

----------------------------------------------------------------------------
(* The panel *)

\* onMoved: a bell is answered when the graph is ahead of the cache, and not
\* while an earlier one is being answered.
Hear(n) ==
    /\ n \in bells
    /\ bells' = bells \ {n}
    /\ drain' = IF n > cache.cursor /\ drain.at = "idle"
                THEN [NoDrain EXCEPT !.at = "asking", !.state = cache]
                ELSE drain
    /\ UNCHANGED <<vars, cache, load>>

Answer ==
    /\ drain.at = "asking"
    /\ drain' = [drain EXCEPT !.at = "told", !.answer = Changes(drain.state.cursor)]
    /\ UNCHANGED <<vars, bells, cache, load>>

\* drain folds the answer in, and asks again while there is more.
Fold ==
    LET folded == Applied(drain.state, drain.answer)
    IN  /\ drain.at = "told"
        /\ IF drain.answer.more
           THEN /\ drain' = [NoDrain EXCEPT !.at = "asking", !.state = folded]
                /\ UNCHANGED cache
           ELSE /\ drain' = NoDrain
                /\ cache' = folded
        /\ UNCHANGED <<vars, bells, load>>

\* reload: on mount, and whenever the person presses Refresh, a snapshot is asked
\* for; it is of the moment the graph answers.
Reload(r) ==
    /\ app = "up" /\ load[r].at = "idle"
    /\ load' = [load EXCEPT ![r] = [at |-> "told", snapshot |-> Snapshot]]
    /\ UNCHANGED <<vars, bells, cache, drain>>

\* The snapshot replaces the cache.
Replace(r) ==
    /\ load[r].at = "told"
    /\ cache' = load[r].snapshot
    /\ load' = [load EXCEPT ![r] = [NoLoad EXCEPT !.at = "over"]]
    /\ UNCHANGED <<vars, bells, drain>>

----------------------------------------------------------------------------
FeedInit ==
    /\ Init
    /\ bells = {}
    /\ cache = Empty /\ drain = NoDrain
    /\ load = [r \in Reloads |-> NoLoad]

\* A write of the graph rings the bell once it is committed; a process that
\* dies takes its window with it, and start-up has no watcher yet.
Write ==
    /\ Next
    /\ IF app' = "down"
       THEN /\ bells' = {} /\ cache' = Empty /\ drain' = NoDrain
            /\ load' = [r \in Reloads |-> NoLoad]
       ELSE /\ bells' = IF app = "up" /\ log' # log THEN bells \cup {Len(log')}
                        ELSE bells
            /\ UNCHANGED <<cache, drain, load>>

FeedNext ==
    \/ Write
    \/ \E n \in bells : Hear(n)
    \/ Answer \/ Fold
    \/ \E r \in Reloads : Reload(r) \/ Replace(r)

FeedSpec == FeedInit /\ [][FeedNext]_allVars

FeedTypeOK ==
    /\ TypeOK
    /\ bells \subseteq 1 .. Latest
    /\ cache.cursor \in 0 .. Latest /\ cache.lines \subseteq edges
    /\ drain.at \in {"idle", "asking", "told"}
    /\ drain.state.cursor \in 0 .. Latest
    /\ \A r \in Reloads : load[r].at \in {"idle", "told", "over"}

----------------------------------------------------------------------------
(* Properties *)

\* Once something has been loaded, whatever the window shows wrongly of an
\* item - an old revision, one the person may not see any more, one it has
\* not heard of - is in the log after its cursor, so the next catching up
\* mends it: no change is passed over, by whatever batches, bells and
\* refreshes the window got there.
NothingIsMissed ==
    \A i \in TaskItems :
        cache.shown[i] = Seen(i) \/ \E k \in cache.cursor + 1 .. Latest : log[k] = i

-----------------------------------------------------------------------------
(* What the texts of the program say of these steps and the code does not  *)
(* keep.  No run checks these formulas: TLC finds a counterexample to each, *)
(* and README.md, section 6, says how it comes about.                       *)

\* drain "pulls changes until caught up": with every bell heard and nothing
\* under way the window is level with the graph.  A bell heard while an
\* answer is on its way is lost.
QuietWindowIsCurrent ==
    (app = "up" /\ bells = {} /\ drain.at = "idle"
        /\ \A r \in Reloads : load[r].at = "over")
      => RowsAfter(cache.cursor) = {}

\* A reader that catches up holds what a fresh snapshot holds.  A line whose
\* end was written again comes before that end in the batch and is passed over.
CaughtUpHoldsTheSnapshot ==
    (app = "up" /\ RowsAfter(cache.cursor) = {}) => cache.lines = Snapshot.lines

\* An answer that comes late does not bring back what was shown before.  A
\* refresh and a catching up that overlap each end by replacing the cache.
CursorNeverGoesBack == [][app' = "up" => cache'.cursor >= cache.cursor]_allVars
=============================================================================
