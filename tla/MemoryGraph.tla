----------------------------- MODULE MemoryGraph -----------------------------
(***************************************************************************)
(* The write side of the agents' shared memory: what workers publish, what *)
(* a person corrects, whose access is withdrawn, and what is mirrored from *)
(* the legacy store.  MemoryOutbox has the publications' way to the task   *)
(* event log, MemoryFeed the changefeed and the windows that follow it.    *)
(*                                                                         *)
(*   src/src-tauri/src/knowledge/graph/runtime_store.rs                    *)
(*   src/src-tauri/src/knowledge/graph/runtime_memory.rs, migration.rs     *)
(*   src/src-tauri/src/subagents/graph_io.rs, worker.rs                    *)
(*   src/src-tauri/src/commands/memory_graph.rs, lib.rs                    *)
(*                                                                         *)
(* Every write is one transaction under the connection's lock, so one      *)
(* action.  What is not atomic is around it: a worker reads an input long  *)
(* before it publishes what it made of it, a person corrects what a window *)
(* showed, and the legacy store is read again only when the process starts. *)
(***************************************************************************)
EXTENDS Naturals, Sequences, FiniteSets, SequencesExt

CONSTANTS
    Claims,       \* what workers may publish, by idempotency key
    InputOf,      \* [Claims -> Claims \cup {NoInput}]: the item it re-derives
    NoInput,
    Attempts,     \* one worker's tries at publishing
    ClaimOf,      \* [Attempts -> Claims]
    Corrections,  \* the items corrections create
    Mirrored,     \* the records of the legacy store the graph mirrors
    Readers,      \* the people, workers acting for one of them
    Asker,        \* the person the workers act for
    Texts,        \* what a legacy record may say
    Gone,         \* a legacy record that is not there any more
    MaxRevokes, MaxEdits, MaxCrashes   \* bounds

ASSUME ClaimsAssumption ==
    /\ NoInput \notin Claims
    /\ InputOf \in [Claims -> Claims \cup {NoInput}]
    /\ ClaimOf \in [Attempts -> Claims]
    /\ Asker \in Readers
    /\ Gone \notin Texts

Items == Claims \cup Corrections \cup Mirrored

\* The ids of the three kinds are minted apart.
ASSUME ItemsAssumption ==
    /\ IsFiniteSet(Items)
    /\ Claims \cap Corrections = {} /\ Claims \cap Mirrored = {}
    /\ Corrections \cap Mirrored = {}

VARIABLES
    item,     \* the rows of agent_memory_items
    edges,    \* the supersedes edges, <<correction, corrected>>
    log,      \* agent_memory_log: the subject of each row
    legacy,   \* what the legacy store says
    worker,   \* each attempt: where it is, and the revision it pinned
    window,   \* what each person is about to correct
    app,      \* "up", "down" or "mirroring"
    spent     \* revocations, edits and crashes so far

vars == <<item, edges, log, legacy, worker, window, app, spent>>
graphVars == <<item, edges, log>>

\* No row of that id: a writer that expects nothing finds revision 0.
Absent == [rev |-> 0, status |-> "none", text |-> Gone,
           pins |-> {}, revoked |-> {}]
NoWork == [at |-> "idle", pin |-> 0]
NoWindow == [at |-> "idle", on |-> NoInput, rev |-> 0, revoked |-> {}]

Statuses == {"none", "standing", "superseded", "tombstoned", "stale"}

TypeOK ==
    /\ \A i \in Items :
         /\ item[i].rev \in Nat
         /\ item[i].status \in Statuses
         /\ item[i].text \in Texts \cup {Gone}
         /\ item[i].pins \subseteq (Claims \X Nat)
         /\ item[i].revoked \subseteq Readers
         /\ (item[i].rev = 0) <=> (item[i].status = "none")
    /\ edges \subseteq (Corrections \X Items)
    /\ \A k \in DOMAIN log : log[k] \in Items \cup edges
    /\ legacy \in [Mirrored -> Texts \cup {Gone}]
    /\ \A a \in Attempts :
         worker[a].at \in {"idle", "working", "over"}
    /\ \A p \in Readers : window[p].at \in {"idle", "looking", "asking"}
    /\ app \in {"up", "down", "mirroring"}

----------------------------------------------------------------------------
(* Reading *)

Exists(i) == item[i].rev > 0
\* ItemStatus::withdrawn.
Withdrawn(i) == item[i].status \in {"superseded", "tombstoned", "stale"}
\* MemoryItem::readable_by, for the rule about one person: the rest of it
\* depends on roles and projects, which no action changes.
ReadableBy(i, u) ==
    Exists(i) /\ item[i].status # "tombstoned" /\ u \notin item[i].revoked

\* What pinned one of them as a dependency is one of them.  (An edge "derivedFrom"
\* or "cites" counts too; the program writes none.)
HoldsDependents(rows, set) ==
    \A i \in Items : (\E p \in rows[i].pins : p[1] \in set) => i \in set

\* What rests on the roots, however indirectly, roots included: the walk ends with
\* the least set that holds the dependents of all its members.
RestingOn(rows, roots) ==
    {i \in Items : \A set \in SUBSET Items :
        roots \subseteq set /\ HoldsDependents(rows, set) => i \in set}

\* propagate_staleness: only what still stands goes stale.
GoesStale(rows, roots) ==
    {i \in RestingOn(rows, roots) \ roots : rows[i].status = "standing"}
Staled(rows, roots) ==
    LET hit == GoesStale(rows, roots)
    IN  [i \in Items |->
            IF i \in hit THEN [rows[i] EXCEPT !.status = "stale", !.rev = @ + 1]
            ELSE rows[i]]
\* The log rows one transaction writes, in an order of their own.
Rows(set) == SetToSeq(set)

----------------------------------------------------------------------------
(* Workers publish *)

\* A worker reads the task's memory and pins the item it works from.  One
\* that re-derives nothing has nothing to read; one whose input is not there,
\* or may not be built on, has nothing to do.
Begin(a) ==
    LET source == InputOf[ClaimOf[a]]
    IN  /\ app = "up" /\ worker[a].at = "idle"
        /\ \/ source = NoInput
           \/ /\ source \in Claims
              /\ ReadableBy(source, Asker)
              /\ item[source].status = "standing"
        /\ worker' = [worker EXCEPT ![a] =
             [at |-> "working",
              pin |-> IF source = NoInput THEN 0 ELSE item[source].rev]]
        /\ UNCHANGED <<graphVars, legacy, window, app, spent>>

\* Mutant: the inputs are not read again inside the transaction.
NeverMovesOn(source, pin) == FALSE

\* Whether the input moved on, or was withdrawn, while it was worked from.
MovedOn(source, pin) == Withdrawn(source) \/ item[source].rev # pin

\* inherit_restrictions: whoever may not read the input may not read the result.
Inherited(source) == IF source = NoInput THEN {} ELSE item[source].revoked

\* commit: a key already applied changes nothing; otherwise the item and its
\* log row are one transaction.
Publish(a) ==
    LET c == ClaimOf[a]
        source == InputOf[c]
        stale == source # NoInput /\ MovedOn(source, worker[a].pin)
    IN  /\ app = "up" /\ worker[a].at = "working"
        /\ \/ /\ Exists(c)
              /\ UNCHANGED <<item, log>>
           \/ /\ ~Exists(c)
              /\ item' = [item EXCEPT ![c] =
                   [rev |-> 1,
                    status |-> IF stale THEN "stale" ELSE "standing",
                    text |-> Gone,
                    pins |-> IF source = NoInput THEN {}
                             ELSE {<<source, worker[a].pin>>},
                    revoked |-> Inherited(source)]]
              /\ log' = Append(log, c)
        /\ worker' = [worker EXCEPT ![a] = [NoWork EXCEPT !.at = "over"]]
        /\ UNCHANGED <<edges, legacy, window, app, spent>>

----------------------------------------------------------------------------
(* A person corrects *)

\* A window shows an item; the person writes the correction meanwhile.
Look(p, i) ==
    /\ app = "up" /\ window[p].at = "idle" /\ ReadableBy(i, p)
    /\ window' = [window EXCEPT ![p] =
         [at |-> "looking", on |-> i, rev |-> item[i].rev, revoked |-> {}]]
    /\ UNCHANGED <<graphVars, legacy, worker, app, spent>>

\* memory_graph_correct reads the item as it stands and carries its
\* restrictions over, before the transaction.
Ask(p) ==
    /\ app = "up" /\ window[p].at = "looking"
    /\ LET i == window[p].on
       IN  window' = [window EXCEPT ![p] =
             IF ReadableBy(i, p)
             THEN [@ EXCEPT !.at = "asking", !.revoked = item[i].revoked]
             ELSE NoWindow]
    /\ UNCHANGED <<graphVars, legacy, worker, app, spent>>

\* Mutant: a correction is applied whatever happened to the item since.
AlwaysAsRead(p) == TRUE

\* The optimistic check of correct_at, and the legacy store's authority.
AsRead(p) == item[window[p].on].rev = window[p].rev

Superseded(row) == [row EXCEPT !.status = "superseded", !.rev = @ + 1]

Correct(p, c) ==
    LET i == window[p].on
    IN  /\ app = "up" /\ window[p].at = "asking"
        /\ ~Exists(c) /\ AsRead(p) /\ i \notin Mirrored
        /\ LET made == [item EXCEPT
                         ![c] = [rev |-> 1, status |-> "standing", text |-> Gone,
                                 pins |-> {}, revoked |-> window[p].revoked],
                         ![i] = Superseded(item[i])]
           IN  /\ item' = Staled(made, {i})
               /\ log' = log \o <<c, i, <<c, i>>>> \o Rows(GoesStale(made, {i}))
        /\ edges' = edges \cup {<<c, i>>}
        /\ window' = [window EXCEPT ![p] = NoWindow]
        /\ UNCHANGED <<legacy, worker, app, spent>>

\* The item moved on, or is written elsewhere: the person is told.
CorrectRefused(p) ==
    /\ app = "up" /\ window[p].at = "asking"
    /\ ~AsRead(p) \/ window[p].on \in Mirrored
    /\ window' = [window EXCEPT ![p] = NoWindow]
    /\ UNCHANGED <<graphVars, legacy, worker, app, spent>>

----------------------------------------------------------------------------
(* An administrator withdraws a person's access *)

Revoke(u, i) ==
    LET hit == {j \in RestingOn(item, {i}) : Exists(j) /\ u \notin item[j].revoked}
    IN  /\ app = "up" /\ Exists(i) /\ spent.revokes < MaxRevokes
        /\ item' = [j \in Items |->
             IF j \in hit
             THEN [item[j] EXCEPT !.revoked = @ \cup {u}, !.rev = @ + 1]
             ELSE item[j]]
        /\ log' = log \o Rows(hit)
        /\ spent' = [spent EXCEPT !.revokes = @ + 1]
        /\ UNCHANGED <<edges, legacy, worker, window, app>>

----------------------------------------------------------------------------
(* Death and start-up *)

Crash ==
    /\ app # "down" /\ spent.crashes < MaxCrashes
    /\ app' = "down"
    /\ worker' = [a \in Attempts |->
         IF worker[a].at = "idle" THEN NoWork ELSE [NoWork EXCEPT !.at = "over"]]
    /\ window' = [p \in Readers |-> NoWindow]
    /\ spent' = [spent EXCEPT !.crashes = @ + 1]
    /\ UNCHANGED <<graphVars, legacy>>

Start ==
    /\ app = "down"
    /\ app' = "mirroring"
    /\ UNCHANGED <<graphVars, legacy, worker, window, spent>>

\* upsert_migrated: a record that says what it said is left alone; one that is
\* new, changed or back is written as the legacy store has it.
Mirror(m) ==
    LET held == item[m]
        written == [rev |-> held.rev + 1, status |-> "standing",
                    text |-> legacy[m], pins |-> {}, revoked |-> {}]
        rows == [item EXCEPT ![m] = written]
        changed == held.status \notin {"none", "tombstoned"}
    IN  /\ app = "mirroring" /\ legacy[m] # Gone
        /\ held.status \in {"none", "tombstoned"} \/ held.text # legacy[m]
        /\ item' = IF changed THEN Staled(rows, {m}) ELSE rows
        /\ log' = log \o <<m>> \o
             (IF changed THEN Rows(GoesStale(rows, {m})) ELSE <<>>)
        /\ UNCHANGED <<edges, legacy, worker, window, app, spent>>

Mirrors(m) == legacy[m] = Gone \/ (item[m].text = legacy[m] /\ item[m].status = "standing")

\* The last of the mirroring: records the legacy store no longer has are
\* retired, and the application is up.
Up ==
    LET orphans == {m \in Mirrored :
                      /\ legacy[m] = Gone
                      /\ item[m].status \notin {"none", "tombstoned"}}
        rows == [i \in Items |->
                   IF i \in orphans
                   THEN [item[i] EXCEPT !.status = "tombstoned", !.rev = @ + 1]
                   ELSE item[i]]
    IN  /\ app = "mirroring" /\ \A m \in Mirrored : Mirrors(m)
        /\ item' = Staled(rows, orphans)
        /\ log' = log \o Rows(orphans) \o Rows(GoesStale(rows, orphans))
        /\ app' = "up"
        /\ UNCHANGED <<edges, legacy, worker, window, spent>>

\* A person or a run changes the legacy record; the graph follows at start, so an
\* edit that no start can follow is left out.
Edit(m, t) ==
    /\ app = "up" /\ spent.edits < MaxEdits /\ spent.crashes < MaxCrashes
    /\ legacy[m] # t
    /\ legacy' = [legacy EXCEPT ![m] = t]
    /\ spent' = [spent EXCEPT !.edits = @ + 1]
    /\ UNCHANGED <<graphVars, worker, window, app>>

----------------------------------------------------------------------------
Init ==
    /\ item = [i \in Items |-> Absent]
    /\ edges = {} /\ log = <<>>
    /\ legacy \in [Mirrored -> Texts]
    /\ worker = [a \in Attempts |-> NoWork]
    /\ window = [p \in Readers |-> NoWindow]
    /\ app = "down"
    /\ spent = [revokes |-> 0, edits |-> 0, crashes |-> 0]

Next ==
    \/ \E a \in Attempts : Begin(a) \/ Publish(a)
    \/ \E p \in Readers :
         \/ \E i \in Items : Look(p, i) \/ Revoke(p, i)
         \/ Ask(p) \/ CorrectRefused(p)
         \/ \E c \in Corrections : Correct(p, c)
    \/ Crash \/ Start \/ Up
    \/ \E m \in Mirrored : Mirror(m) \/ \E t \in Texts \cup {Gone} : Edit(m, t)

Spec == Init /\ [][Next]_vars

----------------------------------------------------------------------------
(* Properties *)

\* What stands rests on what stands: an item published while its input was
\* being corrected is published stale, and one published before it goes stale
\* with it, through however many results in between.
StandingRestsOnStanding ==
    \A i \in Items : item[i].status = "standing" =>
        \A p \in item[i].pins : item[p[1]].status = "standing"

\* Whoever lost access to an item has access to nothing worked out from it,
\* whether the result was published before the revocation or after.
RevocationReachesResults ==
    \A i \in Items : \A p \in item[i].pins : item[p[1]].revoked \subseteq item[i].revoked

\* A result shares the fate of what it was worked out from, whoever published,
\* corrected or withdrew what and in which order.
ResultsFollowTheirInputs == StandingRestsOnStanding /\ RevocationReachesResults

\* A correction replaces the revision its author was looking at, and is
\* readable by nobody who had lost access to what it corrects by then.
CorrectionReplacesWhatWasRead ==
    [][\A c \in Corrections, i \in Items :
         (<<c, i>> \in edges' \ edges) =>
            /\ \E p \in Readers : window[p].on = i /\ window[p].rev = item[i].rev
            /\ item[i].revoked \subseteq item'[c].revoked]_vars

-----------------------------------------------------------------------------
(* What the texts of the program say of these steps and the code does not  *)
(* keep.  No run checks these formulas: TLC finds a counterexample to each, *)
(* and README.md, section 6, says how it comes about.                       *)

\* readable_by: a person whose access to an item was withdrawn does not get
\* it back.  The next mirroring of a changed legacy record gives it back.
RevocationLasts ==
    [][\A i \in Items : item[i].revoked \subseteq item'[i].revoked]_vars
=============================================================================
