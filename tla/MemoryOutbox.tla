---------------------------- MODULE MemoryOutbox ----------------------------
(***************************************************************************)
(* How a publication to the agents' shared memory reaches the task event   *)
(* log (knowledge/graph/runtime_store.rs, receipts.rs, lib.rs).            *)
(*                                                                         *)
(* The item and its outbox row are one transaction of the graph; the event *)
(* is another store's.  Whichever thread commits delivers what is pending  *)
(* once its lock is let go, so several passes may carry one row at a time, *)
(* and start-up delivers what a process that died left behind.             *)
(***************************************************************************)
EXTENDS Naturals, Sequences

CONSTANTS
    Publications,       \* publications, by idempotency key
    Threads,      \* a worker's try at a publication, or another write
    Writes,       \* [Threads -> Publications \cup {Other}]
    Other,        \* a write with no outbox row: a correction, a revocation
    MaxFailures,  \* deliveries that fail
    MaxDeaths

ASSUME WritesAssumption ==
    /\ Other \notin Publications /\ "start" \notin Threads
    /\ Writes \in [Threads -> Publications \cup {Other}]
    /\ MaxFailures \in Nat /\ MaxDeaths \in Nat

VARIABLES
    outbox,    \* the rows of agent_memory_outbox, in order
    sent,      \* the rows with a delivered_at
    tried,     \* the rows with an attempt that failed
    recorded,  \* how many memory_published events the task log holds
    done,      \* the threads whose write is over, or died
    pass,      \* each thread's delivery of pending rows
    process,       \* "down", "draining" or "up"
    failures, crashes

outboxVars == <<outbox, sent, tried, recorded, done, pass, process, failures, crashes>>

Passes == Threads \cup {"start"}
Idle == [at |-> "idle", todo |-> {}]
Committed == {outbox[k] : k \in DOMAIN outbox}

OutboxTypeOK ==
    /\ outbox \in Seq(Publications)
    /\ \A m, n \in DOMAIN outbox : outbox[m] = outbox[n] => m = n
    /\ sent \subseteq Committed /\ tried \subseteq Committed
    /\ recorded \in [Publications -> Nat]
    /\ done \subseteq Threads
    /\ pass \in [Passes -> [at : {"idle", "list", "deliver", "mark", "note"},
                             todo : SUBSET DOMAIN outbox]]
    /\ \A t \in Passes :
         (pass[t].at \in {"deliver", "mark", "note"}) <=> (pass[t].todo # {})
    /\ process \in {"down", "draining", "up"}
    /\ failures \in 0 .. MaxFailures /\ crashes \in 0 .. MaxDeaths

----------------------------------------------------------------------------
\* announce: the watcher runs on the thread that committed.
Announces(t) == pass' = [pass EXCEPT ![t] = [at |-> "list", todo |-> {}]]

\* A key already applied is the same write arriving twice.
AlreadyApplied(c) == c \in Committed

\* commit: the row and the item are one transaction; a duplicate writes
\* nothing and announces nothing.
Commit(t) ==
    /\ process = "up" /\ t \notin done
    /\ done' = done \cup {t}
    /\ IF Writes[t] = Other THEN Announces(t) /\ UNCHANGED outbox
       ELSE IF AlreadyApplied(Writes[t]) THEN UNCHANGED <<outbox, pass>>
       ELSE Announces(t) /\ outbox' = Append(outbox, Writes[t])
    /\ UNCHANGED <<sent, tried, recorded, process, failures, crashes>>

\* pending_effects.
List(t) ==
    LET pending == {n \in DOMAIN outbox : outbox[n] \notin sent}
    IN  /\ pass[t].at = "list"
        /\ pass' = [pass EXCEPT ![t] =
             IF pending = {} THEN Idle ELSE [at |-> "deliver", todo |-> pending]]
        /\ UNCHANGED <<outbox, sent, tried, recorded, done, process, failures, crashes>>

\* Mutant: the consumer appends whatever it is handed.
AppendsAgain(c) == recorded' = [recorded EXCEPT ![c] = @ + 1]

\* TaskEventLog::deliver: an event of that key already there is success, and
\* a run that has ended takes it all the same.
AppendsOnce(c) == recorded' = [recorded EXCEPT ![c] = IF @ = 0 THEN 1 ELSE @]

\* The rows a pass has yet to carry are carried in the order they were written.
IsNext(t, n) == n \in pass[t].todo /\ \A m \in pass[t].todo : n <= m

Deliver(t) ==
    /\ pass[t].at = "deliver"
    /\ \E n \in DOMAIN outbox : IsNext(t, n) /\ AppendsOnce(outbox[n])
    /\ pass' = [pass EXCEPT ![t].at = "mark"]
    /\ UNCHANGED <<outbox, sent, tried, done, process, failures, crashes>>

Onwards(t, n) ==
    pass' = [pass EXCEPT ![t] =
        IF @.todo = {n} THEN Idle
        ELSE [at |-> "deliver", todo |-> @.todo \ {n}]]

\* A delivery that fails leaves the row pending, for the next commit or start.
DeliverFails(t) ==
    /\ pass[t].at = "deliver" /\ failures < MaxFailures
    /\ failures' = failures + 1
    /\ pass' = [pass EXCEPT ![t].at = "note"]
    /\ UNCHANGED <<outbox, sent, tried, recorded, done, process, crashes>>

\* record_delivery_failure, of a row no other pass has marked meanwhile.
NoteFailure(t) ==
    /\ pass[t].at = "note"
    /\ \E n \in DOMAIN outbox :
         /\ IsNext(t, n)
         /\ tried' = tried \cup ({outbox[n]} \ sent)
         /\ Onwards(t, n)
    /\ UNCHANGED <<outbox, sent, recorded, done, process, failures, crashes>>

\* mark_delivered, once the consumer accepted the row.
Mark(t) ==
    /\ pass[t].at = "mark"
    /\ \E n \in DOMAIN outbox :
         /\ IsNext(t, n)
         /\ sent' = sent \cup {outbox[n]}
         /\ Onwards(t, n)
    /\ UNCHANGED <<outbox, tried, recorded, done, process, failures, crashes>>

----------------------------------------------------------------------------
\* The process dies between any two steps; both stores keep what they held.
Die ==
    /\ process # "down" /\ crashes < MaxDeaths
    /\ crashes' = crashes + 1
    /\ process' = "down"
    /\ done' = done \cup {t \in Threads : pass[t].at # "idle"}
    /\ pass' = [t \in Passes |-> Idle]
    /\ UNCHANGED <<outbox, sent, tried, recorded, failures>>

\* Mutant: the rows a previous process left wait for the next commit.
StartsUp == process' = "up" /\ UNCHANGED pass

\* Start-up drains the outbox before the watcher is installed.
StartsDraining == process' = "draining" /\ Announces("start")

StartUp ==
    /\ process = "down"
    /\ StartsDraining
    /\ UNCHANGED <<outbox, sent, tried, recorded, done, failures, crashes>>

Drained ==
    /\ process = "draining" /\ pass["start"].at = "idle"
    /\ process' = "up"
    /\ UNCHANGED <<outbox, sent, tried, recorded, done, pass, failures, crashes>>

OutboxInit ==
    /\ outbox = <<>> /\ sent = {} /\ tried = {}
    /\ recorded = [c \in Publications |-> 0]
    /\ done = {}
    /\ pass = [t \in Passes |-> Idle]
    /\ process = "down"
    /\ failures = 0 /\ crashes = 0

PassStep(t) == List(t) \/ Deliver(t) \/ DeliverFails(t) \/ NoteFailure(t) \/ Mark(t)

OutboxNext ==
    \/ \E t \in Threads : Commit(t)
    \/ \E t \in Passes : PassStep(t)
    \/ Die \/ StartUp \/ Drained

OutboxSpec == OutboxInit /\ [][OutboxNext]_outboxVars

\* A thread that delivers goes on delivering, and a program that starts gets
\* to the end of its start-up; nothing makes a person start it again.
OutboxFairSpec ==
    /\ OutboxSpec
    /\ \A t \in Passes : WF_outboxVars(PassStep(t))
    /\ WF_outboxVars(Drained)

----------------------------------------------------------------------------
(* Properties *)

\* The task log tells of a publication once, and of nothing that was not
\* committed, however many threads and processes carry its row.
RecordedOnce ==
    \A c \in Publications : recorded[c] <= 1 /\ (recorded[c] = 1 => c \in Committed)

\* With nothing under way, every row was recorded or its delivery was tried
\* and failed: a death between the commit and its announcement forgets none.
QuietRowsWereTried ==
    (process = "up" /\ \A t \in Passes : pass[t].at = "idle") =>
        \A c \in Committed : c \in sent \cup tried

\* Marked rows were recorded: what is marked is never delivered again.
MarkedIsRecorded == \A c \in sent : recorded[c] = 1

\* The outbox and the task log, two stores with no transaction between them, tell
\* of the same publications once nothing is under way.
RecordMatchesOutbox ==
    OutboxTypeOK /\ RecordedOnce /\ MarkedIsRecorded /\ QuietRowsWereTried

\* While the program stays up, a publication is recorded in the end, unless
\* a delivery of it failed.
PublicationIsRecorded ==
    \A c \in Publications :
        (c \in Committed) ~> (recorded[c] = 1 \/ c \in tried \/ process = "down")
=============================================================================
