--------------------------- MODULE Serving_proofs ---------------------------
(***************************************************************************)
(* What serves a model, for any number of requests, callers, models and    *)
(* servers: in three parts, which share nothing but this module.           *)
(*                                                                         *)
(*   - QueueInvariant (GenerationQueue): the runtime's one flag is         *)
(*     lowered, while a request is generated, only for that request,       *)
(*     because whoever else lowers it needs the mutex the generation       *)
(*     holds, and the watcher that does not is of the worker's own job.    *)
(*   - ServersInvariant (ModelServers): a server that runs is in the table *)
(*     or in the hands of the caller ending it, and a worker that has to   *)
(*     have the card and is past waiting for it holds it alone.            *)
(*   - HandoffBase (ModelHandoff): at every place a command's record is    *)
(*     what the next step takes it for, however many commands go on.       *)
(*     OneAtATime and CalmlyRecorded add what holds of one at a time.      *)
(***************************************************************************)
EXTENDS GenerationQueue, ModelServers, ModelHandoff, FiniteSetTheorems, TLAPS

(* The requests the gateway counts, and the jobs the scheduler does. *)
Served == {r \in Requests : at[r] \notin {"new", "over"}}
Queued == {queue[i] : i \in 1 .. Len(queue)}
Sending == {r \in Requests : at[r] = "sending"}
Underway == Sending \cup Queued \cup ({worker} \ {Nobody})

Sent == {"reading", "closing", "gone", "over"}
Left == {"closing", "gone", "over"}

CountsAreKept ==
  /\ active = Cardinality(Served)
  /\ depth = Cardinality(Underway)

JobsAreInLine ==
  /\ \A i \in 1 .. Len(queue) : queue[i] # worker /\ at[queue[i]] \in Sent
  /\ \A i, k \in 1 .. Len(queue) : queue[i] = queue[k] => i = k
  /\ worker = Nobody <=> work = "idle"
  /\ worker # Nobody => at[worker] \in Sent

OneGenerates ==
  /\ mutex \in Requests => mutex = worker /\ work = "generating"
  /\ work = "generating" => mutex = worker
  /\ stage = "none" => count = 0
  /\ stage = "prefill" => count < Chunks
  /\ stage = "tokens" => count <= MaxTokens

WatchedIsTheWorker ==
  \A r \in watching : r = worker /\ work \in {"entering", "generating", "returned"}

TheirOwnStops ==
  /\ \A r \in Requests : cancel[r] => at[r] \in Left
  /\ mutex \in Requests /\ ~flag => cancel[mutex]
  /\ OnlyTheAbandonedIsStopped

(* A request that has not been generated yet. *)
Ahead(r) ==
  \/ at[r] \notin Sent
  \/ r \in Queued
  \/ worker = r /\ work \in {"taken", "checked", "entering"}

OnePieceIsUnread ==
  \A r \in Requests : wasted[r] # 0 => wasted[r] = 1 /\ ~Ahead(r) /\ (mutex = r => ~flag)

EndsAreTold ==
  /\ work = "returned" => outcome[worker] # "none"
  /\ work = "returned" /\ outcome[worker] \in {"finished", "cancelled"} /\ Reading(worker)
       => stream[worker] = "final"
  /\ work = "done" /\ Reading(worker) => stream[worker] = "final"
  /\ ReaderGetsAFinalChunk

QueueInvariant ==
  /\ QueueTypeOK /\ CountsAreKept /\ JobsAreInLine /\ OneGenerates
  /\ WatchedIsTheWorker /\ TheirOwnStops /\ OnePieceIsUnread /\ EndsAreTold

-----------------------------------------------------------------------------

(* Types without the bounds of the two counts, which follow from what they *)
(* count.                                                                  *)
QueueTyped ==
  /\ at \in [Jobs -> {"new", "counted", "submitting", "sending", "reading",
                      "closing", "gone", "generating", "over"}]
  /\ queue \in Seq(Requests)
  /\ stream \in [Requests -> {"none", "open", "final", "closed"}]
  /\ cancel \in [Requests -> BOOLEAN]
  /\ worker \in Requests \cup {Nobody}
  /\ work \in {"idle", "taken", "checked", "entering", "generating", "returned", "done"}
  /\ watching \subseteq Requests /\ cleared \subseteq Requests
  /\ mutex \in Jobs \cup {Nobody} /\ (mutex = Nobody <=> stage = "none")
  /\ flag \in BOOLEAN /\ stage \in Stages /\ count \in 0 .. Chunks + MaxTokens
  /\ outcome \in [Jobs -> Outcomes]
  /\ stop \in [Chats -> {"no", "asked", "done"}]
  /\ loaded \in BOOLEAN /\ swaps \in 0 .. MaxSwaps
  /\ wasted \in [Requests -> 0 .. MaxTokens]

LEMMA Bounded ==
  ASSUME NEW S, S \subseteq Requests
  PROVE  Cardinality(S) \in 0 .. Cardinality(Requests)
BY FS_Subset, FS_CardinalityType, QueueAssumption

LEMMA TypedSplits ==
  ASSUME QueueTyped, CountsAreKept
  PROVE  QueueTypeOK
<1>1. Served \subseteq Requests /\ Underway \subseteq Requests
  BY DEF QueueTyped, Served, Underway, Queued, Sending
<1> QED
  BY <1>1, Bounded DEF QueueTyped, QueueTypeOK, CountsAreKept

LEMMA EndTyped ==
  ASSUME QueueTyped, NEW j \in Jobs, NEW how \in Outcomes, End(j, how)
  PROVE  /\ at' \in [Jobs -> {"new", "counted", "submitting", "sending", "reading",
                              "closing", "gone", "generating", "over"}]
         /\ work' \in {"idle", "taken", "checked", "entering", "generating",
                       "returned", "done"}
         /\ mutex' = Nobody /\ stage' = "none" /\ count' = 0
         /\ outcome' \in [Jobs -> Outcomes]
BY DEF QueueTyped, End, GoTo

LEMMA QueueTypedStep ==
  ASSUME QueueTyped, OneGenerates, JobsAreInLine, OnePieceIsUnread, QueueNext
  PROVE  QueueTyped'
<1> USE QueueAssumption DEF QueueTyped, OneGenerates, JobsAreInLine, Stages, Outcomes,
           GoTo, gateway, channel, thread, runtime, observed
<1>1. ASSUME NEW r \in Requests, Arrive(r) PROVE QueueTyped'
  BY <1>1 DEF Arrive
<1>2. ASSUME NEW r \in Requests, LookForModel(r) PROVE QueueTyped'
  BY <1>2 DEF LookForModel, Free
<1>3. ASSUME NEW r \in Requests, Count(r) PROVE QueueTyped'
  BY <1>3 DEF Count
<1>4. ASSUME NEW r \in Requests, Send(r) PROVE QueueTyped'
  <2>1. queue' \in Seq(Requests) BY <1>4 DEF Send
  <2> QED BY <2>1, <1>4 DEF Send
<1>5. ASSUME NEW r \in Requests, ReadEnd(r) PROVE QueueTyped'
  BY <1>5 DEF ReadEnd, Reading
<1>6. ASSUME NEW r \in Requests, StreamTail(r) PROVE QueueTyped'
  BY <1>6 DEF StreamTail
<1>7. ASSUME NEW r \in Requests, HangUp(r) PROVE QueueTyped'
  BY <1>7 DEF HangUp
<1>8. ASSUME NEW r \in Requests, Watch(r) PROVE QueueTyped'
  BY <1>8 DEF Watch
<1>9. CASE Take
  BY <1>9 DEF Take
<1>10. CASE CheckCancel
  BY <1>10 DEF CheckCancel
<1>11. CASE GetFlag
  BY <1>11 DEF GetFlag, Free
<1>12. CASE Enter
  <2>1. worker \in Jobs /\ worker # Nobody BY <1>12 DEF Enter, Jobs
  <2> QED BY <2>1, <1>12 DEF Enter, Free, BeginGeneration
<1>13. CASE Return
  BY <1>13 DEF Return
<1>14. CASE Done
  BY <1>14 DEF Done
<1>15. CASE Prefill
  <2>1. mutex \in Jobs BY <1>15 DEF Prefill
  <2>2. CASE flag
    BY <2>1, <2>2, <1>15 DEF Prefill
  <2>3. CASE ~flag
    <3>1. End(mutex, "refused") BY <2>3, <1>15 DEF Prefill
    <3> QED BY <2>1, <3>1, EndTyped, <1>15 DEF Prefill
  <2> QED BY <2>2, <2>3
<1>16. CASE EndTokens
  <2>1. mutex \in Jobs BY <1>16 DEF EndTokens
  <2>2. PICK how \in Outcomes : End(mutex, how) BY <1>16 DEF EndTokens
  <2>3. stream' \in [Requests -> {"none", "open", "final", "closed"}]
    BY <1>16 DEF EndTokens, Final
  <2>4. cancel' \in [Requests -> BOOLEAN]
    BY <1>16 DEF EndTokens
  <2>5. flag' = FALSE /\ UNCHANGED <<queue, worker, watching, stop, loaded, swaps, cleared, wasted>>
    BY <1>16 DEF EndTokens
  <2>6. /\ at' \in [Jobs -> {"new", "counted", "submitting", "sending", "reading",
                             "closing", "gone", "generating", "over"}]
        /\ work' \in {"idle", "taken", "checked", "entering", "generating",
                      "returned", "done"}
        /\ mutex' = Nobody /\ stage' = "none" /\ count' = 0
        /\ outcome' \in [Jobs -> Outcomes]
    BY <2>1, <2>2, EndTyped
  <2>7. 0 \in 0 .. Chunks + MaxTokens OBVIOUS
  <2> HIDE QueueAssumption DEF OneGenerates, JobsAreInLine
  <2> QED BY <2>3, <2>4, <2>5, <2>6, <2>7
<1>17. CASE Token
  <2>1. mutex \in Jobs /\ (mutex \in Requests => wasted[mutex] = 0)
    BY <1>17 DEF Token, OnePieceIsUnread
  <2>2. CASE Callback
    BY <2>1, <2>2, <1>17 DEF Token, Callback, Reading
  <2>3. CASE UNCHANGED <<flag, cancel, wasted>>
    BY <2>3, <1>17 DEF Token
  <2> QED BY <2>2, <2>3, <1>17 DEF Token
<1>18. CASE FailGeneration
  <2>1. mutex \in Jobs BY <1>18 DEF FailGeneration
  <2> QED BY <2>1, <1>18, EndTyped DEF FailGeneration
<1>19. ASSUME NEW c \in Chats, Chat(c) PROVE QueueTyped'
  <2>1. c \in Jobs /\ c # Nobody BY DEF Jobs, Nobody
  <2> QED BY <2>1, <1>19 DEF Chat, Free, BeginGeneration
<1>20. ASSUME NEW c \in Chats, AskStop(c) PROVE QueueTyped'
  BY <1>20 DEF AskStop
<1>21. ASSUME NEW c \in Chats, Stop(c) PROVE QueueTyped'
  BY <1>21 DEF Stop, Free
<1>22. CASE Swap
  BY <1>22 DEF Swap, Free
<1> QED
  BY <1>1, <1>2, <1>3, <1>4, <1>5, <1>6, <1>7, <1>8, <1>9, <1>10, <1>11,
     <1>12, <1>13, <1>14, <1>15, <1>16, <1>17, <1>18, <1>19, <1>20, <1>21, <1>22 DEF QueueNext, Handles, Works, Generates

(* A request whose job was sent stays one whose job was sent. *)
SentStays == \A r \in Requests : at[r] \in Sent => at'[r] \in Sent

LEMMA SentStaysStep ==
  ASSUME DOMAIN at = Jobs, OneGenerates, QueueNext
  PROVE  SentStays
<1> USE QueueAssumption DEF SentStays, Sent, Jobs, gateway, channel, thread, runtime,
           observed, GoTo
<1>1. ASSUME NEW r \in Requests, Arrive(r) PROVE SentStays
  BY <1>1 DEF Arrive
<1>2. ASSUME NEW r \in Requests, LookForModel(r) PROVE SentStays
  BY <1>2 DEF LookForModel
<1>3. ASSUME NEW r \in Requests, Count(r) PROVE SentStays
  BY <1>3 DEF Count
<1>4. ASSUME NEW r \in Requests, Send(r) PROVE SentStays
  BY <1>4 DEF Send
<1>5. ASSUME NEW r \in Requests, ReadEnd(r) PROVE SentStays
  BY <1>5 DEF ReadEnd
<1>6. ASSUME NEW r \in Requests, StreamTail(r) PROVE SentStays
  BY <1>6 DEF StreamTail
<1>7. ASSUME NEW r \in Requests, HangUp(r) PROVE SentStays
  BY <1>7 DEF HangUp
<1>8. CASE Prefill
  BY <1>8 DEF Prefill, End
<1>9. CASE EndTokens
  BY <1>9 DEF EndTokens, End, Final
<1>10. CASE FailGeneration
  BY <1>10 DEF FailGeneration, End
<1>11. ASSUME NEW c \in Chats, Chat(c) PROVE SentStays
  BY <1>11 DEF Chat, BeginGeneration, Free
<1>12. CASE UNCHANGED <<at>>
  BY <1>12
<1> QED
  BY <1>1, <1>2, <1>3, <1>4, <1>5, <1>6, <1>7, <1>8, <1>9, <1>10, <1>11, <1>12
  DEF QueueNext, Handles, Works, Generates, Watch, Take, CheckCancel, GetFlag, Enter,
      Return, Done, Token, Callback, AskStop, Stop, Swap

LEMMA LineKeeps ==
  ASSUME QueueTyped, JobsAreInLine, SentStays, UNCHANGED <<queue, worker>>,
         work' = "idle" <=> work = "idle"
  PROVE  JobsAreInLine'
<1>1. \A i \in 1 .. Len(queue) : queue[i] \in Requests
  BY DEF QueueTyped
<1> QED
  BY <1>1 DEF QueueTyped, JobsAreInLine, SentStays

LEMMA JobsAreInLineStep ==
  ASSUME QueueTyped, JobsAreInLine, OneGenerates, SentStays, QueueNext
  PROVE  JobsAreInLine'
<1>1. \A i \in 1 .. Len(queue) : queue[i] \in Requests
  BY DEF QueueTyped
<1>2. ASSUME NEW r \in Requests, Send(r) PROVE JobsAreInLine'
  <2>1. /\ at[r] \notin Sent /\ at'[r] \in Sent
        /\ queue' = Append(queue, r) /\ UNCHANGED <<worker, work>>
    BY <1>2, QueueAssumption DEF Send, GoTo, Sent, thread, QueueTyped, Jobs
  <2>2. /\ Len(queue') = Len(queue) + 1 /\ queue'[Len(queue) + 1] = r
        /\ \A i \in 1 .. Len(queue) : queue'[i] = queue[i]
    BY <2>1 DEF QueueTyped
  <2>3. Len(queue) \in Nat
    BY DEF QueueTyped
  <2>4. \A i \in 1 .. Len(queue) : queue[i] # r
    BY <2>1 DEF JobsAreInLine
  <2>5. worker # r
    BY <2>1, QueueAssumption DEF JobsAreInLine, Nobody
  <2>6. \A i \in 1 .. Len(queue') : i \in 1 .. Len(queue) \/ i = Len(queue) + 1
    BY <2>2, <2>3
  <2>7. \A i \in 1 .. Len(queue') : queue'[i] # worker' /\ at'[queue'[i]] \in Sent
    BY <1>1, <2>1, <2>2, <2>5, <2>6 DEF JobsAreInLine, SentStays
  <2>8. \A i, k \in 1 .. Len(queue') : queue'[i] = queue'[k] => i = k
    BY <2>2, <2>4, <2>6 DEF JobsAreInLine
  <2> QED
    BY <2>1, <2>7, <2>8 DEF JobsAreInLine, SentStays, QueueTyped
<1>3. CASE Take
  <2>1. /\ worker' = queue[1] /\ work' = "taken" /\ UNCHANGED at
        /\ Len(queue) \in Nat /\ Len(queue) > 0
        /\ Len(queue') = Len(queue) - 1
        /\ \A i \in 1 .. Len(queue') : queue'[i] = queue[i + 1]
    BY <1>3 DEF Take, QueueTyped, gateway
  <2>2. \A i \in 1 .. Len(queue') : i + 1 \in 1 .. Len(queue) /\ i + 1 # 1
    BY <2>1
  <2>3. 1 \in 1 .. Len(queue)
    BY <2>1
  <2>4. \A i \in 1 .. Len(queue') : queue'[i] # worker' /\ at'[queue'[i]] \in Sent
    BY <2>1, <2>2, <2>3 DEF JobsAreInLine
  <2>5. \A i, k \in 1 .. Len(queue') : queue'[i] = queue'[k] => i = k
    <3> SUFFICES ASSUME NEW i \in 1 .. Len(queue'), NEW k \in 1 .. Len(queue'),
                        queue'[i] = queue'[k]
                 PROVE  i = k
      OBVIOUS
    <3>1. i + 1 = k + 1
      BY <2>1, <2>2 DEF JobsAreInLine
    <3> QED BY <2>1, <3>1
  <2> QED
    BY <1>1, <2>1, <2>3, <2>4, <2>5, QueueAssumption DEF JobsAreInLine, Nobody
<1>4. CASE Done
  <2>1. UNCHANGED <<at, queue>> /\ worker' = Nobody /\ work' = "idle"
    BY <1>4 DEF Done, gateway
  <2> QED
    BY <1>1, <2>1, QueueAssumption DEF JobsAreInLine, Nobody
<1>5. CASE UNCHANGED <<queue, worker>> /\ (work' = "idle" <=> work = "idle")
  BY <1>5, LineKeeps
<1>6. CASE CheckCancel \/ GetFlag \/ Enter \/ Return \/ Generates
  <2>1. (UNCHANGED <<queue, worker>> /\ work # "idle") \/ UNCHANGED <<queue, worker, work>>
    BY <1>6, QueueAssumption
    DEF CheckCancel, GetFlag, Enter, Return, Generates, Prefill, EndTokens, Token, Callback,
        FailGeneration, End, channel, thread, OneGenerates, Jobs, QueueTyped
  <2>2. work' # "idle" \/ UNCHANGED work
    BY <1>6
    DEF CheckCancel, GetFlag, Enter, Return, Generates, Prefill, EndTokens, Token, Callback,
        FailGeneration, End, thread
  <2> QED
    BY <2>1, <2>2, <1>5
<1> QED
  BY <1>2, <1>3, <1>4, <1>5, <1>6
  DEF QueueNext, Handles, Works, Arrive, LookForModel, Count, ReadEnd, StreamTail, HangUp,
      Watch, Chat, AskStop, Stop, Swap, channel, thread

LEMMA OneGeneratesStep ==
  ASSUME QueueTyped, JobsAreInLine, OneGenerates, QueueNext
  PROVE  OneGenerates'
<1> USE QueueAssumption DEF QueueTyped, JobsAreInLine, OneGenerates, Jobs, Nobody,
           gateway, channel, thread, runtime, observed, GoTo
<1>1. CASE Take
  BY <1>1 DEF Take
<1>2. CASE CheckCancel
  BY <1>2 DEF CheckCancel
<1>3. CASE GetFlag
  BY <1>3 DEF GetFlag
<1>4. CASE Enter
  BY <1>4 DEF Enter, BeginGeneration
<1>5. CASE Return
  BY <1>5 DEF Return
<1>6. CASE Done
  BY <1>6 DEF Done
<1>7. CASE Prefill
  BY <1>7 DEF Prefill, End
<1>8. CASE EndTokens
  BY <1>8 DEF EndTokens, End, Final
<1>9. CASE Token
  BY <1>9 DEF Token, Callback
<1>10. CASE FailGeneration
  BY <1>10 DEF FailGeneration, End
<1>11. ASSUME NEW c \in Chats, Chat(c) PROVE OneGenerates'
  BY <1>11 DEF Chat, BeginGeneration, Free
<1>12. CASE UNCHANGED <<mutex, worker, work, stage, count>>
  BY <1>12
<1> QED
  BY <1>1, <1>2, <1>3, <1>4, <1>5, <1>6, <1>7, <1>8, <1>9, <1>10, <1>11, <1>12
  DEF QueueNext, Handles, Works, Generates, Arrive, LookForModel, Count, Send, ReadEnd,
      StreamTail, HangUp, Watch, AskStop, Stop, Swap

LEMMA WatchedIsTheWorkerStep ==
  ASSUME QueueTyped, JobsAreInLine, OneGenerates,
         WatchedIsTheWorker, QueueNext
  PROVE  WatchedIsTheWorker'
<1> USE QueueAssumption DEF QueueTyped, JobsAreInLine, OneGenerates,
           WatchedIsTheWorker, Jobs, gateway, channel, thread, runtime, observed, GoTo
<1>1. ASSUME NEW r \in Requests, Watch(r) PROVE WatchedIsTheWorker'
  BY <1>1 DEF Watch
<1>2. CASE Take
  BY <1>2 DEF Take
<1>3. CASE CheckCancel
  BY <1>3 DEF CheckCancel
<1>4. CASE GetFlag
  BY <1>4 DEF GetFlag
<1>5. CASE Enter
  BY <1>5 DEF Enter, BeginGeneration
<1>6. CASE Return
  BY <1>6 DEF Return
<1>7. CASE Done
  BY <1>7 DEF Done
<1>8. CASE Prefill
  BY <1>8 DEF Prefill, End
<1>9. CASE EndTokens
  BY <1>9 DEF EndTokens, End, Final
<1>10. CASE FailGeneration
  BY <1>10 DEF FailGeneration, End
<1>11. CASE UNCHANGED <<watching, worker, work>>
  BY <1>11
<1> QED
  BY <1>1, <1>2, <1>3, <1>4, <1>5, <1>6, <1>7, <1>8, <1>9, <1>10, <1>11
  DEF QueueNext, Handles, Works, Generates, Arrive, LookForModel, Count, Send, ReadEnd,
      StreamTail, HangUp, Token, Callback, Chat, AskStop, Stop, Swap

LEMMA CancelledHaveLeft ==
  ASSUME QueueTyped, JobsAreInLine, OneGenerates,
         TheirOwnStops, QueueNext
  PROVE  \A r \in Requests : cancel'[r] => at'[r] \in Left
<1> USE QueueAssumption DEF QueueTyped, JobsAreInLine, OneGenerates, TheirOwnStops,
           Left, Sent, Jobs, Reading, gateway, channel, thread, runtime, observed, GoTo
<1>1. ASSUME NEW r \in Requests, Arrive(r)
      PROVE  \A q \in Requests : cancel'[q] => at'[q] \in Left
  BY <1>1 DEF Arrive
<1>2. ASSUME NEW r \in Requests, LookForModel(r)
      PROVE  \A q \in Requests : cancel'[q] => at'[q] \in Left
  BY <1>2 DEF LookForModel
<1>3. ASSUME NEW r \in Requests, Count(r)
      PROVE  \A q \in Requests : cancel'[q] => at'[q] \in Left
  BY <1>3 DEF Count
<1>4. ASSUME NEW r \in Requests, Send(r)
      PROVE  \A q \in Requests : cancel'[q] => at'[q] \in Left
  BY <1>4 DEF Send
<1>5. ASSUME NEW r \in Requests, ReadEnd(r)
      PROVE  \A q \in Requests : cancel'[q] => at'[q] \in Left
  BY <1>5 DEF ReadEnd
<1>6. ASSUME NEW r \in Requests, StreamTail(r)
      PROVE  \A q \in Requests : cancel'[q] => at'[q] \in Left
  BY <1>6 DEF StreamTail
<1>7. ASSUME NEW r \in Requests, HangUp(r)
      PROVE  \A q \in Requests : cancel'[q] => at'[q] \in Left
  BY <1>7 DEF HangUp
<1>8. CASE Prefill
  BY <1>8 DEF Prefill, End
<1>9. CASE EndTokens
  BY <1>9 DEF EndTokens, End, Final
<1>10. CASE Token
  BY <1>10 DEF Token, Callback
<1>11. CASE FailGeneration
  BY <1>11 DEF FailGeneration, End
<1>12. ASSUME NEW c \in Chats, Chat(c) PROVE \A r \in Requests : cancel'[r] => at'[r] \in Left
  BY <1>12 DEF Chat, BeginGeneration
<1>13. CASE UNCHANGED <<cancel, at>>
  BY <1>13
<1> QED
  BY <1>1, <1>2, <1>3, <1>4, <1>5, <1>6, <1>7, <1>8, <1>9, <1>10, <1>11, <1>12,
     <1>13
  DEF QueueNext, Handles, Works, Generates, Watch, Take, CheckCancel, GetFlag, Enter,
      Return, Done, AskStop, Stop, Swap

(* Who is cancelled stays so. *)
CancelStays == \A r \in Requests : cancel[r] => cancel'[r]

LEMMA CancelStaysStep ==
  ASSUME QueueTyped, QueueNext
  PROVE  CancelStays
<1> USE DEF QueueTyped, CancelStays, gateway, channel, thread, runtime, observed, GoTo
<1>1. ASSUME NEW r \in Requests, StreamTail(r) PROVE CancelStays
  BY <1>1 DEF StreamTail
<1>2. ASSUME NEW r \in Requests, HangUp(r) PROVE CancelStays
  BY <1>2 DEF HangUp
<1>3. CASE EndTokens
  BY <1>3 DEF EndTokens, End, Final
<1>4. CASE Token
  BY <1>4 DEF Token, Callback
<1>5. CASE UNCHANGED <<cancel>>
  BY <1>5
<1> QED
  BY <1>1, <1>2, <1>3, <1>4, <1>5
  DEF QueueNext, Handles, Works, Generates, Arrive, LookForModel, Count, Send, ReadEnd,
      Watch, Take, CheckCancel, GetFlag, Enter, Return, Done, Prefill, FailGeneration,
      Chat, AskStop, Stop, Swap

LEMMA LoweredForItself ==
  ASSUME QueueTyped, OneGenerates, WatchedIsTheWorker,
         TheirOwnStops, CancelStays, QueueNext
  PROVE  mutex' \in Requests /\ ~flag' => cancel'[mutex']
<1> USE QueueAssumption DEF QueueTyped, OneGenerates, WatchedIsTheWorker,
           TheirOwnStops, CancelStays, Free, Reading, Nobody, Jobs, gateway, channel,
           thread, runtime, observed, GoTo
<1>1. ASSUME NEW r \in Requests, Watch(r)
      PROVE  mutex' \in Requests /\ ~flag' => cancel'[mutex']
  BY <1>1 DEF Watch
<1>2. CASE Enter
  BY <1>2 DEF Enter, BeginGeneration
<1>3. CASE Prefill
  BY <1>3 DEF Prefill, End
<1>4. CASE EndTokens
  BY <1>4 DEF EndTokens, End, Final
<1>5. CASE Token
  BY <1>5 DEF Token, Callback
<1>6. CASE FailGeneration
  BY <1>6 DEF FailGeneration, End
<1>7. ASSUME NEW c \in Chats, Chat(c) PROVE mutex' \in Requests /\ ~flag' => cancel'[mutex']
  BY <1>7 DEF Chat, BeginGeneration
<1>8. ASSUME NEW c \in Chats, Stop(c) PROVE mutex' \in Requests /\ ~flag' => cancel'[mutex']
  BY <1>8 DEF Stop
<1>9. CASE Swap
  BY <1>9 DEF Swap
<1>10. CASE UNCHANGED <<mutex, flag>>
  BY <1>10
<1> QED
  BY <1>1, <1>2, <1>3, <1>4, <1>5, <1>6, <1>7, <1>8, <1>9, <1>10
  DEF QueueNext, Handles, Works, Generates, Arrive, LookForModel, Count, Send, ReadEnd,
      StreamTail, HangUp, Take, CheckCancel, GetFlag, Return, Done, AskStop

LEMMA OnlyTheAbandonedStep ==
  ASSUME QueueTyped, OneGenerates, TheirOwnStops,
         CancelStays, QueueNext
  PROVE  OnlyTheAbandonedIsStopped'
<1> USE QueueAssumption DEF QueueTyped, OneGenerates, TheirOwnStops,
           OnlyTheAbandonedIsStopped, CancelStays, Nobody, Jobs, gateway, channel,
           thread, runtime, observed, GoTo
<1>1. CASE Enter
  BY <1>1 DEF Enter, BeginGeneration
<1>2. CASE Prefill
  BY <1>2 DEF Prefill, End
<1>3. CASE EndTokens
  BY <1>3 DEF EndTokens, End, Final
<1>4. CASE FailGeneration
  BY <1>4 DEF FailGeneration, End
<1>5. ASSUME NEW c \in Chats, Chat(c) PROVE OnlyTheAbandonedIsStopped'
  BY <1>5 DEF Chat, BeginGeneration
<1>6. CASE UNCHANGED <<outcome>>
  BY <1>6
<1> QED
  BY <1>1, <1>2, <1>3, <1>4, <1>5, <1>6
  DEF QueueNext, Handles, Works, Generates, Arrive, LookForModel, Count, Send, ReadEnd,
      StreamTail, HangUp, Watch, Take, CheckCancel, GetFlag, Return, Done, Token, Callback,
      AskStop, Stop, Swap

LEMMA TheirOwnStopsStep ==
  ASSUME QueueTyped, JobsAreInLine, OneGenerates, WatchedIsTheWorker, TheirOwnStops, QueueNext
  PROVE  TheirOwnStops'
BY CancelledHaveLeft, CancelStaysStep, LoweredForItself, OnlyTheAbandonedStep
   DEF TheirOwnStops

(* What has been generated, or is being, is not generated again. *)
NotAgain == \A r \in Requests : Ahead(r)' => Ahead(r)

LEMMA NotAgainStep ==
  ASSUME QueueTyped, JobsAreInLine, OneGenerates, SentStays, QueueNext
  PROVE  NotAgain
<1> USE DEF QueueTyped, NotAgain, Ahead, SentStays
<1>1. ASSUME NEW s \in Requests, Send(s) PROVE NotAgain
  <2>1. /\ at[s] \notin Sent /\ queue' = Append(queue, s) /\ UNCHANGED <<worker, work>>
    BY <1>1 DEF Send, Sent, thread
  <2>2. Queued' \subseteq Queued \cup {s}
    BY <2>1 DEF Queued
  <2> QED
    BY <2>1, <2>2
<1>2. CASE Take
  <2>1. /\ worker' = queue[1] /\ work' = "taken" /\ UNCHANGED at
        /\ Len(queue) \in Nat /\ Len(queue) > 0
        /\ Len(queue') = Len(queue) - 1
        /\ \A i \in 1 .. Len(queue') : queue'[i] = queue[i + 1]
    BY <1>2 DEF Take, gateway
  <2>2. \A i \in 1 .. Len(queue') : i + 1 \in 1 .. Len(queue)
    BY <2>1
  <2>3. Queued' \subseteq Queued /\ worker' \in Queued
    BY <2>1, <2>2 DEF Queued
  <2> QED
    BY <2>1, <2>3
<1>3. CASE UNCHANGED queue /\ (UNCHANGED <<worker, work>> \/
             work' \notin {"taken", "checked", "entering"})
  BY <1>3 DEF Queued
<1>4. CASE CheckCancel \/ GetFlag
  <2>1. UNCHANGED <<queue, worker>> /\ work \in {"taken", "checked"}
    BY <1>4 DEF CheckCancel, GetFlag, channel
  <2> QED
    BY <2>1 DEF Queued
<1>5. CASE Enter \/ Return \/ Done \/ Generates
  BY <1>3, <1>5
  DEF Enter, Return, Done, Generates, Prefill, EndTokens, Token, Callback, FailGeneration, End,
      channel, thread
<1> QED
  BY <1>1, <1>2, <1>3, <1>4, <1>5
  DEF QueueNext, Handles, Works, Arrive, LookForModel, Count, ReadEnd, StreamTail, HangUp,
      Watch, Chat, AskStop, Stop, Swap, channel, thread

LEMMA OnePieceIsUnreadStep ==
  ASSUME QueueTyped, JobsAreInLine, OneGenerates,
         OnePieceIsUnread, NotAgain, QueueNext
  PROVE  OnePieceIsUnread'
<1> USE QueueAssumption DEF QueueTyped, JobsAreInLine, OneGenerates, OnePieceIsUnread,
           NotAgain, Nobody, Jobs, Free, Reading, gateway, channel, thread, runtime,
           observed, GoTo
<1>1. ASSUME NEW r \in Requests, Watch(r) PROVE OnePieceIsUnread'
  BY <1>1 DEF Watch
<1>2. CASE Enter
  BY <1>2 DEF Enter, BeginGeneration, Ahead
<1>3. CASE Prefill
  BY <1>3 DEF Prefill, End
<1>4. CASE EndTokens
  BY <1>4 DEF EndTokens, End, Final
<1>5. CASE Token
  <2>1. CASE mutex \in Requests
    <3>1. ~Ahead(mutex) /\ UNCHANGED <<mutex, at, worker, work>>
      BY <1>5, <2>1 DEF Token, Callback, Ahead, Queued
    <3>2. wasted[mutex] = 0
      BY <1>5, <2>1 DEF Token, Callback
    <3>3. \/ UNCHANGED wasted
          \/ wasted' = [wasted EXCEPT ![mutex] = @ + 1] /\ ~flag'
      BY <1>5, <2>1 DEF Token, Callback
    <3>4. ASSUME NEW r \in Requests, wasted'[r] # 0
          PROVE  wasted'[r] = 1 /\ ~Ahead(r)' /\ (mutex' = r => ~flag')
      <4>1. CASE r = mutex
        BY <2>1, <3>1, <3>2, <3>3, <3>4, <4>1
      <4>2. CASE r # mutex
        <5>1. wasted'[r] = wasted[r] BY <3>3, <4>2
        <5> QED BY <3>1, <3>4, <4>2, <5>1
      <4> QED BY <4>1, <4>2
    <3> QED
      BY <3>4
  <2>2. CASE mutex \notin Requests
    BY <1>5, <2>2 DEF Token, Callback
  <2> QED
    BY <2>1, <2>2
<1>6. CASE FailGeneration
  BY <1>6 DEF FailGeneration, End
<1>7. ASSUME NEW c \in Chats, Chat(c) PROVE OnePieceIsUnread'
  BY <1>7 DEF Chat, BeginGeneration
<1>8. ASSUME NEW c \in Chats, Stop(c) PROVE OnePieceIsUnread'
  BY <1>8 DEF Stop
<1>9. CASE Swap
  BY <1>9 DEF Swap
<1>10. CASE UNCHANGED <<mutex, flag, wasted>>
  BY <1>10
<1> QED
  BY <1>1, <1>2, <1>3, <1>4, <1>5, <1>6, <1>7, <1>8, <1>9, <1>10
  DEF QueueNext, Handles, Works, Generates, Arrive, LookForModel, Count, Send, ReadEnd,
      StreamTail, HangUp, Take, CheckCancel, GetFlag, Return, Done, AskStop

LEMMA EndsAreToldStep ==
  ASSUME QueueTyped, JobsAreInLine, OneGenerates,
         TheirOwnStops, EndsAreTold, QueueNext
  PROVE  EndsAreTold'
<1> USE QueueAssumption DEF QueueTyped, JobsAreInLine, OneGenerates, TheirOwnStops,
           EndsAreTold, ReaderGetsAFinalChunk, Nobody, Jobs, Sent, Left, Reading,
           gateway, channel, thread, runtime, observed, GoTo
<1>1. ASSUME NEW r \in Requests, Arrive(r) PROVE EndsAreTold'
  BY <1>1 DEF Arrive
<1>2. ASSUME NEW r \in Requests, LookForModel(r) PROVE EndsAreTold'
  BY <1>2 DEF LookForModel
<1>3. ASSUME NEW r \in Requests, Count(r) PROVE EndsAreTold'
  BY <1>3 DEF Count
<1>4. ASSUME NEW r \in Requests, Send(r) PROVE EndsAreTold'
  BY <1>4 DEF Send
<1>5. ASSUME NEW r \in Requests, ReadEnd(r) PROVE EndsAreTold'
  BY <1>5 DEF ReadEnd
<1>6. ASSUME NEW r \in Requests, StreamTail(r) PROVE EndsAreTold'
  BY <1>6 DEF StreamTail
<1>7. ASSUME NEW r \in Requests, HangUp(r) PROVE EndsAreTold'
  BY <1>7 DEF HangUp
<1>8. CASE Take
  BY <1>8 DEF Take
<1>9. CASE CheckCancel
  BY <1>9 DEF CheckCancel
<1>10. CASE GetFlag
  BY <1>10 DEF GetFlag
<1>11. CASE Enter
  BY <1>11 DEF Enter, BeginGeneration
<1>12. CASE Return
  BY <1>12 DEF Return, Outcomes
<1>13. CASE Done
  BY <1>13 DEF Done
<1>14. CASE Prefill
  BY <1>14 DEF Prefill, End
<1>15. CASE EndTokens
  BY <1>15 DEF EndTokens, End, Final
<1>16. CASE Token
  BY <1>16 DEF Token, Callback
<1>17. CASE FailGeneration
  BY <1>17 DEF FailGeneration, End
<1>18. ASSUME NEW c \in Chats, Chat(c) PROVE EndsAreTold'
  BY <1>18 DEF Chat, BeginGeneration
<1>19. CASE UNCHANGED <<at, worker, work, stream, outcome>>
  BY <1>19
<1> QED
  BY <1>1, <1>2, <1>3, <1>4, <1>5, <1>6, <1>7, <1>8, <1>9, <1>10, <1>11, <1>12,
     <1>13, <1>14, <1>15, <1>16, <1>17, <1>18, <1>19
  DEF QueueNext, Handles, Works, Generates, Watch, AskStop, Stop, Swap

-----------------------------------------------------------------------------
(* The two counts.                                                         *)

LEMMA CountedUp ==
  ASSUME NEW S, S \subseteq Requests, NEW x \in Requests, x \notin S
  PROVE  Cardinality(S \cup {x}) = Cardinality(S) + 1
BY FS_Subset, FS_AddElement, QueueAssumption

LEMMA CountedDown ==
  ASSUME NEW S, S \subseteq Requests, NEW x \in S
  PROVE  Cardinality(S) # 0 /\ Cardinality(S \ {x}) = Cardinality(S) - 1
BY FS_Subset, FS_RemoveElement, FS_EmptySet, QueueAssumption

LEMMA ActiveStep ==
  ASSUME QueueTyped, OneGenerates, JobsAreInLine, active = Cardinality(Served), QueueNext
  PROVE  active' = Cardinality(Served')
<1> USE QueueAssumption DEF QueueTyped, Jobs
<1>1. CASE UNCHANGED <<at, active>>
  BY <1>1 DEF Served
<1>2. ASSUME NEW r \in Requests, Arrive(r) PROVE active' = Cardinality(Served')
  <2>1. Served' = Served \cup {r} /\ r \notin Served /\ active' = active + 1
    BY <1>2 DEF Arrive, GoTo, Served
  <2> QED
    BY <2>1, CountedUp DEF Served
<1>3. ASSUME NEW r \in Requests, at[r] \notin {"new", "over"},
             active' = OneLess(active), GoTo(r, "over")
      PROVE  active' = Cardinality(Served')
  <2>1. Served' = Served \ {r} /\ r \in Served
    BY <1>3 DEF GoTo, Served
  <2> QED
    BY <1>3, <2>1, CountedDown DEF OneLess, Served
<1>4. ASSUME NEW r \in Requests, at[r] \notin {"new", "over"}, UNCHANGED active,
             NEW place \in {"submitting", "sending", "reading", "closing", "gone"},
             GoTo(r, place)
      PROVE  active' = Cardinality(Served')
  <2>1. Served' = Served
    BY <1>4 DEF GoTo, Served
  <2> QED
    BY <1>4, <2>1
<1>5. ASSUME NEW r \in Requests, Handles(r) \/ HangUp(r) PROVE active' = Cardinality(Served')
  BY <1>3, <1>4, <1>5
  DEF Handles, LookForModel, Count, Send, ReadEnd, StreamTail, HangUp, Reading
<1>6. ASSUME NEW c \in Chats, NEW place, GoTo(c, place), UNCHANGED active
      PROVE  active' = Cardinality(Served')
  <2>1. Served' = Served
    BY <1>6 DEF GoTo, Served
  <2> QED
    BY <1>6, <2>1
<1>7. CASE Generates
  BY <1>1, <1>6, <1>7
  DEF Generates, Prefill, EndTokens, Token, Callback, FailGeneration, End, gateway
<1>8. ASSUME NEW c \in Chats, Chat(c) PROVE active' = Cardinality(Served')
  BY <1>6, <1>8 DEF Chat
<1> QED
  BY <1>1, <1>2, <1>5, <1>7, <1>8
  DEF QueueNext, Works, Take, CheckCancel, GetFlag, Enter, Return, Done, Watch, AskStop, Stop,
      Swap, gateway

LEMMA DepthStep ==
  ASSUME QueueTyped, OneGenerates, JobsAreInLine, depth = Cardinality(Underway), QueueNext
  PROVE  depth' = Cardinality(Underway')
<1> USE QueueAssumption DEF QueueTyped, Jobs
<1>a. Underway \subseteq Requests /\ Queued \subseteq Requests
  BY DEF Underway, Queued, Sending
<1>1. ASSUME Sending' = Sending, UNCHANGED <<queue, worker, depth>>
      PROVE  depth' = Cardinality(Underway')
  <2>1. Underway' = Underway
    BY <1>1 DEF Underway, Queued, Sending
  <2> QED
    BY <1>1, <2>1
<1>2. ASSUME NEW r \in Requests, Count(r) PROVE depth' = Cardinality(Underway')
  <2>1. Underway' = Underway \cup {r} /\ depth' = depth + 1
    BY <1>2 DEF Count, GoTo, Underway, Queued, Sending, thread
  <2>2. r \notin Underway
    BY <1>2 DEF Count, Underway, Queued, Sending, JobsAreInLine, Sent, Nobody
  <2> QED
    BY <1>a, <2>1, <2>2, CountedUp
<1>3. ASSUME NEW r \in Requests, Send(r) PROVE depth' = Cardinality(Underway')
  <2>1. /\ Sending' = Sending \ {r} /\ r \in Sending /\ queue' = Append(queue, r)
        /\ UNCHANGED <<worker, depth>>
    BY <1>3 DEF Send, GoTo, Sending, thread
  <2>2. /\ Len(queue) \in Nat /\ Len(queue') = Len(queue) + 1 /\ queue'[Len(queue) + 1] = r
        /\ \A i \in 1 .. Len(queue) : queue'[i] = queue[i]
    BY <2>1
  <2>3. Queued' = Queued \cup {r}
    <3>1. \A i \in 1 .. Len(queue') : i \in 1 .. Len(queue) \/ i = Len(queue) + 1
      BY <2>2
    <3>2. \A i \in 1 .. Len(queue) : i \in 1 .. Len(queue')
      BY <2>2
    <3>3. Len(queue) + 1 \in 1 .. Len(queue')
      BY <2>2
    <3>4. Queued' \subseteq Queued \cup {r}
      <4>1. ASSUME NEW q \in Queued' PROVE q \in Queued \cup {r}
        <5>1. PICK i \in 1 .. Len(queue') : q = queue'[i] BY DEF Queued
        <5> QED BY <2>2, <3>1, <5>1 DEF Queued
      <4> QED BY <4>1
    <3>5. Queued \cup {r} \subseteq Queued'
      BY <2>2, <3>2, <3>3 DEF Queued
    <3> QED
      BY <3>4, <3>5
  <2>4. Underway' = Underway
    BY <2>1, <2>3 DEF Underway, Sending
  <2> QED
    BY <2>1, <2>4
<1>4. CASE Take
  <2>1. /\ worker = Nobody /\ worker' = queue[1] /\ UNCHANGED <<at, depth>>
        /\ Len(queue) \in Nat /\ Len(queue) > 0
        /\ Len(queue') = Len(queue) - 1
        /\ \A i \in 1 .. Len(queue') : queue'[i] = queue[i + 1]
    BY <1>4 DEF Take, gateway
  <2>2. Queued = Queued' \cup {worker'} /\ worker' # Nobody
    <3>1. \A i \in 1 .. Len(queue) : i = 1 \/ (i - 1 \in 1 .. Len(queue') /\ (i - 1) + 1 = i)
      BY <2>1
    <3>2. \A i \in 1 .. Len(queue') : i + 1 \in 1 .. Len(queue)
      BY <2>1
    <3>3. 1 \in 1 .. Len(queue)
      BY <2>1
    <3>4. Queued \subseteq Queued' \cup {worker'}
      <4>1. ASSUME NEW q \in Queued PROVE q \in Queued' \cup {worker'}
        <5>1. PICK i \in 1 .. Len(queue) : q = queue[i] BY DEF Queued
        <5>2. CASE i = 1 BY <2>1, <5>1, <5>2
        <5>3. CASE i - 1 \in 1 .. Len(queue') /\ (i - 1) + 1 = i
          <6>1. queue'[i - 1] = q BY <2>1, <5>1, <5>3
          <6> QED BY <5>3, <6>1 DEF Queued
        <5> QED BY <3>1, <5>2, <5>3
      <4> QED BY <4>1
    <3>5. Queued' \cup {worker'} \subseteq Queued
      <4>1. ASSUME NEW q \in Queued' PROVE q \in Queued
        <5>1. PICK i \in 1 .. Len(queue') : q = queue'[i] BY DEF Queued
        <5> QED BY <2>1, <3>2, <5>1 DEF Queued
      <4>2. worker' \in Queued BY <2>1, <3>3 DEF Queued
      <4> QED BY <4>1, <4>2
    <3>6. worker' # Nobody
      BY <1>a, <3>5 DEF Nobody
    <3> QED
      BY <3>4, <3>5, <3>6
  <2>3. Underway' = Underway
    BY <2>1, <2>2 DEF Underway, Sending
  <2> QED
    BY <2>1, <2>3
<1>5. CASE Done
  <2>1. /\ worker # Nobody /\ worker' = Nobody /\ UNCHANGED <<at, queue>>
        /\ depth' = depth - 1
    BY <1>5 DEF Done, JobsAreInLine, gateway
  <2>2. worker \in Underway /\ Underway' = Underway \ {worker}
    BY <2>1 DEF Underway, Queued, Sending, JobsAreInLine, Sent
  <2> QED
    BY <1>a, <2>1, <2>2, CountedDown
<1>6. ASSUME NEW j \in Jobs, NEW place, GoTo(j, place), place # "sending",
             at[j] # "sending"
      PROVE  Sending' = Sending
  BY <1>6 DEF GoTo, Sending
<1>7. ASSUME UNCHANGED at PROVE Sending' = Sending
  BY <1>7 DEF Sending
<1>8. ASSUME NEW r \in Requests,
             Arrive(r) \/ LookForModel(r) \/ ReadEnd(r) \/ StreamTail(r) \/ HangUp(r)
      PROVE  depth' = Cardinality(Underway')
  <2>1. Sending' = Sending
    BY <1>6, <1>8 DEF Arrive, LookForModel, ReadEnd, StreamTail, HangUp, Reading
  <2> QED
    BY <1>1, <1>8, <2>1 DEF Arrive, LookForModel, ReadEnd, StreamTail, HangUp, channel, thread
<1>9. ASSUME NEW j \in Chats, NEW place, GoTo(j, place)
      PROVE  Sending' = Sending
  BY <1>9 DEF GoTo, Sending
<1>10. CASE Generates \/ \E c \in Chats : Chat(c)
  <2>1. Sending' = Sending
    BY <1>7, <1>9, <1>10
    DEF Generates, Prefill, EndTokens, Token, Callback, FailGeneration, End,
       Chat, gateway
  <2> QED
    BY <1>1, <1>10, <2>1
    DEF Generates, Prefill, EndTokens, Token, Callback, FailGeneration, Chat, channel, thread
<1> QED
  BY <1>1, <1>2, <1>3, <1>4, <1>5, <1>7, <1>8, <1>10
  DEF QueueNext, Handles, Works, CheckCancel, GetFlag, Enter, Return, Watch, AskStop, Stop,
      Swap, gateway, channel, thread

-----------------------------------------------------------------------------

LEMMA QueueInvariantInit == QueueInit => QueueInvariant
<1> SUFFICES ASSUME QueueInit PROVE QueueInvariant
  OBVIOUS
<1> USE QueueAssumption DEF QueueInit
<1>1. QueueTyped
  <2>1. <<>> \in Seq(Requests) /\ 0 \in 0 .. Chunks + MaxTokens /\ 0 \in 0 .. MaxTokens
        /\ 0 \in 0 .. MaxSwaps
    OBVIOUS
  <2> QED
    BY <2>1 DEF QueueTyped, Stages, Outcomes
<1>2. CountsAreKept
  <2>1. Served = {} /\ Underway = {}
    BY DEF Served, Underway, Sending, Queued, Jobs
  <2> QED
    BY <2>1, FS_EmptySet DEF CountsAreKept
<1>3. JobsAreInLine /\ OneGenerates /\ WatchedIsTheWorker
  BY DEF JobsAreInLine, OneGenerates, WatchedIsTheWorker, Jobs, Nobody
<1>4. TheirOwnStops /\ OnePieceIsUnread /\ EndsAreTold
  BY DEF TheirOwnStops, OnlyTheAbandonedIsStopped, OnePieceIsUnread, EndsAreTold,
         ReaderGetsAFinalChunk, Jobs, Nobody
<1> QED
  BY <1>1, <1>2, <1>3, <1>4, TypedSplits DEF QueueInvariant

LEMMA QueueInvariantStep == QueueInvariant /\ [QueueNext]_queueVars => QueueInvariant'
<1> SUFFICES ASSUME QueueInvariant, [QueueNext]_queueVars PROVE QueueInvariant'
  OBVIOUS
<1>1. CASE QueueNext
  <2>1. /\ QueueTyped /\ CountsAreKept /\ JobsAreInLine /\ OneGenerates
        /\ WatchedIsTheWorker /\ TheirOwnStops /\ OnePieceIsUnread /\ EndsAreTold
    BY DEF QueueInvariant, QueueTypeOK, QueueTyped
  <2>2. DOMAIN at = Jobs
    BY <2>1 DEF QueueTyped
  <2>3. SentStays
    BY <1>1, <2>1, <2>2, SentStaysStep
  <2>4. QueueTyped' /\ CountsAreKept'
    BY <1>1, <2>1, QueueTypedStep, ActiveStep, DepthStep DEF CountsAreKept
  <2>5. QueueTypeOK'
    <3>1. Served' \subseteq Requests /\ Underway' \subseteq Requests
      BY <2>4 DEF QueueTyped, Served, Underway, Queued, Sending
    <3>2. active' \in 0 .. Cardinality(Requests) /\ depth' \in 0 .. Cardinality(Requests)
      BY <2>4, <3>1, Bounded DEF CountsAreKept
    <3> QED
      BY <2>4, <3>2 DEF QueueTyped, QueueTypeOK
  <2>6. JobsAreInLine' /\ OneGenerates' /\ WatchedIsTheWorker' /\ TheirOwnStops' /\ EndsAreTold'
    BY <1>1, <2>1, <2>3, JobsAreInLineStep, OneGeneratesStep, WatchedIsTheWorkerStep,
       TheirOwnStopsStep, EndsAreToldStep
  <2>7. OnePieceIsUnread'
    BY <1>1, <2>1, <2>3, NotAgainStep, OnePieceIsUnreadStep
  <2> QED
    BY <2>4, <2>5, <2>6, <2>7 DEF QueueInvariant
<1>2. CASE UNCHANGED queueVars
  BY <1>2
  DEF queueVars, gateway, channel, thread, runtime, observed, QueueInvariant, QueueTypeOK,
      CountsAreKept, Served, Underway, Sending, Queued, JobsAreInLine, OneGenerates,
      WatchedIsTheWorker, TheirOwnStops, OnlyTheAbandonedIsStopped, OnePieceIsUnread, Ahead,
      EndsAreTold, ReaderGetsAFinalChunk, Reading
<1> QED
  BY <1>1, <1>2

LEMMA QueueInvariantHolds == QueueSpec => []QueueInvariant
BY QueueInvariantInit, QueueInvariantStep, PTL DEF QueueSpec

(* The two counts of jobs stay within the requests there are, the mutex is *)
(* held exactly while a generation is on its way, and no variable leaves   *)
(* its type, whatever order the handlers, the worker, the watcher and the  *)
(* desktop take their steps in.                                            *)
THEOREM QueueTypeCorrect == QueueSpec => []QueueTypeOK
<1>1. QueueInvariant => QueueTypeOK
  BY DEF QueueInvariant
<1> QED
  BY <1>1, QueueInvariantHolds, PTL

(* A request is cut short only because its own reader went, and after that *)
(* at most one piece of text is produced for it.                           *)
THEOREM OnlyTheAbandonedStops == QueueSpec => []StopsAsAsked
<1>1. QueueInvariant => AtMostOneUnreadPiece
  <2>1. 0 <= 1 /\ 1 <= 1 OBVIOUS
  <2> QED BY <2>1 DEF QueueInvariant, AtMostOneUnreadPiece, OnePieceIsUnread
<1>2. QueueInvariant => OnlyTheAbandonedIsStopped
  BY DEF QueueInvariant, TheirOwnStops
<1>3. QueueInvariant => StopsAsAsked
  BY <1>1, <1>2 DEF StopsAsAsked
<1> QED
  BY <1>3, QueueInvariantHolds, PTL

(* A reader's channel does not close before it was sent a final chunk.     *)
THEOREM ReadersAreTold == QueueSpec => []ReaderGetsAFinalChunk
<1>1. QueueInvariant => ReaderGetsAFinalChunk
  BY DEF QueueInvariant, EndsAreTold
<1> QED
  BY <1>1, QueueInvariantHolds, PTL

-----------------------------------------------------------------------------
(* ModelServers.                                                           *)

(* The order the servers were used in.                                     *)
Strict(seq) == \A i, k \in 1 .. Len(seq) : seq[i] = seq[k] => i = k
Elements(seq) == {seq[i] : i \in 1 .. Len(seq)}

LEMMA WithoutIs ==
  ASSUME NEW S, NEW seq \in Seq(S), NEW s, Strict(seq)
  PROVE  /\ Without(seq, s) \in Seq(S) /\ Strict(Without(seq, s))
         /\ Elements(Without(seq, s)) = Elements(seq) \ {s}
<1>0. Len(seq) \in Nat /\ \A i \in 1 .. Len(seq) : seq[i] \in S
  OBVIOUS
<1>1. CASE \A i \in 1 .. Len(seq) : seq[i] # s
  BY <1>1 DEF Without, Elements
<1>2. CASE \E i \in 1 .. Len(seq) : seq[i] = s
  <2> DEFINE k == CHOOSE i \in 1 .. Len(seq) : seq[i] = s
             n == Len(seq) - 1
             w == [i \in 1 .. n |-> IF i < k THEN seq[i] ELSE seq[i + 1]]
  <2>1. k \in 1 .. Len(seq) /\ seq[k] = s
    BY <1>2
  <2>2. Without(seq, s) = w
    BY <1>2 DEF Without
  <2>3. n \in Nat
    BY <1>0, <2>1
  <2>4. \A i \in 1 .. n : i \in 1 .. Len(seq) /\ i + 1 \in 1 .. Len(seq)
    BY <1>0, <2>1
  <2> HIDE DEF k
  <2>5. \A i \in 1 .. n : w[i] \in S
    BY <1>0, <2>4
  <2>6. w \in Seq(S) /\ Len(w) = n
    BY <2>3, <2>5
  <2>7. ASSUME NEW i \in 1 .. n, NEW j \in 1 .. n, w[i] = w[j] PROVE i = j
    <3> DEFINE at1(x) == IF x < k THEN x ELSE x + 1
    <3>1. w[i] = seq[at1(i)] /\ w[j] = seq[at1(j)]
      OBVIOUS
    <3>2. at1(i) \in 1 .. Len(seq) /\ at1(j) \in 1 .. Len(seq)
      BY <2>4
    <3>3. at1(i) = at1(j)
      BY <2>7, <3>1, <3>2 DEF Strict
    <3> QED
      BY <2>1, <2>3, <3>3
  <2>8. Strict(w)
    BY <2>6, <2>7 DEF Strict
  <2>9. ASSUME NEW x \in Elements(w) PROVE x \in Elements(seq) \ {s}
    <3>1. PICK i \in 1 .. n : x = w[i]
      BY <2>6 DEF Elements
    <3>2. PICK j \in 1 .. Len(seq) : j # k /\ x = seq[j]
      BY <2>1, <2>3, <2>4, <3>1
    <3>3. x # s
      BY <2>1, <3>2 DEF Strict
    <3> QED
      BY <3>2, <3>3 DEF Elements
  <2>10. ASSUME NEW x \in Elements(seq) \ {s} PROVE x \in Elements(w)
    <3>1. PICK j \in 1 .. Len(seq) : x = seq[j]
      BY DEF Elements
    <3>2. j # k
      BY <2>1, <3>1
    <3>3. CASE j < k
      <4>1. j \in 1 .. n /\ w[j] = x
        BY <1>0, <2>1, <3>1, <3>3
      <4> QED
        BY <2>6, <4>1 DEF Elements
    <3>4. CASE j > k
      <4>1. j - 1 \in 1 .. n /\ ~(j - 1 < k) /\ (j - 1) + 1 = j
        BY <1>0, <2>1, <3>4
      <4>2. w[j - 1] = x
        BY <3>1, <4>1
      <4> QED
        BY <2>6, <4>1, <4>2 DEF Elements
    <3> QED
      BY <2>1, <3>2, <3>3, <3>4
  <2> QED
    BY <2>2, <2>6, <2>8, <2>9, <2>10
<1> QED
  BY <1>1, <1>2

LEMMA AppendIs ==
  ASSUME NEW S, NEW seq \in Seq(S), NEW s \in S, Strict(seq), s \notin Elements(seq)
  PROVE  /\ Append(seq, s) \in Seq(S) /\ Strict(Append(seq, s))
         /\ Elements(Append(seq, s)) = Elements(seq) \cup {s}
<1> DEFINE w == Append(seq, s)
           n == Len(seq)
<1>1. n \in Nat /\ w \in Seq(S) /\ Len(w) = n + 1 /\ w[n + 1] = s
  OBVIOUS
<1>2. \A i \in 1 .. n : w[i] = seq[i] /\ seq[i] # s
  BY DEF Elements
<1>3. \A i \in 1 .. Len(w) : i \in 1 .. n \/ i = n + 1
  BY <1>1
<1>4. Strict(w)
  BY <1>1, <1>2, <1>3 DEF Strict
<1>5. ASSUME NEW x \in Elements(w) PROVE x \in Elements(seq) \cup {s}
  <2>1. PICK i \in 1 .. Len(w) : x = w[i]
    BY DEF Elements
  <2> QED
    BY <1>1, <1>2, <1>3, <2>1 DEF Elements
<1>6. ASSUME NEW x \in Elements(seq) \cup {s} PROVE x \in Elements(w)
  <2>1. CASE x = s
    <3>1. n + 1 \in 1 .. Len(w)
      BY <1>1
    <3> QED
      BY <1>1, <2>1, <3>1 DEF Elements
  <2>2. CASE x \in Elements(seq)
    <3>1. PICK i \in 1 .. n : x = seq[i]
      BY <2>2 DEF Elements
    <3>2. i \in 1 .. Len(w)
      BY <1>1
    <3> QED
      BY <1>2, <3>1, <3>2 DEF Elements
  <2> QED
    BY <2>1, <2>2
<1> QED
  BY <1>1, <1>4, <1>5, <1>6

LEMMA LastIs ==
  ASSUME NEW S, NEW seq \in Seq(S), NEW s \in S, Strict(seq)
  PROVE  /\ Last(seq, s) \in Seq(S) /\ Strict(Last(seq, s))
         /\ Elements(Last(seq, s)) = Elements(seq) \cup {s}
BY WithoutIs, AppendIs DEF Last

Listing == {table[m] : m \in ServedModels} \ {NoServer}

OrderIsTheTables ==
  /\ order \in Seq(Servers) /\ Strict(order) /\ Elements(order) = Listing
  /\ handed \in Seq(Servers) /\ Strict(handed)

ListedServes ==
  \A m \in ServedModels : table[m] # NoServer => of[table[m]] = m /\ state[table[m]] # "unused"

KillingIsBrief ==
  \A c \in Callers : killing[c] # NoServer => doing[c] \in {"ending", "ending it"}

Given == {"given", "waiting", "giving up", "ending it", "leaving", "using"}

GivenWasStarted ==
  /\ \A c \in Callers : doing[c] \in Given => mine[c] # NoServer /\ state[mine[c]] # "unused"
  /\ \A s \in Servers : ready[s] => state[s] \in {"up", "ended"}
  /\ \A c \in Callers : doing[c] = "using" => ready[mine[c]]

(* A worker that has to have the card and is past waiting for it holds it. *)
CardIsHeld ==
  \A c \in Workers :
    residency[c] = "serialise" /\ doing[c] \notin {"idle", "for slot", "for card", "over"}
      => card = {c}

OnlyWorkersWait ==
  \A c \in Callers : doing[c] \in {"idle", "for slot", "for card"} => c \in Workers

ServersInvariant ==
  /\ ServersTypeOK /\ OrderIsTheTables /\ ListedServes /\ RunningIsListed
  /\ KillingIsBrief /\ GivenWasStarted /\ CardIsHeld /\ OnlyWorkersWait

(* Types without the sequences.                                            *)
ServersTyped ==
  /\ table \in [ServedModels -> Servers \cup {NoServer}]
  /\ state \in [Servers -> {"unused", "starting", "up", "ended"}]
  /\ of \in [Servers -> ServedModels] /\ ready \in [Servers -> BOOLEAN]
  /\ doing \in [Callers -> CallPlaces]
  /\ mine \in [Callers -> Servers \cup {NoServer}]
  /\ victims \in [Callers -> Seq(ServedModels)]
  /\ killing \in [Callers -> Servers \cup {NoServer}]
  /\ residency \in [Callers -> {"none", "warm", "alongside", "serialise"}]
  /\ card \subseteq Workers /\ foundDead \subseteq Servers /\ deaths \in Nat

LEMMA TakenOutKeepsOrder ==
  ASSUME ServersTyped, OrderIsTheTables, ListedServes, NEW c \in Callers,
         NEW m \in ServedModels, TakenOut(c, m), UNCHANGED handed
  PROVE  OrderIsTheTables'
<1>1. Listing' = Listing \ {table[m]}
  <2>1. \A k \in ServedModels \ {m} : table'[k] = table[k] /\ (table[k] # NoServer => table[k] # table[m])
    BY DEF TakenOut, ServersTyped, ListedServes
  <2>2. table'[m] = NoServer
    BY DEF TakenOut, ServersTyped
  <2> QED
    BY <2>1, <2>2 DEF Listing
<1>2. order' = Without(order, table[m])
  BY DEF TakenOut
<1> QED
  BY <1>1, <1>2, WithoutIs DEF OrderIsTheTables

LEMMA LaunchKeepsOrder ==
  ASSUME ServersTyped, OrderIsTheTables, ListedServes, NEW c \in Callers,
         ~Listed(Wants[c]), Launch(c)
  PROVE  OrderIsTheTables'
<1>1. PICK s \in Servers : /\ state[s] = "unused" /\ table' = [table EXCEPT ![Wants[c]] = s]
                           /\ order' = Append(order, s) /\ handed' = Last(handed, s)
  BY DEF Launch
<1>2. Wants[c] \in ServedModels /\ table[Wants[c]] = NoServer /\ s # NoServer
  BY ServersAssumption DEF Listed, Servers, NoServer
<1>3. s \notin Listing
  BY <1>1, <1>2 DEF Listing, ListedServes
<1>4. Listing' = Listing \cup {s}
  <2>1. \A m \in ServedModels : table'[m] = IF m = Wants[c] THEN s ELSE table[m]
    BY <1>1 DEF ServersTyped
  <2> QED
    BY <1>2, <2>1 DEF Listing
<1> QED
  BY <1>1, <1>3, <1>4, LastIs, AppendIs DEF OrderIsTheTables

LEMMA OrderStep ==
  ASSUME ServersTyped, OrderIsTheTables, ListedServes, ServersNext
  PROVE  OrderIsTheTables'
<1> USE ServersAssumption DEF servers, schedule, noted
<1>1. ASSUME NEW c \in Callers, AskWarm(c) PROVE OrderIsTheTables'
  <2>1. CASE UNCHANGED <<table, order, handed>>
    BY <2>1 DEF OrderIsTheTables, Listing
  <2>2. CASE Warm(Wants[c]) /\ order' = Last(order, table[Wants[c]])
             /\ handed' = Last(handed, table[Wants[c]]) /\ UNCHANGED table
    <3>1. table[Wants[c]] \in Listing /\ table[Wants[c]] \in Servers
      BY <2>2 DEF Warm, Listed, Listing, ServersTyped
    <3>2. Listing' = Listing
      BY <2>2 DEF Listing
    <3>3. order \in Seq(Servers) /\ Strict(order) /\ Elements(order) = Listing
      BY DEF OrderIsTheTables
    <3>4. handed \in Seq(Servers) /\ Strict(handed)
      BY DEF OrderIsTheTables
    <3>5. Elements(order') = Elements(order) \cup {table[Wants[c]]}
          /\ order' \in Seq(Servers) /\ Strict(order')
      BY <2>2, <3>1, <3>3, LastIs
    <3>6. handed' \in Seq(Servers) /\ Strict(handed')
      BY <2>2, <3>1, <3>4, LastIs
    <3> QED
      BY <3>1, <3>2, <3>3, <3>5, <3>6 DEF OrderIsTheTables
  <2> QED
    BY <1>1, <2>1, <2>2 DEF AskWarm
<1>2. ASSUME NEW c \in Callers, Reclaim(c) PROVE OrderIsTheTables'
  <2>1. Head(victims[c]) \in ServedModels
    BY <1>2 DEF Reclaim, ServersTyped
  <2> QED
    BY <1>2, <2>1, TakenOutKeepsOrder DEF Reclaim
<1>3. ASSUME NEW c \in Callers, Spawn(c) PROVE OrderIsTheTables'
  <2>1. CASE ~Listed(Wants[c]) /\ Launch(c)
    BY <2>1, LaunchKeepsOrder
  <2>2. CASE Listed(Wants[c]) /\ UNCHANGED <<table, order>>
             /\ handed' = Last(handed, table[Wants[c]])
    <3>1. table[Wants[c]] \in Servers
      BY <2>2 DEF Listed, ServersTyped
    <3>2. Listing' = Listing
      BY <2>2 DEF Listing
    <3> QED
      BY <2>2, <3>1, <3>2, LastIs DEF OrderIsTheTables
  <2>3. CASE UNCHANGED <<table, order, handed>>
    BY <2>3 DEF OrderIsTheTables, Listing
  <2> QED
    BY <1>3, <2>1, <2>2, <2>3 DEF Spawn
<1>4. ASSUME NEW c \in Callers, GiveUp(c) PROVE OrderIsTheTables'
  <2>1. Wants[c] \in ServedModels
    OBVIOUS
  <2> QED
    BY <1>4, <2>1, TakenOutKeepsOrder DEF GiveUp
<1>5. CASE UNCHANGED <<table, order, handed>>
  BY <1>5 DEF OrderIsTheTables, Listing
<1> QED
  BY <1>1, <1>2, <1>3, <1>4, <1>5
  DEF ServersNext, Does, Judge, TakeSlot, TakeCard, TooLong, AdmitModel, EndVictim,
      Measure, LookReady, Poll, EndIt, FailCall, Leave, ComesUp, Dies, Kill

LEMMA WithoutTyped ==
  ASSUME ServersTyped, OrderIsTheTables, NEW c \in Callers
  PROVE  Others(c) \in Seq(ServedModels)
<1>1. Without(order, table[Wants[c]]) \in Seq(Servers)
  BY WithoutIs DEF OrderIsTheTables
<1> QED
  BY <1>1 DEF Others, ServersTyped

LEMMA HeadAndTail ==
  ASSUME NEW S, NEW seq \in Seq(S), seq # <<>>
  PROVE  Head(seq) \in S /\ Tail(seq) \in Seq(S)
OBVIOUS

LEMMA ServersTypedStep ==
  ASSUME ServersTyped, OrderIsTheTables, GivenWasStarted, OnlyWorkersWait, ServersNext
  PROVE  ServersTyped'
<1> USE ServersAssumption DEF ServersTyped, CallPlaces, NowDoing, servers, schedule,
           noted
<1>1. ASSUME NEW c \in Callers, Judge(c) PROVE ServersTyped'
  BY <1>1 DEF Judge
<1>2. ASSUME NEW c \in Callers, TakeSlot(c) PROVE ServersTyped'
  BY <1>2 DEF TakeSlot
<1>3. ASSUME NEW c \in Callers, TakeCard(c) PROVE ServersTyped'
  <2>1. c \in Workers
    BY <1>3 DEF TakeCard, OnlyWorkersWait
  <2> QED
    BY <1>3, <2>1 DEF TakeCard
<1>4. ASSUME NEW c \in Callers, TooLong(c) PROVE ServersTyped'
  BY <1>4 DEF TooLong
<1>5. ASSUME NEW c \in Callers, AskWarm(c) PROVE ServersTyped'
  <2>0. table[Wants[c]] \in Servers \cup {NoServer}
    OBVIOUS
  <2>1. mine' \in [Callers -> Servers \cup {NoServer}]
    <3>1. mine' = mine \/ mine' = [mine EXCEPT ![c] = table[Wants[c]]]
      BY <1>5 DEF AskWarm
    <3> QED
      BY <2>0, <3>1
  <2>2. doing' \in [Callers -> CallPlaces]
    BY <1>5 DEF AskWarm
  <2> QED
    BY <1>5, <2>1, <2>2 DEF AskWarm
<1>6. ASSUME NEW c \in Callers, AdmitModel(c) PROVE ServersTyped'
  <2>1. Others(c) \in Seq(ServedModels)
    BY WithoutTyped
  <2> QED
    BY <1>6, <2>1 DEF AdmitModel
<1>7. ASSUME NEW c \in Callers, Reclaim(c) PROVE ServersTyped'
  <2>1. /\ victims[c] \in Seq(ServedModels) /\ victims[c] # <<>>
        /\ victims' = [victims EXCEPT ![c] = Tail(@)]
    BY <1>7 DEF Reclaim
  <2>2. Head(victims[c]) \in ServedModels /\ Tail(victims[c]) \in Seq(ServedModels)
    BY <2>1, HeadAndTail
  <2>3. victims' \in [Callers -> Seq(ServedModels)]
    BY <2>1, <2>2
  <2> QED
    BY <1>7, <2>2, <2>3 DEF Reclaim, TakenOut
<1>8. ASSUME NEW c \in Callers, EndVictim(c) PROVE ServersTyped'
  BY <1>8 DEF EndVictim, Kill
<1>9. ASSUME NEW c \in Callers, Measure(c) PROVE ServersTyped'
  BY <1>9 DEF Measure
<1>10. ASSUME NEW c \in Callers, Spawn(c) PROVE ServersTyped'
  <2>0. Wants[c] \in ServedModels
    OBVIOUS
  <2>1. CASE Launch(c)
    <3>1. PICK t \in Servers : /\ state' = [state EXCEPT ![t] = "starting"]
                              /\ of' = [of EXCEPT ![t] = Wants[c]]
                              /\ table' = [table EXCEPT ![Wants[c]] = t]
                              /\ mine' = [mine EXCEPT ![c] = t]
                              /\ NowDoing(c, "given")
                              /\ UNCHANGED <<ready, card>>
      BY <2>1 DEF Launch
    <3> QED
      BY <1>10, <2>0, <3>1 DEF Spawn
  <2>2. CASE UNCHANGED <<servers, card>> /\ NowDoing(c, "given")
             /\ mine' = [mine EXCEPT ![c] = table[Wants[c]]]
    BY <1>10, <2>0, <2>2 DEF Spawn
  <2>3. CASE UNCHANGED <<servers, mine>> /\ NowDoing(c, "over") /\ card' = card \ {c}
    BY <1>10, <2>3 DEF Spawn
  <2> QED
    BY <1>10, <2>1, <2>2, <2>3 DEF Spawn
<1>11. ASSUME NEW c \in Callers, LookReady(c) PROVE ServersTyped'
  BY <1>11 DEF LookReady
<1>12. ASSUME NEW c \in Callers, Poll(c) PROVE ServersTyped'
  BY <1>12 DEF Poll
<1>13. ASSUME NEW c \in Callers, GiveUp(c) PROVE ServersTyped'
  BY <1>13 DEF GiveUp, TakenOut
<1>14. ASSUME NEW c \in Callers, EndIt(c) PROVE ServersTyped'
  BY <1>14 DEF EndIt, Kill
<1>15. ASSUME NEW c \in Callers, FailCall(c) PROVE ServersTyped'
  BY <1>15 DEF FailCall
<1>16. ASSUME NEW c \in Callers, Leave(c) PROVE ServersTyped'
  <2>1. mine[c] \in Servers
    BY <1>16 DEF Leave, GivenWasStarted, Given
  <2> QED
    BY <1>16, <2>1 DEF Leave
<1>17. ASSUME NEW s \in Servers, ComesUp(s) PROVE ServersTyped'
  BY <1>17 DEF ComesUp
<1>18. ASSUME NEW s \in Servers, Dies(s) PROVE ServersTyped'
  <2>1. deaths \in Nat
    OBVIOUS
  <2>2. deaths' = deaths + 1
    BY <1>18 DEF Dies
  <2>3. deaths' \in Nat
    <3> HIDE ServersAssumption DEF ServersTyped, CallPlaces, NowDoing
    <3> QED BY <2>1, <2>2
  <2> QED
    BY <1>18, <2>3 DEF Dies
<1> QED
  BY <1>1, <1>2, <1>3, <1>4, <1>5, <1>6, <1>7, <1>8, <1>9, <1>10, <1>11, <1>12,
     <1>13, <1>14, <1>15, <1>16, <1>17, <1>18
  DEF ServersNext, Does

LEMMA ListedServesStep ==
  ASSUME ServersTyped, ListedServes, ServersNext
  PROVE  ListedServes'
<1> USE ServersAssumption DEF ServersTyped, ListedServes, NoServer, Servers, servers,
           schedule, noted
<1>1. ASSUME NEW c \in Callers, Reclaim(c) PROVE ListedServes'
  BY <1>1 DEF Reclaim, TakenOut
<1>2. ASSUME NEW c \in Callers, EndVictim(c) PROVE ListedServes'
  BY <1>2 DEF EndVictim, Kill
<1>3. ASSUME NEW c \in Callers, Spawn(c) PROVE ListedServes'
  BY <1>3 DEF Spawn, Launch, Listed
<1>4. ASSUME NEW c \in Callers, GiveUp(c) PROVE ListedServes'
  BY <1>4 DEF GiveUp, TakenOut
<1>5. ASSUME NEW c \in Callers, EndIt(c) PROVE ListedServes'
  BY <1>5 DEF EndIt, Kill
<1>6. ASSUME NEW s \in Servers, ComesUp(s) PROVE ListedServes'
  BY <1>6 DEF ComesUp
<1>7. ASSUME NEW s \in Servers, Dies(s) PROVE ListedServes'
  BY <1>7 DEF Dies
<1>8. CASE UNCHANGED <<table, of, state>>
  BY <1>8
<1> QED
  BY <1>1, <1>2, <1>3, <1>4, <1>5, <1>6, <1>7, <1>8
  DEF ServersNext, Does, Judge, TakeSlot, TakeCard, TooLong, AskWarm, AdmitModel,
      Measure, LookReady, Poll, FailCall, Leave

LEMMA TakenOutIsEnded ==
  ASSUME ServersTyped, RunningIsListed, NEW c \in Callers, killing[c] = NoServer,
         NEW m \in ServedModels, TakenOut(c, m), UNCHANGED <<state, of>>
  PROVE  RunningIsListed'
<1> SUFFICES ASSUME NEW s \in Live
             PROVE  table'[of[s]] = s \/ \E d \in Callers : killing'[d] = s
  BY DEF RunningIsListed, Live
<1>1. s \in Servers /\ s # NoServer /\ of[s] \in ServedModels
  <2>1. s \in Servers
    BY DEF Live
  <2>2. MaxServers \in Nat
    BY ServersAssumption
  <2>3. \A n \in 1 .. MaxServers : n # 0
    BY <2>2
  <2>4. of[s] \in ServedModels
    BY <2>1 DEF ServersTyped
  <2> QED
    BY <2>1, <2>3, <2>4 DEF Servers, NoServer
<1>2. CASE table[of[s]] = s /\ of[s] = m
  BY <1>2 DEF TakenOut, ServersTyped
<1>3. CASE table[of[s]] = s /\ of[s] # m
  BY <1>1, <1>3 DEF TakenOut, ServersTyped
<1>4. CASE \E d \in Callers : killing[d] = s
  <2>1. PICK d \in Callers : killing[d] = s
    BY <1>4
  <2>2. killing'[d] = s
    BY <1>1, <2>1 DEF TakenOut, ServersTyped
  <2> QED
    BY <2>2
<1> QED
  BY <1>2, <1>3, <1>4 DEF RunningIsListed

LEMMA KilledHasEnded ==
  ASSUME ServersTyped, RunningIsListed, NEW c \in Callers, NEW place, Kill(c, place)
  PROVE  RunningIsListed'
<1> SUFFICES ASSUME NEW s \in Live'
             PROVE  table[of[s]] = s \/ \E d \in Callers : killing'[d] = s
  BY DEF RunningIsListed, Kill
<1>1. s \in Live /\ s \in Servers /\ s # NoServer /\ s # killing[c]
  BY ServersAssumption DEF Live, Servers, NoServer, ServersTyped, Kill
<1>2. ASSUME NEW d \in Callers, killing[d] = s PROVE killing'[d] = s
  BY <1>1, <1>2 DEF Kill, ServersTyped
<1> QED
  BY <1>1, <1>2 DEF RunningIsListed

LEMMA LaunchedIsListed ==
  ASSUME ServersTyped, RunningIsListed, NEW c \in Callers, ~Listed(Wants[c]), Launch(c),
         UNCHANGED killing
  PROVE  RunningIsListed'
<1>1. PICK t \in Servers : /\ state' = [state EXCEPT ![t] = "starting"]
                          /\ of' = [of EXCEPT ![t] = Wants[c]]
                          /\ table' = [table EXCEPT ![Wants[c]] = t]
  BY DEF Launch
<1>2. Wants[c] \in ServedModels /\ table[Wants[c]] = NoServer
  BY ServersAssumption DEF Listed
<1> SUFFICES ASSUME NEW s \in Live'
             PROVE  table'[of'[s]] = s \/ \E d \in Callers : killing'[d] = s
  BY DEF RunningIsListed
<1>3. CASE s = t
  BY <1>1, <1>2, <1>3 DEF ServersTyped
<1>4. CASE s # t
  <2>1. s \in Live /\ s \in Servers /\ s # NoServer /\ of'[s] = of[s] /\ of[s] \in ServedModels
    BY <1>1, <1>4, ServersAssumption DEF Live, Servers, NoServer, ServersTyped
  <2>2. CASE table[of[s]] = s
    BY <1>1, <1>2, <2>1, <2>2 DEF ServersTyped
  <2>3. CASE \E d \in Callers : killing[d] = s
    BY <2>3
  <2> QED
    BY <2>1, <2>2, <2>3 DEF RunningIsListed
<1> QED
  BY <1>3, <1>4

LEMMA RunningIsListedStep ==
  ASSUME ServersTyped, KillingIsBrief, RunningIsListed, ServersNext
  PROVE  RunningIsListed'
<1>1. ASSUME NEW c \in Callers, Reclaim(c) PROVE RunningIsListed'
  <2>1. Head(victims[c]) \in ServedModels
    BY <1>1 DEF Reclaim, ServersTyped
  <2> QED
    BY <1>1, <2>1, TakenOutIsEnded DEF Reclaim, KillingIsBrief
<1>2. ASSUME NEW c \in Callers, GiveUp(c) PROVE RunningIsListed'
  <2>1. Wants[c] \in ServedModels
    BY ServersAssumption
  <2> QED
    BY <1>2, <2>1, TakenOutIsEnded DEF GiveUp, KillingIsBrief
<1>3. ASSUME NEW c \in Callers, EndVictim(c) \/ EndIt(c) PROVE RunningIsListed'
  BY <1>3, KilledHasEnded DEF EndVictim, EndIt
<1>4. ASSUME NEW s \in Servers, ComesUp(s) \/ Dies(s) PROVE RunningIsListed'
  <2>1. Live' \subseteq Live /\ UNCHANGED <<table, of, killing>>
    BY <1>4 DEF ComesUp, Dies, Live, ServersTyped
  <2> QED
    BY <2>1 DEF RunningIsListed
<1>5. CASE UNCHANGED <<table, of, state, killing>>
  BY <1>5 DEF RunningIsListed, Live
<1>6. ASSUME NEW c \in Callers, Spawn(c) PROVE RunningIsListed'
  BY <1>5, <1>6, LaunchedIsListed DEF Spawn, servers
<1> QED
  BY <1>1, <1>2, <1>3, <1>4, <1>5, <1>6
  DEF ServersNext, Does, Judge, TakeSlot, TakeCard, TooLong, AskWarm, AdmitModel,
      Measure, LookReady, Poll, FailCall, Leave, servers

LEMMA KillingIsBriefStep ==
  ASSUME ServersTyped, KillingIsBrief, ServersNext
  PROVE  KillingIsBrief'
<1> USE ServersAssumption DEF ServersTyped, KillingIsBrief, NowDoing, servers,
           schedule, noted
<1>1. ASSUME NEW c \in Callers, Judge(c) PROVE KillingIsBrief'
  BY <1>1 DEF Judge
<1>2. ASSUME NEW c \in Callers, TakeSlot(c) PROVE KillingIsBrief'
  BY <1>2 DEF TakeSlot
<1>3. ASSUME NEW c \in Callers, TakeCard(c) PROVE KillingIsBrief'
  BY <1>3 DEF TakeCard
<1>4. ASSUME NEW c \in Callers, TooLong(c) PROVE KillingIsBrief'
  BY <1>4 DEF TooLong
<1>5. ASSUME NEW c \in Callers, AskWarm(c) PROVE KillingIsBrief'
  BY <1>5 DEF AskWarm
<1>6. ASSUME NEW c \in Callers, AdmitModel(c) PROVE KillingIsBrief'
  BY <1>6 DEF AdmitModel
<1>7. ASSUME NEW c \in Callers, Reclaim(c) PROVE KillingIsBrief'
  BY <1>7 DEF Reclaim, TakenOut
<1>8. ASSUME NEW c \in Callers, EndVictim(c) PROVE KillingIsBrief'
  BY <1>8 DEF EndVictim, Kill
<1>9. ASSUME NEW c \in Callers, Measure(c) PROVE KillingIsBrief'
  BY <1>9 DEF Measure
<1>10. ASSUME NEW c \in Callers, Spawn(c) PROVE KillingIsBrief'
  BY <1>10 DEF Spawn, Launch
<1>11. ASSUME NEW c \in Callers, LookReady(c) PROVE KillingIsBrief'
  BY <1>11 DEF LookReady
<1>12. ASSUME NEW c \in Callers, Poll(c) PROVE KillingIsBrief'
  BY <1>12 DEF Poll
<1>13. ASSUME NEW c \in Callers, GiveUp(c) PROVE KillingIsBrief'
  BY <1>13 DEF GiveUp, TakenOut
<1>14. ASSUME NEW c \in Callers, EndIt(c) PROVE KillingIsBrief'
  BY <1>14 DEF EndIt, Kill
<1>15. ASSUME NEW c \in Callers, FailCall(c) PROVE KillingIsBrief'
  BY <1>15 DEF FailCall
<1>16. ASSUME NEW c \in Callers, Leave(c) PROVE KillingIsBrief'
  BY <1>16 DEF Leave
<1>17. CASE UNCHANGED <<doing, killing>>
  BY <1>17
<1> QED
  BY <1>1, <1>2, <1>3, <1>4, <1>5, <1>6, <1>7, <1>8, <1>9, <1>10, <1>11, <1>12,
     <1>13, <1>14, <1>15, <1>16, <1>17
  DEF ServersNext, Does, ComesUp, Dies

(* A server that has started stays one, and its flag stays up. *)
StartedStays ==
  \A s \in Servers : /\ state[s] # "unused" => state'[s] # "unused"
                     /\ ready[s] => ready'[s]

LEMMA StartedStaysStep ==
  ASSUME ServersTyped, ServersNext
  PROVE  StartedStays
<1> USE DEF ServersTyped, StartedStays, servers
<1>1. ASSUME NEW c \in Callers, Spawn(c) PROVE StartedStays
  <2>1. UNCHANGED ready
    BY <1>1 DEF Spawn, Launch
  <2>2. \/ UNCHANGED state
        \/ \E t \in Servers : state' = [state EXCEPT ![t] = "starting"]
    BY <1>1 DEF Spawn, Launch
  <2> QED
    BY <2>1, <2>2
<1>2. ASSUME NEW c \in Callers, Poll(c) PROVE StartedStays
  BY <1>2 DEF Poll
<1>3. ASSUME NEW c \in Callers, EndVictim(c) \/ EndIt(c) PROVE StartedStays
  BY <1>3 DEF EndVictim, EndIt, Kill
<1>4. ASSUME NEW s \in Servers, ComesUp(s) \/ Dies(s) PROVE StartedStays
  BY <1>4 DEF ComesUp, Dies
<1>5. CASE UNCHANGED <<state, ready>>
  BY <1>5
<1> QED
  BY <1>1, <1>2, <1>3, <1>4, <1>5
  DEF ServersNext, Does, Judge, TakeSlot, TakeCard, TooLong, AskWarm, AdmitModel,
      Measure, Reclaim, LookReady, GiveUp, FailCall, Leave

LEMMA ReadyWasUp ==
  ASSUME ServersTyped, GivenWasStarted, ServersNext
  PROVE  \A s \in Servers : ready'[s] => state'[s] \in {"up", "ended"}
<1> DEFINE Good == \A s \in Servers : ready'[s] => state'[s] \in {"up", "ended"}
<1> USE DEF ServersTyped, GivenWasStarted, servers
<1>1. ASSUME NEW c \in Callers, Spawn(c) PROVE Good
  <2>1. UNCHANGED ready
    BY <1>1 DEF Spawn, Launch
  <2>2. \/ UNCHANGED state
        \/ \E t \in Servers : state[t] = "unused" /\ state' = [state EXCEPT ![t] = "starting"]
    BY <1>1 DEF Spawn, Launch
  <2> QED
    BY <2>1, <2>2
<1>2. ASSUME NEW c \in Callers, Poll(c) PROVE Good
  BY <1>2 DEF Poll
<1>3. ASSUME NEW c \in Callers, EndVictim(c) \/ EndIt(c) PROVE Good
  BY <1>3 DEF EndVictim, EndIt, Kill
<1>4. ASSUME NEW s \in Servers, ComesUp(s) \/ Dies(s) PROVE Good
  BY <1>4 DEF ComesUp, Dies
<1>5. CASE UNCHANGED <<state, ready>>
  BY <1>5
<1> QED
  BY <1>1, <1>2, <1>3, <1>4, <1>5
  DEF ServersNext, Does, Judge, TakeSlot, TakeCard, TooLong, AskWarm, AdmitModel,
      Measure, Reclaim, LookReady, GiveUp, FailCall, Leave

(* What a caller was given, and that it uses only what is ready.           *)
CallerHas(c) ==
  /\ doing[c] \in Given => mine[c] # NoServer /\ state[mine[c]] # "unused"
  /\ doing[c] = "using" => ready[mine[c]]

LEMMA OthersKeepWhatTheyHave ==
  ASSUME ServersTyped, StartedStays, NEW d \in Callers, CallerHas(d),
         mine'[d] = mine[d],
         doing'[d] \in Given => doing[d] \in Given,
         doing'[d] = "using" => doing[d] = "using" \/ ready'[mine[d]]
  PROVE  CallerHas(d)'
<1>1. mine[d] # NoServer => mine[d] \in Servers
  BY DEF ServersTyped
<1> QED
  BY <1>1 DEF CallerHas, StartedStays, Given

LEMMA HasWhatItWasGiven ==
  ASSUME ServersTyped, ListedServes, StartedStays, ServersNext, NEW d \in Callers,
     CallerHas(d)
  PROVE  CallerHas(d)'
<1> USE ServersAssumption DEF ServersTyped, NowDoing, Given
<1>1. CASE UNCHANGED <<doing, mine>>
  BY <1>1, OthersKeepWhatTheyHave
<1>2. ASSUME NEW c \in Callers, UNCHANGED mine, NEW place, NowDoing(c, place),
             place \in Given => doing[c] \in Given,
             place = "using" => ready'[mine[c]]
      PROVE  CallerHas(d)'
  BY <1>2, OthersKeepWhatTheyHave
<1>3. ASSUME NEW c \in Callers, NEW m \in ServedModels, Listed(m), NEW place \in {"given", "using"},
             mine' = [mine EXCEPT ![c] = table[m]], NowDoing(c, place),
             place = "using" => ready[table[m]], UNCHANGED <<state, ready>>
      PROVE  CallerHas(d)'
  <2>1. CASE d = c
    BY <1>3, <2>1 DEF CallerHas, Listed, ListedServes
  <2>2. CASE d # c
    BY <1>3, <2>2, OthersKeepWhatTheyHave
  <2> QED
    BY <2>1, <2>2
<1>4. ASSUME NEW c \in Callers, Launch(c) PROVE CallerHas(d)'
  <2>1. PICK t \in Servers : /\ state' = [state EXCEPT ![t] = "starting"]
                            /\ mine' = [mine EXCEPT ![c] = t] /\ NowDoing(c, "given")
    BY <1>4 DEF Launch
  <2>2. CASE d = c
    <3>1. mine'[d] = t /\ state'[t] = "starting" /\ t # NoServer /\ doing'[d] = "given"
      BY <2>1, <2>2 DEF Servers, NoServer
    <3> QED
      BY <3>1 DEF CallerHas
  <2>3. CASE d # c
    BY <2>1, <2>3, OthersKeepWhatTheyHave
  <2> QED
    BY <2>2, <2>3
<1>5. ASSUME NEW c \in Callers, AskWarm(c) PROVE CallerHas(d)'
  BY <1>2, <1>3, <1>5 DEF AskWarm, Warm
<1>6. ASSUME NEW c \in Callers, Spawn(c) PROVE CallerHas(d)'
  BY <1>2, <1>3, <1>4, <1>6 DEF Spawn, servers
<1>7. ASSUME NEW c \in Callers, Poll(c) PROVE CallerHas(d)'
  <2>1. CASE d = c
    BY <1>7, <2>1 DEF Poll, CallerHas
  <2>2. CASE d # c
    BY <1>7, <2>2, OthersKeepWhatTheyHave DEF Poll
  <2> QED
    BY <2>1, <2>2
<1>8. ASSUME NEW c \in Callers, LookReady(c) PROVE CallerHas(d)'
  BY <1>2, <1>8 DEF LookReady, IsReady, servers
<1>9. ASSUME NEW c \in Callers,
             \/ Judge(c) \/ TakeSlot(c) \/ TakeCard(c) \/ TooLong(c)
             \/ AdmitModel(c) \/ Reclaim(c) \/ Measure(c)
      PROVE  CallerHas(d)'
  BY <1>2, <1>9
  DEF Judge, TakeSlot, TakeCard, TooLong, AdmitModel, Reclaim, Measure
<1>10. ASSUME NEW c \in Callers,
              EndVictim(c) \/ GiveUp(c) \/ EndIt(c) \/ FailCall(c) \/ Leave(c)
       PROVE  CallerHas(d)'
  BY <1>2, <1>10 DEF EndVictim, GiveUp, EndIt, Kill, FailCall, Leave
<1> QED
  BY <1>1, <1>5, <1>6, <1>7, <1>8, <1>9, <1>10 DEF ServersNext, Does, ComesUp, Dies

LEMMA GivenWasStartedStep ==
  ASSUME ServersTyped, ListedServes, GivenWasStarted, ServersNext
  PROVE  GivenWasStarted'
<1>1. \A d \in Callers : CallerHas(d)
  BY DEF GivenWasStarted, CallerHas
<1>2. \A d \in Callers : CallerHas(d)'
  BY <1>1, StartedStaysStep, HasWhatItWasGiven
<1> QED
  BY <1>2, ReadyWasUp DEF GivenWasStarted, CallerHas

LEMMA CardIsHeldStep ==
  ASSUME ServersTyped, CardIsHeld, ServersNext
  PROVE  CardIsHeld'
<1> USE ServersAssumption DEF ServersTyped, CardIsHeld, NowDoing, servers, schedule,
           noted
<1>1. ASSUME NEW c \in Callers, Judge(c) PROVE CardIsHeld'
  BY <1>1 DEF Judge
<1>2. ASSUME NEW c \in Callers, TakeSlot(c) PROVE CardIsHeld'
  BY <1>2 DEF TakeSlot
<1>3. ASSUME NEW c \in Callers, TakeCard(c) PROVE CardIsHeld'
  BY <1>3 DEF TakeCard
<1>4. ASSUME NEW c \in Callers, TooLong(c) PROVE CardIsHeld'
  BY <1>4 DEF TooLong
<1>5. ASSUME NEW c \in Callers, AskWarm(c) PROVE CardIsHeld'
  BY <1>5 DEF AskWarm
<1>6. ASSUME NEW c \in Callers, AdmitModel(c) PROVE CardIsHeld'
  BY <1>6 DEF AdmitModel
<1>7. ASSUME NEW c \in Callers, Reclaim(c) PROVE CardIsHeld'
  BY <1>7 DEF Reclaim, TakenOut
<1>8. ASSUME NEW c \in Callers, EndVictim(c) PROVE CardIsHeld'
  BY <1>8 DEF EndVictim, Kill
<1>9. ASSUME NEW c \in Callers, Measure(c) PROVE CardIsHeld'
  BY <1>9 DEF Measure
<1>10. ASSUME NEW c \in Callers, Spawn(c) PROVE CardIsHeld'
  BY <1>10 DEF Spawn, Launch
<1>11. ASSUME NEW c \in Callers, LookReady(c) PROVE CardIsHeld'
  BY <1>11 DEF LookReady
<1>12. ASSUME NEW c \in Callers, Poll(c) PROVE CardIsHeld'
  BY <1>12 DEF Poll
<1>13. ASSUME NEW c \in Callers, GiveUp(c) PROVE CardIsHeld'
  BY <1>13 DEF GiveUp, TakenOut
<1>14. ASSUME NEW c \in Callers, EndIt(c) PROVE CardIsHeld'
  BY <1>14 DEF EndIt, Kill
<1>15. ASSUME NEW c \in Callers, FailCall(c) PROVE CardIsHeld'
  BY <1>15 DEF FailCall
<1>16. ASSUME NEW c \in Callers, Leave(c) PROVE CardIsHeld'
  BY <1>16 DEF Leave
<1>17. CASE UNCHANGED <<residency, doing, card>>
  BY <1>17
<1> QED
  BY <1>1, <1>2, <1>3, <1>4, <1>5, <1>6, <1>7, <1>8, <1>9, <1>10, <1>11, <1>12,
     <1>13, <1>14, <1>15, <1>16, <1>17
  DEF ServersNext, Does, ComesUp, Dies

LEMMA OnlyWorkersWaitStep ==
  ASSUME ServersTyped, OnlyWorkersWait, ServersNext
  PROVE  OnlyWorkersWait'
<1> USE ServersAssumption DEF ServersTyped, OnlyWorkersWait, NowDoing, servers,
           schedule, noted
<1>1. ASSUME NEW c \in Callers, Judge(c) PROVE OnlyWorkersWait'
  BY <1>1 DEF Judge
<1>2. ASSUME NEW c \in Callers, TakeSlot(c) PROVE OnlyWorkersWait'
  BY <1>2 DEF TakeSlot
<1>3. ASSUME NEW c \in Callers, TakeCard(c) PROVE OnlyWorkersWait'
  BY <1>3 DEF TakeCard
<1>4. ASSUME NEW c \in Callers, TooLong(c) PROVE OnlyWorkersWait'
  BY <1>4 DEF TooLong
<1>5. ASSUME NEW c \in Callers, AskWarm(c) PROVE OnlyWorkersWait'
  BY <1>5 DEF AskWarm
<1>6. ASSUME NEW c \in Callers, AdmitModel(c) PROVE OnlyWorkersWait'
  BY <1>6 DEF AdmitModel
<1>7. ASSUME NEW c \in Callers, Reclaim(c) PROVE OnlyWorkersWait'
  BY <1>7 DEF Reclaim, TakenOut
<1>8. ASSUME NEW c \in Callers, EndVictim(c) PROVE OnlyWorkersWait'
  BY <1>8 DEF EndVictim, Kill
<1>9. ASSUME NEW c \in Callers, Measure(c) PROVE OnlyWorkersWait'
  BY <1>9 DEF Measure
<1>10. ASSUME NEW c \in Callers, Spawn(c) PROVE OnlyWorkersWait'
  BY <1>10 DEF Spawn, Launch
<1>11. ASSUME NEW c \in Callers, LookReady(c) PROVE OnlyWorkersWait'
  BY <1>11 DEF LookReady
<1>12. ASSUME NEW c \in Callers, Poll(c) PROVE OnlyWorkersWait'
  BY <1>12 DEF Poll
<1>13. ASSUME NEW c \in Callers, GiveUp(c) PROVE OnlyWorkersWait'
  BY <1>13 DEF GiveUp, TakenOut
<1>14. ASSUME NEW c \in Callers, EndIt(c) PROVE OnlyWorkersWait'
  BY <1>14 DEF EndIt, Kill
<1>15. ASSUME NEW c \in Callers, FailCall(c) PROVE OnlyWorkersWait'
  BY <1>15 DEF FailCall
<1>16. ASSUME NEW c \in Callers, Leave(c) PROVE OnlyWorkersWait'
  BY <1>16 DEF Leave
<1>17. CASE UNCHANGED <<doing>>
  BY <1>17
<1> QED
  BY <1>1, <1>2, <1>3, <1>4, <1>5, <1>6, <1>7, <1>8, <1>9, <1>10, <1>11, <1>12,
     <1>13, <1>14, <1>15, <1>16, <1>17
  DEF ServersNext, Does, ComesUp, Dies

LEMMA ElementsAre ==
  ASSUME NEW S, NEW seq \in Seq(S)
  PROVE  {seq[i] : i \in DOMAIN seq} = Elements(seq)
BY DEF Elements

LEMMA TypedWithOrder ==
  ASSUME ServersTyped, OrderIsTheTables
  PROVE  ServersTypeOK
<1>1. {order[i] : i \in DOMAIN order} = Listing
  BY ElementsAre DEF OrderIsTheTables
<1> QED
  BY <1>1 DEF ServersTypeOK, ServersTyped, OrderIsTheTables, Listing

LEMMA ServersInvariantInit == ServersInit => ServersInvariant
<1> SUFFICES ASSUME ServersInit PROVE ServersInvariant
  OBVIOUS
<1> USE ServersAssumption DEF ServersInit
<1>1. ServersTyped
  BY DEF ServersTyped, CallPlaces, NoServer
<1>2. OrderIsTheTables
  BY DEF OrderIsTheTables, Strict, Elements, Listing, NoServer
<1>3. ListedServes /\ RunningIsListed /\ KillingIsBrief
  BY DEF ListedServes, RunningIsListed, KillingIsBrief, Live
<1>4. GivenWasStarted /\ CardIsHeld /\ OnlyWorkersWait
  BY DEF GivenWasStarted, CardIsHeld, OnlyWorkersWait, Given
<1>5. ServersTypeOK
  BY <1>1, <1>2, TypedWithOrder
<1> QED
  BY <1>2, <1>3, <1>4, <1>5 DEF ServersInvariant

LEMMA ServersInvariantStep == ServersInvariant /\ [ServersNext]_serversVars => ServersInvariant'
<1> SUFFICES ASSUME ServersInvariant, [ServersNext]_serversVars PROVE ServersInvariant'
  OBVIOUS
<1>0. ServersTyped
  BY DEF ServersInvariant, ServersTypeOK, ServersTyped
<1>1. CASE ServersNext
  <2>1. ServersTyped'
    BY <1>0, <1>1, ServersTypedStep DEF ServersInvariant
  <2>2. OrderIsTheTables'
    BY <1>0, <1>1, OrderStep DEF ServersInvariant
  <2>3. ServersTypeOK'
    <3>1. {order'[i] : i \in DOMAIN order'} = Listing'
      BY <2>2, ElementsAre DEF OrderIsTheTables
    <3> QED
      BY <2>1, <2>2, <3>1 DEF ServersTypeOK, ServersTyped, OrderIsTheTables, Listing
  <2>4. ListedServes' /\ RunningIsListed' /\ KillingIsBrief'
    BY <1>0, <1>1, ListedServesStep, RunningIsListedStep, KillingIsBriefStep
    DEF ServersInvariant
  <2>5. GivenWasStarted' /\ CardIsHeld' /\ OnlyWorkersWait'
    BY <1>0, <1>1, GivenWasStartedStep, CardIsHeldStep, OnlyWorkersWaitStep
    DEF ServersInvariant
  <2> QED
    BY <2>2, <2>3, <2>4, <2>5 DEF ServersInvariant
<1>2. CASE UNCHANGED serversVars
  <2> USE <1>2 DEF serversVars, servers, schedule, noted
  <2>0. /\ table' = table /\ state' = state /\ of' = of /\ ready' = ready /\ order' = order
        /\ doing' = doing /\ mine' = mine /\ victims' = victims /\ killing' = killing
        /\ residency' = residency /\ card' = card /\ handed' = handed
        /\ foundDead' = foundDead /\ deaths' = deaths
    OBVIOUS
  <2>1. OrderIsTheTables'
    <3>1. Listing' = Listing /\ Strict(order') /\ Elements(order') = Elements(order)
          /\ Strict(handed')
      BY <2>0 DEF Listing, ServersInvariant, OrderIsTheTables
    <3> QED
      BY <2>0, <3>1 DEF OrderIsTheTables, ServersInvariant
  <2>2. ServersTypeOK'
    <3>1. {order'[i] : i \in DOMAIN order'} = Listing'
      BY <2>1, ElementsAre DEF OrderIsTheTables
    <3>2. ServersTyped'
      BY <1>0, <2>0 DEF ServersTyped
    <3> QED
      BY <2>1, <3>1, <3>2 DEF ServersTypeOK, ServersTyped, OrderIsTheTables, Listing
  <2> USE DEF ServersInvariant
  <2>3. ListedServes' /\ RunningIsListed' /\ KillingIsBrief'
    BY DEF ListedServes, RunningIsListed, KillingIsBrief, Live
  <2>4. GivenWasStarted' /\ CardIsHeld' /\ OnlyWorkersWait'
    BY DEF GivenWasStarted, CardIsHeld, OnlyWorkersWait
  <2> QED
    BY <2>1, <2>2, <2>3, <2>4
<1> QED
  BY <1>1, <1>2

LEMMA ServersInvariantHolds == ServersSpec => []ServersInvariant
BY ServersInvariantInit, ServersInvariantStep, PTL DEF ServersSpec

LEMMA HandedOutWasReady ==
  ASSUME ServersInvariant
  PROVE  HandedOutAnswered
<1> SUFFICES ASSUME NEW c \in Callers, doing[c] = "using"
             PROVE  ready[mine[c]] /\ state[mine[c]] \in {"up", "ended"}
  BY DEF HandedOutAnswered
<1>1. mine[c] \in Servers
  BY DEF ServersInvariant, ServersTypeOK, GivenWasStarted, Given
<1> QED
  BY <1>1 DEF ServersInvariant, GivenWasStarted

(* Any callers may want, start, stop and use any models' servers at once:  *)
(* every process that runs is in the table or is being ended, the order    *)
(* kept for reclaiming is of the table, and what is used has answered.     *)
THEOREM ServersAccounted == ServersSpec => []ServersAreAccountedFor
<1>1. ServersInvariant => ServersAreAccountedFor
  BY HandedOutWasReady DEF ServersInvariant, ServersAreAccountedFor
<1> QED
  BY <1>1, ServersInvariantHolds, PTL

TakenInTurn ==
  \A c, d \in Workers :
    /\ c # d /\ residency[c] = "serialise" /\ residency[d] = "serialise"
    /\ doing[c] = "using" /\ killing'[d] = mine[c]
    => killing[d] = mine[c]

LEMMA TurnsAreTaken == ServersInvariant /\ [ServersNext]_serversVars => TakenInTurn
<1> SUFFICES ASSUME ServersInvariant, [ServersNext]_serversVars, NEW c \in Workers,
                    NEW d \in Workers, c # d, residency[c] = "serialise",
                    residency[d] = "serialise", doing[c] = "using", killing'[d] = mine[c]
             PROVE  killing[d] = mine[c]
  BY DEF TakenInTurn
<1> USE ServersAssumption
<1>1. mine[c] # NoServer /\ c \in Callers /\ d \in Callers
  BY DEF ServersInvariant, GivenWasStarted, Given
<1>2. doing[d] \notin {"reclaiming", "giving up"}
  BY <1>1 DEF ServersInvariant, CardIsHeld
<1>3. killing \in [Callers -> Servers \cup {NoServer}]
  BY DEF ServersInvariant, ServersTypeOK
<1>4. CASE killing'[d] = killing[d]
  BY <1>4
<1>5. ASSUME NEW e \in Callers, Reclaim(e) \/ GiveUp(e) PROVE killing'[d] = killing[d]
  BY <1>2, <1>3, <1>5 DEF Reclaim, GiveUp, TakenOut
<1>6. ASSUME NEW e \in Callers, EndVictim(e) \/ EndIt(e) PROVE killing'[d] = killing[d]
  BY <1>1, <1>3, <1>6 DEF EndVictim, EndIt, Kill
<1>7. CASE UNCHANGED killing
  BY <1>7
<1> QED
  BY <1>4, <1>5, <1>6, <1>7
  DEF ServersNext, Does, Judge, TakeSlot, TakeCard, TooLong, AskWarm, AdmitModel, Measure,
      Spawn, LookReady, Poll, FailCall, Leave, ComesUp, Dies, serversVars

(* Two workers that both have to have the card never have it together, so  *)
(* neither stops the other's server to make room for its own.              *)
THEOREM TurnsOnTheCard == ServersSpec => CardHoldersTakeTurns
<1>1. [ServersNext]_serversVars /\ ServersInvariant => [TakenInTurn]_serversVars
  BY TurnsAreTaken
<1>2. TakenInTurn <=>
      \A c, d \in Workers :
        /\ c # d /\ residency[c] = "serialise" /\ residency[d] = "serialise"
        /\ doing[c] = "using" /\ killing'[d] = mine[c]
        => killing[d] = mine[c]
  BY DEF TakenInTurn
<1> QED
  BY <1>1, <1>2, ServersInvariantHolds, PTL DEF ServersSpec, CardHoldersTakeTurns

-----------------------------------------------------------------------------
(* ModelHandoff.                                                           *)

Records ==
  [id : Moves \cup {None}, phase : Phases \cup {None}, from : Models \cup {None},
   version : Nat, seen : Nat, released : BOOLEAN]
Rows == [phase : Phases \cup {None}, from : Models \cup {None}, version : Nat]

HandoffTyped ==
  /\ held \in Definitions /\ stored \in Definitions
  /\ ledger \in [Moves -> Rows]
  /\ pc \in [Commands -> Places]
  /\ record \in [Commands -> Records]
  /\ warm \subseteq Models
  /\ run \in {"boundary", "round", "waiting"}
  /\ seed \in Models \cup {None} /\ resume \in Models
  /\ newest \in Moves \cup {None} /\ bound \subseteq Models
  /\ edits \in Nat /\ crashes \in Nat /\ badWrites \in Nat /\ badSaves \in Nat
  /\ torn \in BOOLEAN /\ crossed \subseteq Commands

AtRest == {"idle", "over"}

(* A command under way has the record of a row, only a move drives it, and one
   that has committed is on its target in the registry's file.             *)
Whole(c, place, r, named) ==
  /\ place \notin AtRest \cup {"to sweep"} =>
       r.id \in Moves /\ r.from \in Models /\ r.phase # None
  /\ place \notin AtRest \cup {"to sweep", "saving"} => c \in Moves
  /\ place = "moving" => Target[c] \in named

CommandsAreWhole == \A c \in Commands : Whole(c, pc[c], record[c], bound)

RowsAreWhole == \A id \in Moves : ledger[id].phase # None => ledger[id].from \in Models

NamedIsBound ==
  /\ held.model \in Models
  /\ seed \in bound \cup {None} /\ resume \in bound

HandoffBase == HandoffTyped /\ CommandsAreWhole /\ RowsAreWhole /\ NamedIsBound

(* One command comes to a place with a record.                             *)
Steps(c, place, r) ==
  /\ r \in Records /\ place \in Places
  /\ pc' \in [Commands -> Places] /\ record' \in [Commands -> Records]
  /\ pc'[c] = place /\ record'[c] = r
  /\ \A d \in Commands \ {c} : pc'[d] = pc[d] /\ record'[d] = record[d]

LEMMA StepsIs ==
  ASSUME HandoffTyped, NEW c \in Commands, NEW place \in Places, NEW r \in Records,
         pc' = [pc EXCEPT ![c] = place], record' = [record EXCEPT ![c] = r]
  PROVE  Steps(c, place, r)
BY DEF HandoffTyped, Steps

LEMMA StaysIs ==
  ASSUME HandoffTyped, NEW c \in Commands, NEW place \in Places,
         pc' = [pc EXCEPT ![c] = place], UNCHANGED record
  PROVE  Steps(c, place, record[c])
BY DEF HandoffTyped, Steps

InPhase(r, phase) == [r EXCEPT !.phase = phase]

LEMMA InPhaseIs ==
  ASSUME NEW r \in Records, NEW phase \in Phases
  PROVE  /\ InPhase(r, phase) \in Records /\ InPhase(r, phase).phase = phase
         /\ InPhase(r, phase).id = r.id /\ InPhase(r, phase).from = r.from
         /\ InPhase(r, phase).version = r.version /\ InPhase(r, phase).seen = r.seen
         /\ InPhase(r, phase).released = r.released
BY DEF InPhase, Records

LEMMA PhaseIs ==
  ASSUME HandoffTyped, NEW c \in Commands, NEW place \in Places, NEW phase \in Phases,
         Goto(c, place), Phase(c, phase)
  PROVE  Steps(c, place, InPhase(record[c], phase))
<1>1. record[c] \in Records
  BY DEF HandoffTyped
<1>2. record' = [record EXCEPT ![c] = InPhase(record[c], phase)]
  BY DEF Phase, InPhase
<1> QED
  BY <1>1, <1>2, InPhaseIs, StepsIs DEF Goto

LEMMA PhaseInPlace ==
  ASSUME HandoffTyped, NEW c \in Commands, NEW phase \in Phases, UNCHANGED pc, Phase(c, phase)
  PROVE  Steps(c, pc[c], InPhase(record[c], phase))
<1>1. record[c] \in Records /\ pc[c] \in Places
  BY DEF HandoffTyped
<1>2. record' = [record EXCEPT ![c] = InPhase(record[c], phase)] /\ pc' = [pc EXCEPT ![c] = pc[c]]
  BY DEF Phase, InPhase, HandoffTyped
<1> QED
  BY <1>1, <1>2, InPhaseIs, StepsIs

LEMMA FailIs ==
  ASSUME HandoffTyped, NEW c \in Commands, Fail(c)
  PROVE  \/ /\ MayHaveReleased(record[c].phase) /\ Steps(c, "undoing", record[c])
         \/ /\ ~MayHaveReleased(record[c].phase)
            /\ Steps(c, "saving", InPhase(record[c], "failed"))
<1>1. "undoing" \in Places /\ "saving" \in Places /\ "failed" \in Phases
  BY DEF Places, Phases, Terminal
<1> QED
  BY <1>1, PhaseIs, StaysIs DEF Fail, Goto

LEMMA NoRecordIs ==
  NoRecord \in Records /\ NoRecord.phase = None /\ NoRecord.released = FALSE
BY DEF NoRecord, Records

(* A record read from a row, and one of a move that begins.                *)
Filled(id, phase, from, version) ==
  [NoRecord EXCEPT !.id = id, !.phase = phase, !.from = from, !.version = version]

Tells(r, id, phase, from) ==
  /\ r \in Records /\ r.id = id /\ r.phase = phase /\ r.from = from
  /\ r.released = FALSE

LEMMA FilledIs ==
  ASSUME NEW id \in Moves, NEW phase \in Phases \cup {None},
         NEW from \in Models \cup {None}, NEW version \in Nat
  PROVE  Tells(Filled(id, phase, from, version), id, phase, from)
<1>1. NoRecord \in Records /\ NoRecord.released = FALSE
  BY NoRecordIs
<1> QED
  BY <1>1 DEF Tells, Filled, Records

LEMMA ReadIs ==
  ASSUME HandoffTyped, NEW id \in Moves
  PROVE  /\ Read(id) \in Records /\ Read(id).id = id /\ Read(id).phase = ledger[id].phase
         /\ Read(id).from = ledger[id].from /\ Read(id).released = FALSE
<1>1. /\ ledger[id].phase \in Phases \cup {None} /\ ledger[id].from \in Models \cup {None}
      /\ ledger[id].version \in Nat
  BY DEF HandoffTyped, Rows
<1>2. Read(id) = Filled(id, ledger[id].phase, ledger[id].from, ledger[id].version)
  BY DEF Read, Filled
<1>3. Tells(Read(id), id, ledger[id].phase, ledger[id].from)
  BY <1>1, <1>2, FilledIs
<1> QED
  BY <1>3 DEF Tells

(* What a command's step does to its record.                               *)

LEMMA BeginGoes ==
  ASSUME HandoffTyped, NEW c \in Commands, Begin(c)
  PROVE  \E r \in Records : /\ Steps(c, "looking", r) /\ r.id = c /\ r.phase = "requested"
                            /\ r.from = held.model /\ c \in Moves
<1> DEFINE r == Filled(c, "requested", held.model, held.version)
<1>1. record' = [record EXCEPT ![c] = r] /\ c \in Moves
  BY DEF Begin, Filled
<1>2. held.model \in Models /\ held.version \in Nat /\ "requested" \in Phases
  BY DEF HandoffTyped, Definitions, Phases, Early
<1>3. r \in Records /\ r.id = c /\ r.phase = "requested" /\ r.from = held.model
  <2>1. Tells(r, c, "requested", held.model)
    BY <1>1, <1>2, FilledIs
  <2> HIDE DEF r
  <2> QED
    BY <2>1 DEF Tells
<1>4. "looking" \in Places
  BY DEF Places
<1> HIDE DEF r
<1> QED
  BY <1>1, <1>3, <1>4, StepsIs DEF Begin, Goto

LEMMA LookGoes ==
  ASSUME HandoffTyped, NEW c \in Commands, Look(c)
  PROVE  \/ Steps(c, "opening", record[c]) /\ \A id \in Moves : ~IsOpen(id)
         \/ \E id \in Moves : IsOpen(id) /\ SameAct(c, id) /\ Steps(c, "driving", Read(id))
         \/ Steps(c, "over", NoRecord)
<1>1. {"opening", "driving", "over"} \subseteq Places
  BY DEF Places
<1> QED
  BY <1>1, ReadIs, NoRecordIs, StepsIs, StaysIs DEF Look, Goto

LEMMA OpenGoes ==
  ASSUME HandoffTyped, NEW c \in Commands, Open(c)
  PROVE  \/ /\ Steps(c, "driving", record[c]) /\ newest' = c
            /\ ledger' = [ledger EXCEPT ![c] = Row(record[c])] /\ UNCHANGED badSaves
         \/ /\ Steps(c, "over", NoRecord) /\ badSaves' = badSaves + 1
            /\ UNCHANGED <<ledger, newest>>
<1>1. {"driving", "over"} \subseteq Places
  BY DEF Places
<1> QED
  BY <1>1, NoRecordIs, StepsIs, StaysIs DEF Open, Goto

LEMMA DrainGoes ==
  ASSUME HandoffTyped, NEW c \in Commands, Drain(c)
  PROVE  \/ Steps(c, "freezing", InPhase(record[c], "draining"))
         \/ Steps(c, "saving", InPhase(record[c], "draining"))
         \/ Steps(c, "saving", InPhase(record[c], "awaiting_settlement"))
<1>1. {"freezing", "saving"} \subseteq Places /\ {"draining", "awaiting_settlement"} \subseteq Phases
  BY DEF Places, Phases, Early
<1> QED
  BY <1>1, PhaseIs DEF Drain

LEMMA FreezeGoes ==
  ASSUME HandoffTyped, NEW c \in Commands, Freeze(c)
  PROVE  \/ Steps(c, "driving", InPhase(record[c], "validating"))
         \/ Fail(c)
<1>1. "driving" \in Places /\ "validating" \in Phases
  BY DEF Places, Phases
<1> QED
  BY <1>1, PhaseIs DEF Freeze

LEMMA ValidateGoes ==
  ASSUME HandoffTyped, NEW c \in Commands, Validate(c)
  PROVE  \/ \E phase \in {"loading", "commit_pending"} :
              Steps(c, "driving", InPhase(record[c], phase))
         \/ Fail(c)
<1>1. {"loading", "commit_pending"} \subseteq Phases
  BY DEF Phases
<1> QED
  BY <1>1, PhaseInPlace DEF Validate

LEMMA AdmitGoes ==
  ASSUME HandoffTyped, NEW c \in Commands, Admit(c)
  PROVE  \/ \E r \in Records : /\ Steps(c, "starting", r) /\ r.id = record[c].id
                               /\ r.phase = record[c].phase /\ r.from = record[c].from
         \/ Fail(c)
<1>1. CASE \E evicted \in SUBSET warm :
             /\ record' = [record EXCEPT ![c].released = record[c].from \in evicted]
             /\ Goto(c, "starting")
  <2>5. PICK evicted \in SUBSET warm :
          /\ record' = [record EXCEPT ![c].released = record[c].from \in evicted]
          /\ Goto(c, "starting")
    BY <1>1
  <2> DEFINE b == record[c].from \in evicted
  <2>1. b \in BOOLEAN /\ record' = [record EXCEPT ![c].released = b] /\ Goto(c, "starting")
    BY <2>5
  <2> HIDE DEF b
  <2> DEFINE r == [record[c] EXCEPT !.released = b]
  <2>2. record[c] \in Records
    BY DEF HandoffTyped
  <2>3. r \in Records /\ r.id = record[c].id /\ r.phase = record[c].phase /\ r.from = record[c].from
    BY <2>1, <2>2 DEF Records
  <2>4. record' = [record EXCEPT ![c] = r] /\ "starting" \in Places
    BY <2>1 DEF Places
  <2> HIDE DEF r
  <2> QED
    BY <2>1, <2>3, <2>4, StepsIs DEF Goto
<1> QED
  BY <1>1 DEF Admit

LEMMA StartGoes ==
  ASSUME HandoffTyped, NEW c \in Commands, Start(c)
  PROVE  \/ Steps(c, "driving", InPhase(record[c], "recompiling"))
         \/ Fail(c)
<1>1. "driving" \in Places /\ "recompiling" \in Phases
  BY DEF Places, Phases
<1> QED
  BY <1>1, PhaseIs DEF Start

LEMMA RecompileGoes ==
  ASSUME HandoffTyped, NEW c \in Commands, Recompile(c)
  PROVE  \/ Steps(c, "driving", InPhase(record[c], "commit_pending"))
         \/ Fail(c)
<1>1. "commit_pending" \in Phases
  BY DEF Phases
<1> QED
  BY <1>1, PhaseInPlace DEF Recompile

LEMMA RebindGoes ==
  ASSUME HandoffTyped, NEW c \in Commands, Rebind(c)
  PROVE  \/ /\ Steps(c, "moving", InPhase(record[c], "committed"))
            /\ Write([model |-> Target[c], version |-> held.version + 1], TRUE)
         \/ Fail(c) /\ Write([model |-> Target[c], version |-> held.version + 1], FALSE)
         \/ Fail(c) /\ UNCHANGED registry
<1>1. "moving" \in Places /\ "committed" \in Phases
  BY DEF Places, Phases, Terminal
<1> QED
  BY <1>1, PhaseIs DEF Rebind

LEMMA MoveGoes ==
  ASSUME HandoffTyped, NEW c \in Commands, Move(c)
  PROVE  Steps(c, "saving", record[c])
BY StaysIs DEF Move, Goto, Places

LEMMA UndoGoes ==
  ASSUME HandoffTyped, NEW c \in Commands, Undo(c)
  PROVE  \E r \in Records :
           /\ Steps(c, IF held.model = record[c].from THEN "reloading" ELSE "restoring", r)
           /\ r.id = record[c].id /\ r.from = record[c].from /\ r.phase = "rolling_back"
<1> DEFINE r == [record[c] EXCEPT !.phase = "rolling_back", !.seen = held.version]
<1>1. record[c] \in Records /\ held.version \in Nat
  BY DEF HandoffTyped, Definitions
<1>2. r \in Records /\ r.id = record[c].id /\ r.from = record[c].from /\ r.phase = "rolling_back"
  BY <1>1 DEF Records, Phases
<1>3. record' = [record EXCEPT ![c] = r]
  BY DEF Undo
<1>4. {"reloading", "restoring"} \subseteq Places
  BY DEF Places
<1> HIDE DEF r
<1> QED
  BY <1>2, <1>3, <1>4, StepsIs DEF Undo, Goto

LEMMA RestoreGoes ==
  ASSUME HandoffTyped, NEW c \in Commands, Restore(c)
  PROVE  \/ /\ Steps(c, "reloading", record[c])
            /\ Write([model |-> record[c].from, version |-> held.version + 1], TRUE)
         \/ /\ Steps(c, "saving", InPhase(record[c], "rollback_failed"))
            /\ \/ Write([model |-> record[c].from, version |-> held.version + 1], FALSE)
               \/ UNCHANGED registry
<1>1. {"reloading", "saving"} \subseteq Places /\ "rollback_failed" \in Phases
  BY DEF Places, Phases, Terminal
<1> QED
  BY <1>1, PhaseIs, StaysIs DEF Restore, Goto

LEMMA ReloadGoes ==
  ASSUME HandoffTyped, NEW c \in Commands, Reload(c)
  PROVE  \/ /\ Steps(c, "saving", InPhase(record[c], "rolled_back"))
            /\ record[c].released => record[c].from \in warm'
         \/ Steps(c, "saving", InPhase(record[c], "rollback_failed"))
<1>1. "saving" \in Places /\ {"rolled_back", "rollback_failed"} \subseteq Phases
  BY DEF Places, Phases, Terminal
<1> QED
  BY <1>1, PhaseIs DEF Reload

LEMMA SaveGoes ==
  ASSUME HandoffTyped, NEW c \in Commands, Save(c)
  PROVE  /\ Steps(c, "over", NoRecord)
         /\ \/ /\ ledger' = [ledger EXCEPT ![record[c].id] = Row(record[c])]
               /\ UNCHANGED badSaves
            \/ badSaves' = badSaves + 1 /\ UNCHANGED ledger
<1>1. "over" \in Places
  BY DEF Places
<1> QED
  BY <1>1, NoRecordIs, StepsIs DEF Save, Goto

LEMMA CloseGoes ==
  ASSUME HandoffTyped, NEW c \in Commands, Close(c)
  PROVE  \/ \E id \in Moves : IsOpen(id) /\ Steps(c, "saving", InPhase(Read(id), "failed"))
         \/ Steps(c, "over", record[c])
<1>1. {"saving", "over"} \subseteq Places /\ "failed" \in Phases
  BY DEF Places, Phases, Terminal
<1> QED
  BY <1>1, ReadIs, InPhaseIs, StepsIs, StaysIs DEF Close, Goto, InPhase

(* One command's step leaves it whole.                                     *)
GoesWhole(c) ==
  \E place \in Places, r \in Records : Steps(c, place, r) /\ Whole(c, place, r, bound')

LEMMA GoesWholeBy ==
  ASSUME NEW c \in Commands, NEW place, NEW r,
         Steps(c, place, r), Whole(c, place, r, bound')
  PROVE  GoesWhole(c)
BY DEF GoesWhole, Steps

LEMMA RestIsWhole ==
  ASSUME NEW c \in Commands, NEW place \in AtRest \cup {"to sweep"}, NEW r
  PROVE  Whole(c, place, r, bound')
BY DEF Whole, AtRest

LEMMA InPhaseIsWhole ==
  ASSUME NEW c \in Commands, NEW place, NEW r \in Records, NEW phase \in Phases,
         r.id \in Moves, r.from \in Models,
         c \in Moves \/ place = "saving", place = "moving" => Target[c] \in bound'
  PROVE  Whole(c, place, InPhase(r, phase), bound')
BY InPhaseIs, PhasesAssumption DEF Whole

LEMMA UnderWay ==
  ASSUME HandoffBase, NEW c \in Commands, pc[c] \notin AtRest \cup {"to sweep"}
  PROVE  /\ record[c] \in Records /\ record[c].id \in Moves /\ record[c].from \in Models
         /\ record[c].phase # None
BY DEF HandoffBase, HandoffTyped, CommandsAreWhole, Whole

LEMMA Driven ==
  ASSUME HandoffBase, NEW c \in Commands, pc[c] \notin AtRest \cup {"to sweep", "saving"}
  PROVE  c \in Moves
BY DEF HandoffBase, CommandsAreWhole, Whole

LEMMA FailsWhole ==
  ASSUME HandoffBase, NEW c \in Commands, pc[c] \notin AtRest \cup {"to sweep", "saving"},
         Fail(c)
  PROVE  GoesWhole(c)
<1>1. c \in Moves
  BY Driven
<1>2. /\ record[c] \in Records /\ record[c].id \in Moves /\ record[c].from \in Models
      /\ record[c].phase # None
  BY UnderWay
<1>3. CASE Steps(c, "undoing", record[c])
  BY <1>1, <1>2, <1>3, GoesWholeBy DEF Whole
<1>4. CASE Steps(c, "saving", InPhase(record[c], "failed"))
  BY <1>2, <1>4, GoesWholeBy, InPhaseIsWhole DEF Phases, Terminal
<1> QED
  BY <1>3, <1>4, FailIs DEF HandoffBase

(* A step that only renames the phase of its record, or fails.            *)
LEMMA PhaseGoesWhole ==
  ASSUME HandoffBase, NEW c \in Commands, pc[c] \notin AtRest \cup {"to sweep", "saving"},
         NEW place, NEW phase \in Phases, place # "moving" \/ Target[c] \in bound',
         Steps(c, place, InPhase(record[c], phase))
  PROVE  GoesWhole(c)
<1>1. c \in Moves
  BY Driven
<1>2. record[c] \in Records /\ record[c].id \in Moves /\ record[c].from \in Models
  BY UnderWay
<1>3. Whole(c, place, InPhase(record[c], phase), bound')
  BY <1>1, <1>2, InPhaseIsWhole
<1> QED
  BY <1>3, GoesWholeBy

LEMMA StaysWhole ==
  ASSUME HandoffBase, NEW c \in Commands, pc[c] \notin AtRest \cup {"to sweep", "saving"},
         NEW place, place # "moving", Steps(c, place, record[c])
  PROVE  GoesWhole(c)
<1>1. c \in Moves
  BY Driven
<1>2. /\ record[c].id \in Moves /\ record[c].from \in Models /\ record[c].phase # None
  BY UnderWay
<1> QED
  BY <1>1, <1>2, GoesWholeBy DEF Whole

LEMMA BeginIsWhole ==
  ASSUME HandoffBase, NEW c \in Commands, Begin(c)
  PROVE  GoesWhole(c)
<1>1. c \in Moves /\ held.model \in Models /\ None # "requested"
  BY PhasesAssumption DEF HandoffBase, NamedIsBound, Begin, Phases, Early
<1>2. PICK r \in Records : Steps(c, "looking", r) /\ r.id = c /\ r.phase = "requested"
                           /\ r.from = held.model
  BY BeginGoes DEF HandoffBase
<1> QED
  BY <1>1, <1>2, GoesWholeBy DEF Whole

LEMMA LookIsWhole ==
  ASSUME HandoffBase, NEW c \in Commands, Look(c)
  PROVE  GoesWhole(c)
<1>1. pc[c] \notin AtRest \cup {"to sweep", "saving"}
  BY DEF Look, AtRest
<1>2. CASE Steps(c, "opening", record[c])
  BY <1>1, <1>2, StaysWhole
<1>3. CASE \E id \in Moves : IsOpen(id) /\ Steps(c, "driving", Read(id))
  <2>1. PICK id \in Moves : IsOpen(id) /\ Steps(c, "driving", Read(id))
    BY <1>3
  <2>2. ledger[id].phase # None /\ ledger[id].from \in Models
    BY <2>1 DEF IsOpen, HandoffBase, RowsAreWhole
  <2>3. /\ Read(id).id = id /\ Read(id).phase = ledger[id].phase
        /\ Read(id).from = ledger[id].from
    BY ReadIs DEF HandoffBase
  <2>4. c \in Moves
    BY <1>1, Driven
  <2> QED
    BY <2>1, <2>2, <2>3, <2>4, GoesWholeBy DEF Whole
<1>4. CASE Steps(c, "over", NoRecord)
  BY <1>4, RestIsWhole, GoesWholeBy DEF AtRest
<1> QED
  BY <1>2, <1>3, <1>4, LookGoes DEF HandoffBase

LEMMA OpenIsWhole ==
  ASSUME HandoffBase, NEW c \in Commands, Open(c)
  PROVE  GoesWhole(c)
<1>1. pc[c] \notin AtRest \cup {"to sweep", "saving"}
  BY DEF Open, AtRest
<1>2. CASE Steps(c, "driving", record[c])
  BY <1>1, <1>2, StaysWhole
<1>3. CASE Steps(c, "over", NoRecord)
  BY <1>3, RestIsWhole, GoesWholeBy DEF AtRest
<1> QED
  BY <1>2, <1>3, OpenGoes DEF HandoffBase

LEMMA DrainIsWhole ==
  ASSUME HandoffBase, NEW c \in Commands, Drain(c)
  PROVE  GoesWhole(c)
<1> USE DEF HandoffBase
<1>1. pc[c] \notin AtRest \cup {"to sweep", "saving"}
  BY DEF Drain, AtRest
<1> QED
  BY <1>1, DrainGoes, PhaseGoesWhole DEF Phases, Early

LEMMA FreezeIsWhole ==
  ASSUME HandoffBase, NEW c \in Commands, Freeze(c)
  PROVE  GoesWhole(c)
<1> USE DEF HandoffBase
<1>1. pc[c] \notin AtRest \cup {"to sweep", "saving"}
  BY DEF Freeze, AtRest
<1> QED
  BY <1>1, FreezeGoes, PhaseGoesWhole, FailsWhole DEF Phases

LEMMA ValidateIsWhole ==
  ASSUME HandoffBase, NEW c \in Commands, Validate(c)
  PROVE  GoesWhole(c)
<1> USE DEF HandoffBase
<1>1. pc[c] \notin AtRest \cup {"to sweep", "saving"}
  BY DEF Validate, AtRest
<1> QED
  BY <1>1, ValidateGoes, PhaseGoesWhole, FailsWhole DEF Phases

LEMMA AdmitIsWhole ==
  ASSUME HandoffBase, NEW c \in Commands, Admit(c)
  PROVE  GoesWhole(c)
<1>1. pc[c] \notin AtRest \cup {"to sweep", "saving"}
  BY DEF Admit, AtRest
<1>2. CASE \E r \in Records : /\ Steps(c, "starting", r) /\ r.id = record[c].id
                              /\ r.phase = record[c].phase /\ r.from = record[c].from
  <2>1. PICK r \in Records : /\ Steps(c, "starting", r) /\ r.id = record[c].id
                            /\ r.phase = record[c].phase /\ r.from = record[c].from
    BY <1>2
  <2>2. /\ record[c].id \in Moves /\ record[c].from \in Models /\ record[c].phase # None
        /\ c \in Moves
    BY <1>1, UnderWay, Driven
  <2> QED
    BY <2>1, <2>2, GoesWholeBy DEF Whole
<1> QED
  BY <1>1, <1>2, AdmitGoes, FailsWhole DEF HandoffBase

LEMMA StartIsWhole ==
  ASSUME HandoffBase, NEW c \in Commands, Start(c)
  PROVE  GoesWhole(c)
<1> USE DEF HandoffBase
<1>1. pc[c] \notin AtRest \cup {"to sweep", "saving"}
  BY DEF Start, AtRest
<1> QED
  BY <1>1, StartGoes, PhaseGoesWhole, FailsWhole DEF Phases

LEMMA RecompileIsWhole ==
  ASSUME HandoffBase, NEW c \in Commands, Recompile(c)
  PROVE  GoesWhole(c)
<1> USE DEF HandoffBase
<1>1. pc[c] \notin AtRest \cup {"to sweep", "saving"}
  BY DEF Recompile, AtRest
<1> QED
  BY <1>1, RecompileGoes, PhaseGoesWhole, FailsWhole DEF Phases

LEMMA RebindIsWhole ==
  ASSUME HandoffBase, NEW c \in Commands, Rebind(c)
  PROVE  GoesWhole(c)
<1>1. pc[c] \notin AtRest \cup {"to sweep", "saving"}
  BY DEF Rebind, AtRest
<1>2. CASE /\ Steps(c, "moving", InPhase(record[c], "committed"))
           /\ Write([model |-> Target[c], version |-> held.version + 1], TRUE)
  <2>1. Target[c] \in bound'
    BY <1>2 DEF Write
  <2> QED
    BY <1>1, <1>2, <2>1, PhaseGoesWhole DEF Phases, Terminal
<1> QED
  BY <1>1, <1>2, RebindGoes, FailsWhole DEF HandoffBase

LEMMA MoveIsWhole ==
  ASSUME HandoffBase, NEW c \in Commands, Move(c)
  PROVE  GoesWhole(c)
<1> USE DEF HandoffBase
<1>1. pc[c] \notin AtRest \cup {"to sweep", "saving"}
  BY DEF Move, AtRest
<1> QED
  BY <1>1, MoveGoes, StaysWhole

LEMMA UndoIsWhole ==
  ASSUME HandoffBase, NEW c \in Commands, Undo(c)
  PROVE  GoesWhole(c)
<1>1. pc[c] \notin AtRest \cup {"to sweep", "saving"}
  BY DEF Undo, AtRest
<1>2. PICK r \in Records :
        /\ Steps(c, IF held.model = record[c].from THEN "reloading" ELSE "restoring", r)
        /\ r.id = record[c].id /\ r.from = record[c].from /\ r.phase = "rolling_back"
  BY UndoGoes DEF HandoffBase
<1>3. /\ record[c].id \in Moves /\ record[c].from \in Models /\ None # "rolling_back"
      /\ c \in Moves
  BY <1>1, UnderWay, Driven, PhasesAssumption DEF Phases
<1> QED
  BY <1>2, <1>3, GoesWholeBy DEF Whole

LEMMA RestoreIsWhole ==
  ASSUME HandoffBase, NEW c \in Commands, Restore(c)
  PROVE  GoesWhole(c)
<1> USE DEF HandoffBase
<1>1. pc[c] \notin AtRest \cup {"to sweep", "saving"}
  BY DEF Restore, AtRest
<1> QED
  BY <1>1, RestoreGoes, PhaseGoesWhole, StaysWhole DEF Phases, Terminal

LEMMA ReloadIsWhole ==
  ASSUME HandoffBase, NEW c \in Commands, Reload(c)
  PROVE  GoesWhole(c)
<1> USE DEF HandoffBase
<1>1. pc[c] \notin AtRest \cup {"to sweep", "saving"}
  BY DEF Reload, AtRest
<1> QED
  BY <1>1, ReloadGoes, PhaseGoesWhole DEF Phases, Terminal

LEMMA SaveIsWhole ==
  ASSUME HandoffBase, NEW c \in Commands, Save(c)
  PROVE  GoesWhole(c)
<1> QED
  BY SaveGoes, RestIsWhole, GoesWholeBy DEF HandoffBase, AtRest

LEMMA CloseIsWhole ==
  ASSUME HandoffBase, NEW c \in Commands, Close(c)
  PROVE  GoesWhole(c)
<1>1. CASE \E id \in Moves : IsOpen(id) /\ Steps(c, "saving", InPhase(Read(id), "failed"))
  <2>1. PICK id \in Moves : IsOpen(id) /\ Steps(c, "saving", InPhase(Read(id), "failed"))
    BY <1>1
  <2>2. ledger[id].phase # None /\ ledger[id].from \in Models
    BY <2>1 DEF IsOpen, HandoffBase, RowsAreWhole
  <2>3. Read(id) \in Records /\ Read(id).id = id /\ Read(id).from = ledger[id].from
    BY ReadIs DEF HandoffBase
  <2>4. Whole(c, "saving", InPhase(Read(id), "failed"), bound')
    BY <2>2, <2>3, InPhaseIsWhole DEF Phases, Terminal
  <2> QED
    BY <2>1, <2>4, GoesWholeBy
<1>2. CASE Steps(c, "over", record[c])
  BY <1>2, RestIsWhole, GoesWholeBy DEF AtRest
<1> QED
  BY <1>1, <1>2, CloseGoes DEF HandoffBase

LEMMA CommandsGoWhole ==
  ASSUME HandoffBase, NEW c \in Commands, Begin(c) \/ Drive(c) \/ Close(c)
  PROVE  GoesWhole(c)
BY BeginIsWhole, LookIsWhole, OpenIsWhole, DrainIsWhole, FreezeIsWhole, ValidateIsWhole,
   AdmitIsWhole, StartIsWhole, RecompileIsWhole, RebindIsWhole, MoveIsWhole, UndoIsWhole,
   RestoreIsWhole, ReloadIsWhole, SaveIsWhole, CloseIsWhole DEF Drive

(* What the registry's file has named only grows.                          *)
RegistryGoesOn ==
  /\ held' \in Definitions /\ stored' \in Definitions
  /\ bound' \subseteq Models /\ bound \subseteq bound' /\ badWrites' \in Nat

LEMMA OneMore == ASSUME NEW n \in Nat PROVE n + 1 \in Nat
OBVIOUS

LEMMA WriteIs ==
  ASSUME HandoffTyped, NEW d \in Definitions, NEW written \in BOOLEAN, Write(d, written)
  PROVE  RegistryGoesOn
<1>1. badWrites + 1 \in Nat
  BY OneMore DEF HandoffTyped
<1>2. d.model \in Models
  BY DEF Definitions
<1> QED
  BY <1>1, <1>2 DEF Write, HandoffTyped, RegistryGoesOn

LEMMA NewerIs ==
  ASSUME HandoffTyped, NEW m \in Models
  PROVE  [model |-> m, version |-> held.version + 1] \in Definitions
<1>1. held.version + 1 \in Nat
  BY OneMore DEF HandoffTyped, Definitions
<1> QED
  BY <1>1 DEF Definitions

LEMMA RegistryStep ==
  ASSUME HandoffBase, Next
  PROVE  RegistryGoesOn
<1> USE DEF HandoffBase
<1>1. ASSUME NEW c \in Commands, Rebind(c) PROVE RegistryGoesOn
  <2>1. Target[c] \in Models
    BY <1>1, Driven, HandoffAssumption DEF Rebind, AtRest
  <2> QED
    BY <1>1, <2>1, NewerIs, WriteIs DEF Rebind, registry, RegistryGoesOn, HandoffTyped
<1>2. ASSUME NEW c \in Commands, Restore(c) PROVE RegistryGoesOn
  <2>1. record[c].from \in Models
    BY <1>2, UnderWay DEF Restore, AtRest
  <2> QED
    BY <1>2, <2>1, NewerIs, WriteIs DEF Restore, registry, RegistryGoesOn, HandoffTyped
<1>3. CASE Edit
  <2>1. held.version + 1 \in Nat
    BY OneMore DEF HandoffTyped, Definitions
  <2>2. [held EXCEPT !.version = @ + 1] \in Definitions
    BY <2>1 DEF HandoffTyped, Definitions
  <2> QED
    BY <1>3, <2>2, WriteIs DEF Edit
<1>4. CASE Crash
  BY <1>4 DEF Crash, RegistryGoesOn, HandoffTyped
<1>5. CASE UNCHANGED registry
  BY <1>5 DEF registry, RegistryGoesOn, HandoffTyped
<1>6. ASSUME NEW c \in Commands,
             \/ Begin(c) \/ Look(c) \/ Open(c) \/ Drain(c) \/ Freeze(c) \/ Validate(c)
             \/ Admit(c) \/ Start(c) \/ Recompile(c) \/ Move(c) \/ Undo(c) \/ Reload(c)
             \/ Save(c) \/ Close(c) \/ RunMoves
      PROVE  UNCHANGED registry
  BY <1>6 DEF Begin, Look, Open, Drain, Freeze, Validate, Admit, Start, Recompile, Move, Undo,
              Reload, Save, Close, RunMoves
<1>7. CASE RunMoves
  BY <1>5, <1>7 DEF RunMoves
<1> QED
  BY <1>1, <1>2, <1>3, <1>4, <1>5, <1>6, <1>7 DEF Next, Drive

(* The rows.                                                               *)
RowsGoOn ==
  /\ ledger' \in [Moves -> Rows] /\ newest' \in Moves \cup {None} /\ badSaves' \in Nat
  /\ RowsAreWhole'

LEMMA RowIs ==
  ASSUME NEW r \in Records
  PROVE  /\ Row(r) \in Rows /\ Row(r).phase = r.phase /\ Row(r).from = r.from
         /\ Row(r).version = r.version
BY DEF Records, Rows, Row

LEMMA WrittenIsWhole ==
  ASSUME HandoffBase, NEW id \in Moves, NEW r \in Records, r.from \in Models,
         ledger' = [ledger EXCEPT ![id] = Row(r)]
  PROVE  ledger' \in [Moves -> Rows] /\ RowsAreWhole'
<1>1. Row(r) \in Rows /\ Row(r).from \in Models
  BY RowIs
<1> QED
  BY <1>1 DEF HandoffBase, HandoffTyped, RowsAreWhole

LEMMA RowsStep ==
  ASSUME HandoffBase, Next
  PROVE  RowsGoOn
<1> USE DEF HandoffBase
<1>0. badSaves + 1 \in Nat
  BY OneMore DEF HandoffTyped
<1>1. ASSUME NEW c \in Commands, Open(c) PROVE RowsGoOn
  <2>1. pc[c] \notin AtRest \cup {"to sweep", "saving"}
    BY <1>1 DEF Open, AtRest
  <2>2. c \in Moves /\ record[c] \in Records /\ record[c].from \in Models
    BY <2>1, Driven, UnderWay
  <2> QED
    BY <1>0, <1>1, <2>2, OpenGoes, WrittenIsWhole DEF RowsGoOn, HandoffTyped, RowsAreWhole
<1>2. ASSUME NEW c \in Commands, Save(c) PROVE RowsGoOn
  <2>1. record[c] \in Records /\ record[c].id \in Moves /\ record[c].from \in Models
    BY <1>2, UnderWay DEF Save, AtRest
  <2>2. newest' = newest
    BY <1>2 DEF Save
  <2> QED
    BY <1>0, <1>2, <2>1, <2>2, SaveGoes, WrittenIsWhole
       DEF RowsGoOn, HandoffTyped, RowsAreWhole
<1>3. CASE UNCHANGED rows
  BY <1>3 DEF rows, RowsGoOn, HandoffTyped, RowsAreWhole
<1>4. ASSUME NEW c \in Commands,
             \/ Begin(c) \/ Look(c) \/ Drain(c) \/ Freeze(c) \/ Validate(c)
             \/ Admit(c) \/ Start(c) \/ Recompile(c) \/ Rebind(c) \/ Move(c) \/ Undo(c)
             \/ Restore(c) \/ Reload(c) \/ Close(c)
      PROVE  UNCHANGED rows
  BY <1>4 DEF Begin, Look, Drain, Freeze, Validate, Admit, Start, Recompile, Rebind, Move,
              Undo, Restore, Reload, Close
<1>5. CASE Edit \/ RunMoves \/ Crash
  BY <1>3, <1>5 DEF Edit, RunMoves, Crash
<1> QED
  BY <1>1, <1>2, <1>3, <1>4, <1>5 DEF Next, Drive

(* The commands.                                                           *)
LEMMA CommandsStep ==
  ASSUME HandoffBase, Next
  PROVE  pc' \in [Commands -> Places] /\ record' \in [Commands -> Records] /\ CommandsAreWhole'
<1>0. bound \subseteq bound'
  BY RegistryStep DEF RegistryGoesOn
<1>1. ASSUME NEW c \in Commands, Begin(c) \/ Drive(c) \/ Close(c)
      PROVE  /\ pc' \in [Commands -> Places] /\ record' \in [Commands -> Records]
             /\ CommandsAreWhole'
  <2>1. PICK place \in Places, r \in Records : Steps(c, place, r) /\ Whole(c, place, r, bound')
    BY <1>1, CommandsGoWhole DEF GoesWhole
  <2>2. ASSUME NEW d \in Commands PROVE Whole(d, pc'[d], record'[d], bound')
    <3>1. CASE d = c
      BY <2>1, <3>1 DEF Steps
    <3>2. CASE d # c
      <4>1. pc'[d] = pc[d] /\ record'[d] = record[d]
        BY <2>1, <3>2 DEF Steps
      <4>2. Whole(d, pc[d], record[d], bound)
        BY DEF HandoffBase, CommandsAreWhole
      <4> QED
        BY <1>0, <4>1, <4>2 DEF Whole
    <3> QED
      BY <3>1, <3>2
  <2> QED
    BY <2>1, <2>2 DEF Steps, CommandsAreWhole
<1>2. CASE UNCHANGED <<pc, record>>
  BY <1>0, <1>2 DEF HandoffBase, HandoffTyped, CommandsAreWhole, Whole
<1>3. CASE Crash
  <2>1. pc' \in [Commands -> Places] /\ \A c \in Commands : pc'[c] \in AtRest \cup {"to sweep"}
    BY <1>3 DEF Crash, Places, AtRest
  <2>2. record' \in [Commands -> Records]
    BY <1>3, NoRecordIs DEF Crash
  <2>3. ASSUME NEW c \in Commands PROVE Whole(c, pc'[c], record'[c], bound')
    BY <2>1, RestIsWhole
  <2> QED
    BY <2>1, <2>2, <2>3 DEF CommandsAreWhole
<1>4. CASE Edit \/ RunMoves
  BY <1>2, <1>4 DEF Edit, RunMoves
<1> QED
  BY <1>1, <1>3, <1>4 DEF Next

(* The servers, the run and the counters.                                  *)
RestGoesOn ==
  /\ warm' \subseteq Models /\ run' \in {"boundary", "round", "waiting"}
  /\ edits' \in Nat /\ crashes' \in Nat

LEMMA RestStep ==
  ASSUME HandoffBase, Next
  PROVE  RestGoesOn
<1> USE DEF HandoffBase
<1>0. edits + 1 \in Nat /\ crashes + 1 \in Nat
  BY OneMore DEF HandoffTyped
<1>1. ASSUME NEW c \in Commands, Begin(c) \/ Drive(c) \/ Close(c)
      PROVE  warm' \subseteq Models
  <2>1. CASE Admit(c)
    BY <2>1 DEF Admit, HandoffTyped
  <2>2. CASE Start(c)
    <3>1. Target[c] \in Models
      BY <2>2, Driven, HandoffAssumption DEF Start, AtRest
    <3> QED
      BY <2>2, <3>1 DEF Start, HandoffTyped
  <2>3. CASE Reload(c)
    <3>1. record[c].from \in Models
      BY <2>3, UnderWay DEF Reload, AtRest
    <3> QED
      BY <2>3, <3>1 DEF Reload, HandoffTyped
  <2>4. CASE \/ Begin(c) \/ Look(c) \/ Open(c) \/ Drain(c) \/ Freeze(c) \/ Validate(c)
             \/ Recompile(c) \/ Rebind(c) \/ Move(c) \/ Undo(c)
             \/ Restore(c) \/ Save(c) \/ Close(c)
    <3>1. warm' = warm
      BY <2>4 DEF Begin, Look, Open, Drain, Freeze, Validate, Recompile, Rebind, Move, Undo,
                  Restore, Save, Close
    <3> QED
      BY <3>1 DEF HandoffTyped
  <2> QED
    BY <1>1, <2>1, <2>2, <2>3, <2>4 DEF Drive
<1>2. ASSUME NEW c \in Commands, Begin(c) \/ Drive(c) \/ Close(c)
      PROVE  UNCHANGED <<run, edits, crashes>>
  BY <1>2 DEF Drive, Begin, Look, Open, Drain, Freeze, Validate, Admit, Start, Recompile,
              Rebind, Move, Undo, Restore, Reload, Save, Close, theRun
<1>3. CASE Edit
  BY <1>0, <1>3 DEF Edit, theRun, RestGoesOn, HandoffTyped
<1>4. CASE RunMoves
  BY <1>4 DEF RunMoves, RestGoesOn, HandoffTyped
<1>5. CASE Crash
  BY <1>0, <1>5 DEF Crash, RestGoesOn, HandoffTyped
<1> QED
  BY <1>1, <1>2, <1>3, <1>4, <1>5 DEF Next, RestGoesOn, HandoffTyped

(* The seed and the resume point.                                          *)
LEMMA NamedStep ==
  ASSUME HandoffBase, Next
  PROVE  seed' \in bound' \cup {None} /\ resume' \in bound'
<1>0. bound \subseteq bound' /\ seed \in bound \cup {None} /\ resume \in bound
  BY RegistryStep DEF RegistryGoesOn, HandoffBase, NamedIsBound
<1>1. ASSUME NEW c \in Commands, Begin(c) \/ Drive(c) \/ Close(c)
      PROVE  seed' \in bound' \cup {None} /\ resume' \in bound'
  <2>1. CASE Freeze(c)
    <3>1. seed' = seed /\ resume' \in {seed, resume} /\ (resume' = seed => seed # None \/ seed = resume)
      BY <2>1 DEF Freeze
    <3> QED
      BY <1>0, <3>1, HandoffAssumption
  <2>2. CASE Move(c)
    <3>1. Target[c] \in bound
      BY <2>2 DEF Move, HandoffBase, CommandsAreWhole, Whole
    <3>2. seed' \in {seed, Target[c]} /\ resume' \in {resume, Target[c]}
      BY <2>2 DEF Move
    <3> QED
      BY <1>0, <3>1, <3>2
  <2>3. CASE \/ Begin(c) \/ Look(c) \/ Open(c) \/ Drain(c) \/ Validate(c) \/ Admit(c)
             \/ Start(c) \/ Recompile(c) \/ Rebind(c) \/ Undo(c) \/ Restore(c) \/ Reload(c)
             \/ Save(c) \/ Close(c)
    <3>1. UNCHANGED <<seed, resume>>
      BY <2>3 DEF Begin, Look, Open, Drain, Validate, Admit, Start, Recompile, Rebind, Undo,
                  Restore, Reload, Save, Close, theRun
    <3> QED
      BY <1>0, <3>1
  <2> QED
    BY <1>1, <2>1, <2>2, <2>3 DEF Drive
<1>2. CASE Edit
  BY <1>0, <1>2 DEF Edit, theRun
<1>3. CASE RunMoves
  BY <1>0, <1>3 DEF RunMoves
<1>4. CASE Crash
  BY <1>0, <1>4 DEF Crash
<1> QED
  BY <1>1, <1>2, <1>3, <1>4 DEF Next

(* What is remembered of commands that cross.                              *)
LEMMA HistoryStep ==
  ASSUME HandoffBase, Next
  PROVE  torn' \in BOOLEAN /\ crossed' \subseteq Commands
<1> USE DEF HandoffBase, HandoffTyped
<1>1. ASSUME NEW c \in Commands, Begin(c) \/ Drive(c) \/ Close(c)
      PROVE  torn' \in BOOLEAN /\ crossed' \subseteq Commands
  <2>1. CASE Look(c) \/ Open(c) \/ Save(c) \/ Close(c)
    BY <2>1 DEF Look, Open, Save, Close, history
  <2>2. CASE Admit(c) \/ Reload(c)
    <3>1. torn' = torn /\ (crossed' = crossed \/ \E evicted : Stops(c, evicted))
      BY <2>2 DEF Admit, Reload
    <3> QED
      BY <3>1 DEF Stops, Going
  <2>3. CASE \/ Begin(c) \/ Drain(c) \/ Freeze(c) \/ Validate(c) \/ Start(c) \/ Recompile(c)
             \/ Rebind(c) \/ Move(c) \/ Undo(c) \/ Restore(c)
    BY <2>3 DEF Begin, Drain, Freeze, Validate, Start, Recompile, Rebind, Move, Undo, Restore,
                history
  <2> QED
    BY <1>1, <2>1, <2>2, <2>3 DEF Drive
<1>2. CASE Edit \/ RunMoves
  BY <1>2 DEF Edit, RunMoves, history
<1>3. CASE Crash
  BY <1>3 DEF Crash
<1> QED
  BY <1>1, <1>2, <1>3 DEF Next

LEMMA HandoffBaseStep ==
  ASSUME HandoffBase, [Next]_vars
  PROVE  HandoffBase'
<1>1. CASE Next
  <2>1. HandoffTyped'
    <3>1. seed' \in Models \cup {None} /\ resume' \in Models
      BY <1>1, RegistryStep, NamedStep DEF RegistryGoesOn
    <3> QED
      BY <1>1, <3>1, RegistryStep, RowsStep, CommandsStep, RestStep, HistoryStep
      DEF RegistryGoesOn, RowsGoOn, RestGoesOn, HandoffTyped
  <2>2. NamedIsBound'
    BY <1>1, RegistryStep, NamedStep DEF NamedIsBound, RegistryGoesOn, Definitions
  <2> QED
    BY <1>1, <2>1, <2>2, RowsStep, CommandsStep DEF HandoffBase, RowsGoOn
<1>2. CASE UNCHANGED vars
  BY <1>2 DEF HandoffBase, HandoffTyped, CommandsAreWhole, Whole, RowsAreWhole, NamedIsBound,
              vars, registry, rows, theRun, history, Definitions
<1> QED
  BY <1>1, <1>2

LEMMA HandoffBaseInit == Init => HandoffBase
<1> SUFFICES ASSUME Init PROVE HandoffBase
  OBVIOUS
<1>1. NoRow \in Rows /\ NoRow.phase = None
  BY DEF NoRow, Rows
<1>2. held \in Definitions /\ stored \in Definitions /\ held.model = Source
  BY HandoffAssumption DEF Init, Definitions
<1>3. HandoffTyped
  BY <1>1, <1>2, NoRecordIs, HandoffAssumption DEF Init, HandoffTyped, Places
<1>4. CommandsAreWhole
  BY DEF Init, CommandsAreWhole, Whole, AtRest
<1>5. RowsAreWhole
  BY <1>1 DEF Init, RowsAreWhole
<1>6. NamedIsBound
  BY <1>2, HandoffAssumption DEF Init, NamedIsBound
<1> QED
  BY <1>3, <1>4, <1>5, <1>6 DEF HandoffBase

LEMMA HandoffBaseHolds == Spec => []HandoffBase
BY HandoffBaseInit, HandoffBaseStep, PTL DEF Spec

LEMMA BaseIsTyped == HandoffBase => TypeOK /\ ResumePointFollows
<1> SUFFICES ASSUME HandoffBase PROVE TypeOK /\ ResumePointFollows
  OBVIOUS
<1>1. \A c \in Commands : pc[c] = "saving" => record[c].id # None
  BY UnderWay, HandoffAssumption DEF AtRest
<1>2. ResumePointFollows
  BY DEF HandoffBase, NamedIsBound, ResumePointFollows
<1>3. HandoffTyped
  BY DEF HandoffBase
<1> QED
  BY <1>1, <1>2, <1>3 DEF HandoffTyped, TypeOK, Rows, Records

(* A run's saved resume point names only models the registry's file has named
   (model_handoff.rs, move_resume_point after rebind_model), whatever commands go on
   at once, and whatever dies or cannot be written.                        *)
THEOREM ResumePointIsBound == Spec => [](TypeOK /\ ResumePointFollows)
BY HandoffBaseHolds, BaseIsTyped, PTL

(* A move that has just begun has its own record, and one that moves the resume
   point has committed.                                                    *)
Fresh ==
  \A c \in Commands :
    /\ pc[c] \in {"looking", "opening"} => record[c].id = c /\ record[c].phase = "requested"
    /\ pc[c] = "moving" => record[c].phase = "committed"

LEMMA GoneTo ==
  ASSUME NEW c \in Commands, NEW place, NEW r, Steps(c, place, r)
  PROVE  /\ pc'[c] = place /\ record'[c] = r
         /\ \A d \in Commands \ {c} : pc'[d] = pc[d] /\ record'[d] = record[d]
BY DEF Steps

LEMMA FailsElsewhere ==
  ASSUME HandoffTyped, NEW c \in Commands, Fail(c)
  PROVE  /\ \/ pc'[c] = "undoing"
            \/ pc'[c] = "saving" /\ record'[c].phase = "failed"
         /\ \A d \in Commands \ {c} : pc'[d] = pc[d] /\ record'[d] = record[d]
<1>1. record[c] \in Records /\ "failed" \in Phases
  BY DEF HandoffTyped, Phases, Terminal
<1>2. InPhase(record[c], "failed").phase = "failed"
  BY <1>1, InPhaseIs
<1>3. CASE Steps(c, "undoing", record[c])
  BY <1>3 DEF Steps
<1>4. CASE Steps(c, "saving", InPhase(record[c], "failed"))
  BY <1>2, <1>4, GoneTo
<1> QED
  BY <1>3, <1>4, FailIs

(* Where a step brings a command that has begun, is saving or moving.      *)
Arrives(c) ==
  /\ pc'[c] \in {"looking", "opening"} => record'[c].id = c /\ record'[c].phase = "requested"
  /\ pc'[c] = "moving" => record'[c].phase = "committed"
  /\ pc'[c] = "saving" /\ record'[c].phase = "rolled_back" /\ record'[c].released
       => record'[c].from \in warm'

LEMMA CommandsArrive ==
  ASSUME HandoffBase, Fresh, NEW c \in Commands, Begin(c) \/ Drive(c) \/ Close(c)
  PROVE  Arrives(c)
<1> USE DEF HandoffBase
<1>0. record[c] \in Records
  BY DEF HandoffTyped
<1>1. ASSUME NEW place, NEW phase \in Phases, Steps(c, place, InPhase(record[c], phase)),
             place # "moving" \/ phase = "committed",
             place # "saving" \/ phase # "rolled_back", place \notin {"looking", "opening"}
      PROVE  Arrives(c)
  BY <1>0, <1>1, InPhaseIs, GoneTo DEF Arrives
<1>2. ASSUME NEW place, NEW r, Steps(c, place, r),
             place \notin {"moving", "saving", "looking", "opening"}
      PROVE  Arrives(c)
  BY <1>2, GoneTo DEF Arrives
<1>3. ASSUME Fail(c) PROVE Arrives(c)
  BY <1>3, FailsElsewhere DEF Arrives
<1>4. /\ Early \cup Terminal \subseteq Phases
      /\ {"validating", "loading", "recompiling", "commit_pending"} \subseteq Phases
  BY DEF Phases
<1>5. CASE Begin(c)
  BY <1>5, BeginGoes, GoneTo DEF Arrives
<1>6. CASE Look(c)
  <2>1. CASE Steps(c, "opening", record[c])
    BY <1>6, <2>1, GoneTo DEF Arrives, Look, Fresh
  <2> QED
    BY <1>2, <1>6, <2>1, LookGoes
<1>7. CASE Open(c)
  BY <1>2, <1>7, OpenGoes
<1>8. CASE Drain(c)
  BY <1>1, <1>4, <1>8, DrainGoes DEF Early
<1>9. CASE Freeze(c)
  BY <1>1, <1>3, <1>4, <1>9, FreezeGoes
<1>10. CASE Validate(c)
  BY <1>1, <1>3, <1>4, <1>10, ValidateGoes
<1>11. CASE Admit(c)
  BY <1>2, <1>3, <1>11, AdmitGoes
<1>12. CASE Start(c)
  BY <1>1, <1>3, <1>4, <1>12, StartGoes
<1>13. CASE Recompile(c)
  BY <1>1, <1>3, <1>4, <1>13, RecompileGoes
<1>14. CASE Rebind(c)
  <2>1. "committed" \in Phases
    BY <1>4 DEF Terminal
  <2>2. CASE Steps(c, "moving", InPhase(record[c], "committed"))
    BY <1>1, <2>1, <2>2
  <2> QED
    BY <1>3, <1>14, <2>2, RebindGoes
<1>15. CASE Move(c)
  <2>1. record[c].phase = "committed"
    BY <1>15 DEF Move, Fresh
  <2> QED
    BY <1>15, <2>1, MoveGoes, GoneTo DEF Arrives
<1>16. CASE Undo(c)
  BY <1>2, <1>16, UndoGoes
<1>17. CASE Restore(c)
  <2>1. CASE Steps(c, "reloading", record[c])
    BY <1>2, <2>1
  <2>2. CASE Steps(c, "saving", InPhase(record[c], "rollback_failed"))
    BY <1>1, <1>4, <2>2 DEF Terminal
  <2> QED
    BY <1>17, <2>1, <2>2, RestoreGoes
<1>18. CASE Reload(c)
  <2>1. CASE /\ Steps(c, "saving", InPhase(record[c], "rolled_back"))
             /\ record[c].released => record[c].from \in warm'
    <3>1. "rolled_back" \in Phases
      BY <1>4 DEF Terminal
    <3>2. /\ InPhase(record[c], "rolled_back").from = record[c].from
          /\ InPhase(record[c], "rolled_back").released = record[c].released
      BY <1>0, <3>1, InPhaseIs
    <3>3. pc'[c] = "saving" /\ record'[c] = InPhase(record[c], "rolled_back")
      BY <2>1, GoneTo
    <3> QED
      BY <2>1, <3>2, <3>3 DEF Arrives
  <2> QED
    BY <1>1, <1>4, <1>18, <2>1, ReloadGoes DEF Terminal
<1>19. CASE Save(c)
  BY <1>2, <1>19, SaveGoes
<1>20. CASE Close(c)
  <2>1. CASE \E id \in Moves : IsOpen(id) /\ Steps(c, "saving", InPhase(Read(id), "failed"))
    <3>1. PICK id \in Moves : Steps(c, "saving", InPhase(Read(id), "failed"))
      BY <2>1
    <3>2. Read(id) \in Records /\ "failed" \in Phases
      BY <1>4, ReadIs DEF Terminal
    <3>3. InPhase(Read(id), "failed").phase = "failed"
      BY <3>2, InPhaseIs
    <3> QED
      BY <3>1, <3>3, GoneTo DEF Arrives
  <2> QED
    BY <1>2, <1>20, <2>1, CloseGoes
<1> QED
  BY <1>5, <1>6, <1>7, <1>8, <1>9, <1>10, <1>11, <1>12, <1>13, <1>14, <1>15, <1>16, <1>17,
     <1>18, <1>19, <1>20 DEF Drive

(* Of a command that is saving beside another's step.                      *)
LEMMA OthersAreServed ==
  ASSUME HandoffBase, NEW c \in Commands, Begin(c) \/ Drive(c) \/ Close(c),
         NEW d \in Commands \ {c}, pc[d] = "saving"
  PROVE  /\ d \in crossed => d \in crossed'
         /\ d \in crossed' \/ warm \subseteq warm'
<1>1. d \in Going \ {c}
  BY DEF Going
<1>2. ASSUME NEW evicted, Stops(c, evicted), warm \ evicted \subseteq warm'
      PROVE  /\ d \in crossed => d \in crossed'
             /\ d \in crossed' \/ warm \subseteq warm'
  BY <1>1, <1>2 DEF Stops
<1>3. CASE Admit(c)
  BY <1>2, <1>3 DEF Admit
<1>4. CASE Reload(c)
  BY <1>2, <1>4 DEF Reload
<1>5. CASE Save(c)
  BY <1>5 DEF Save
<1>6. CASE \/ Begin(c) \/ Look(c) \/ Open(c) \/ Drain(c) \/ Freeze(c) \/ Validate(c) \/ Start(c)
           \/ Recompile(c) \/ Rebind(c) \/ Move(c) \/ Undo(c) \/ Restore(c) \/ Close(c)
  BY <1>6 DEF Begin, Look, Open, Drain, Freeze, Validate, Start, Recompile, Rebind, Move, Undo,
              Restore, Close, history
<1> QED
  BY <1>3, <1>4, <1>5, <1>6 DEF Drive

LEMMA ServedStep ==
  ASSUME HandoffBase, Fresh, UndoneIsServed, [Next]_vars
  PROVE  Fresh' /\ UndoneIsServed'
<1>1. ASSUME NEW c \in Commands, Begin(c) \/ Drive(c) \/ Close(c)
      PROVE  Fresh' /\ UndoneIsServed'
  <2>1. PICK place \in Places, r \in Records : Steps(c, place, r)
    BY <1>1, CommandsGoWhole DEF GoesWhole
  <2>2. \A d \in Commands \ {c} : pc'[d] = pc[d] /\ record'[d] = record[d]
    BY <2>1 DEF Steps
  <2>3. Arrives(c)
    BY <1>1, CommandsArrive
  <2>4. Fresh'
    BY <2>2, <2>3 DEF Arrives, Fresh
  <2>5. ASSUME NEW d \in Commands, pc'[d] = "saving", record'[d].phase = "rolled_back",
               record'[d].released
        PROVE  record'[d].from \in warm' \/ d \in crossed'
    <3>1. CASE d = c
      BY <2>3, <2>5, <3>1 DEF Arrives
    <3>2. CASE d # c
      BY <1>1, <2>2, <2>5, <3>2, OthersAreServed DEF UndoneIsServed
    <3> QED
      BY <3>1, <3>2
  <2> QED
    BY <2>4, <2>5 DEF UndoneIsServed
<1>2. CASE UNCHANGED <<pc, record, warm, crossed>>
  BY <1>2 DEF Fresh, UndoneIsServed
<1>3. CASE Crash
  BY <1>3 DEF Crash, Fresh, UndoneIsServed
<1>4. CASE Edit \/ RunMoves \/ UNCHANGED vars
  BY <1>2, <1>4 DEF Edit, RunMoves, vars, history
<1> QED
  BY <1>1, <1>3, <1>4 DEF Next

HandoffSteady == HandoffBase /\ Fresh /\ UndoneIsServed

LEMMA HandoffSteadyHolds == Spec => []HandoffSteady
<1>1. Init => HandoffSteady
  <2>1. Init => Fresh /\ UndoneIsServed
    BY DEF Init, Fresh, UndoneIsServed
  <2> QED
    BY <2>1, HandoffBaseInit DEF HandoffSteady
<1>2. HandoffSteady /\ [Next]_vars => HandoffSteady'
  BY HandoffBaseStep, ServedStep DEF HandoffSteady
<1> QED
  BY <1>1, <1>2, PTL DEF Spec

(* Undoing a move and carrying one over both leave the agent something to run on
   (model_handoff.rs, apply_rollback and move_resume_point), however many commands go
   on at once: a source that was put back is served until its row is written, unless
   another command stopped servers in between.                             *)
THEOREM MovesLeaveSomething == Spec => []MovesLeaveAModel
<1>1. HandoffSteady => MovesLeaveAModel
  BY BaseIsTyped DEF HandoffSteady, MovesLeaveAModel
<1> QED
  BY <1>1, HandoffSteadyHolds, PTL

(* What the newest row says of the binding, while nothing has torn it.     *)
OpenIn(l, id) == l[id].phase \notin Terminal \cup {None}
OpenIsNewest(l, n) == \A id \in Moves : OpenIn(l, id) => id = n

(* A command at a place, with a record: m is the agent's model, l the ledger and
   n the row opened last.                                                  *)
OnTheRow(c, r, l, n) ==
  /\ n \in Moves /\ r.id = n /\ OpenIn(l, n) /\ l[n].from = r.from
  /\ c \in Moves => Target[n] = Target[c]

Placed(c, place, r, m, l, n) ==
  /\ place \in Driving => OnTheRow(c, r, l, n)
  /\ place \in {"driving", "freezing", "starting"} => m = r.from /\ r.phase \notin Terminal
  /\ place = "moving" => r.phase = "committed" /\ m = Target[n]
  /\ place = "undoing" => r.phase = "commit_pending" \/ m = r.from
  /\ place \in {"restoring", "reloading"} => r.phase = "rolling_back"
  /\ place = "reloading" => m = r.from
  /\ place = "saving" =>
       /\ r.phase \in Early \cup Terminal
       /\ r.phase = "committed" => m = Target[n]
       /\ r.phase \in Early \cup {"failed", "rolled_back"} => m = r.from

RowTells(m, l, n) ==
  n # None =>
    /\ l[n].phase = "committed" => m = Target[n]
    /\ l[n].phase \in {"failed", "rolled_back"} => m = l[n].from

Standing(m, l, n) == n # None /\ OpenIn(l, n) => m = l[n].from

Recorded(m, l, n) == OpenIsNewest(l, n) /\ RowTells(m, l, n)

Calm == ~torn

(* One command at most is at work on a row, whichever others have begun.   *)
OneDrives == \A c, d \in Commands : pc[c] \in Driving /\ pc[d] \in Driving => c = d

CalmlyRecorded ==
  Calm =>
    /\ OneDrives
    /\ Recorded(held.model, ledger, newest)
    /\ \A c \in Commands : Placed(c, pc[c], record[c], held.model, ledger, newest)
    /\ (\A c \in Commands : pc[c] \notin Driving) => Standing(held.model, ledger, newest)

(* What is left to show of a step of the one command that is at work ...   *)
GoesCalmly(c) ==
  \E place, r :
    /\ Steps(c, place, r)
    /\ Recorded(held'.model, ledger', newest')
    /\ Placed(c, place, r, held'.model, ledger', newest')
    /\ place \notin Driving => Standing(held'.model, ledger', newest')

(* ... and of one that is not, and leaves the binding and the rows alone.  *)
StaysAside(c) ==
  /\ UNCHANGED <<held, ledger, newest>>
  /\ pc[c] \notin Driving
  /\ \E place \in Places \ Driving, r \in Records : Steps(c, place, r)

(* Nobody else is at work on a row where one is taken up.                  *)
TakesUp(c) == ~Beside(c) /\ GoesCalmly(c)

LEMMA StaysAsideBy ==
  ASSUME NEW c \in Commands, NEW place \in Places \ Driving, NEW r \in Records,
         Steps(c, place, r), pc[c] \notin Driving, UNCHANGED <<held, ledger, newest>>
  PROVE  StaysAside(c)
BY DEF StaysAside

LEMMA GoesCalmlyBy ==
  ASSUME NEW c \in Commands, NEW place, NEW r, Steps(c, place, r),
         Recorded(held'.model, ledger', newest'),
         Placed(c, place, r, held'.model, ledger', newest'),
         place \notin Driving => Standing(held'.model, ledger', newest')
  PROVE  GoesCalmly(c)
BY DEF GoesCalmly

(* While a row is open it says nothing of the model.                       *)
LEMMA OpenSaysNothing ==
  ASSUME NEW m, NEW other, NEW l, NEW n, Recorded(m, l, n), OpenIn(l, n)
  PROVE  Recorded(other, l, n)
BY DEF Recorded, RowTells, OpenIn, Terminal

LEMMA PlacedAside ==
  ASSUME NEW c, NEW place, place \notin Driving, NEW r, NEW m, NEW l, NEW n
  PROVE  Placed(c, place, r, m, l, n)
BY DEF Placed, Driving

(* The command that goes on is on the row opened last.                     *)
LEMMA PlacedThere ==
  ASSUME CalmlyRecorded, Calm, NEW c \in Commands
  PROVE  /\ Placed(c, pc[c], record[c], held.model, ledger, newest)
         /\ Recorded(held.model, ledger, newest)
BY DEF CalmlyRecorded

LEMMA NobodyDrives ==
  ASSUME CalmlyRecorded, Calm, NEW c \in Commands, ~Beside(c), pc[c] \notin Driving
  PROVE  Standing(held.model, ledger, newest)
<1>1. \A d \in Commands : pc[d] \notin Driving
  BY DEF Beside
<1> QED
  BY <1>1 DEF CalmlyRecorded

(* A command on the row goes on there: its record keeps the row and the model it
   was on, and neither the ledger nor the newest row changes.              *)
LEMMA DrivesOn ==
  ASSUME NEW c \in Commands, NEW place \in Driving, NEW r, NEW old, NEW m,
         Steps(c, place, r), r.id = old.id, r.from = old.from,
         OnTheRow(c, old, ledger, newest), Recorded(m, ledger, newest),
         UNCHANGED <<ledger, newest>>,
         place \in {"driving", "freezing", "starting"} =>
           held'.model = old.from /\ r.phase \notin Terminal,
         place = "moving" => r.phase = "committed" /\ held'.model = Target[newest],
         place = "undoing" => r.phase = "commit_pending" \/ held'.model = old.from,
         place \in {"restoring", "reloading"} => r.phase = "rolling_back",
         place = "reloading" => held'.model = old.from,
         place = "saving" =>
           /\ r.phase \in Early \cup Terminal
           /\ r.phase = "committed" => held'.model = Target[newest]
           /\ r.phase \in Early \cup {"failed", "rolled_back"} => held'.model = old.from
  PROVE  GoesCalmly(c)
<1>1. OnTheRow(c, r, ledger', newest')
  BY DEF OnTheRow
<1>2. Recorded(held'.model, ledger', newest')
  BY OpenSaysNothing DEF OnTheRow
<1>3. Placed(c, place, r, held'.model, ledger', newest')
  BY <1>1 DEF Placed
<1> QED
  BY <1>2, <1>3, GoesCalmlyBy

LEMMA PlacesDriven ==
  /\ {"driving", "freezing", "starting", "moving", "undoing", "restoring", "reloading",
      "saving"} \subseteq Driving
  /\ {"looking", "opening", "idle", "over"} \cap Driving = {}
BY DEF Driving

(* What a command that has not come to the commit knows of its row.        *)
LEMMA BeforeTheCommit ==
  ASSUME HandoffBase, Calm, CalmlyRecorded, NEW c \in Commands,
         pc[c] \in {"driving", "freezing", "starting"}
  PROVE  /\ record[c] \in Records /\ held.model = record[c].from
         /\ record[c].phase \notin Terminal
         /\ OnTheRow(c, record[c], ledger, newest) /\ Recorded(held.model, ledger, newest)
BY PlacedThere, PlacesDriven DEF Placed, HandoffBase, HandoffTyped

LEMMA PhaseGoesCalmly ==
  ASSUME HandoffBase, Calm, CalmlyRecorded, NEW c \in Commands,
         pc[c] \in {"driving", "freezing", "starting"},
         NEW place \in {"driving", "freezing", "starting"}, NEW phase \in Phases \ Terminal,
         Steps(c, place, InPhase(record[c], phase)), UNCHANGED <<held, ledger, newest>>
  PROVE  GoesCalmly(c)
<1>1. /\ record[c] \in Records /\ held.model = record[c].from
      /\ OnTheRow(c, record[c], ledger, newest) /\ Recorded(held.model, ledger, newest)
  BY BeforeTheCommit
<1>2. /\ InPhase(record[c], phase).id = record[c].id
      /\ InPhase(record[c], phase).from = record[c].from
      /\ InPhase(record[c], phase).phase = phase
  BY <1>1, InPhaseIs
<1>3. held'.model = record[c].from
  BY <1>1
<1> QED
  BY <1>1, <1>2, <1>3, PlacesDriven, DrivesOn

LEMMA FailsCalmly ==
  ASSUME HandoffBase, Calm, CalmlyRecorded, NEW c \in Commands,
         pc[c] \in {"driving", "freezing", "starting"}, Fail(c), UNCHANGED <<ledger, newest>>,
         record[c].phase = "commit_pending" \/ held'.model = held.model
  PROVE  GoesCalmly(c)
<1>1. /\ record[c] \in Records /\ held.model = record[c].from
      /\ OnTheRow(c, record[c], ledger, newest) /\ Recorded(held.model, ledger, newest)
  BY BeforeTheCommit
<1>2. CASE Steps(c, "undoing", record[c])
  BY <1>1, <1>2, PlacesDriven, DrivesOn
<1>3. CASE ~MayHaveReleased(record[c].phase) /\ Steps(c, "saving", InPhase(record[c], "failed"))
  <2>0. held'.model = record[c].from
    BY <1>1, <1>3 DEF MayHaveReleased
  <2>1. "failed" \in Phases /\ "failed" \in Terminal /\ "failed" \notin Early
    BY DEF Phases, Terminal, Early
  <2>2. /\ InPhase(record[c], "failed").id = record[c].id
        /\ InPhase(record[c], "failed").from = record[c].from
        /\ InPhase(record[c], "failed").phase = "failed"
    BY <1>1, <2>1, InPhaseIs
  <2> QED
    BY <1>1, <1>3, <2>0, <2>1, <2>2, PlacesDriven, DrivesOn
<1> QED
  BY <1>2, <1>3, FailIs DEF HandoffBase

LEMMA BeginStaysAside ==
  ASSUME HandoffBase, NEW c \in Commands, Begin(c)
  PROVE  StaysAside(c)
<1>1. pc[c] \notin Driving /\ "looking" \in Places \ Driving
  BY DEF Begin, Driving, Places
<1>2. UNCHANGED <<held, ledger, newest>>
  BY DEF Begin, registry, rows
<1> QED
  BY <1>1, <1>2, BeginGoes DEF HandoffBase, StaysAside

(* A row that is picked up, while nobody else is at work on one.           *)
LEMMA PickUpIsCalm ==
  ASSUME HandoffBase, Calm, CalmlyRecorded, NEW c \in Commands, ~Beside(c),
         pc[c] \notin Driving, UNCHANGED <<held, ledger, newest>>,
         NEW id \in Moves, IsOpen(id), c \in Moves => SameAct(c, id),
         NEW place \in {"driving", "saving"}, NEW r \in Records, Steps(c, place, r),
         r.id = id, r.from = ledger[id].from,
         r.phase = IF place = "driving" THEN ledger[id].phase ELSE "failed"
  PROVE  GoesCalmly(c)
<1>1. Standing(held.model, ledger, newest) /\ Recorded(held.model, ledger, newest)
  BY NobodyDrives, PlacedThere
<1>2. id = newest /\ OpenIn(ledger, newest) /\ newest # None
  BY <1>1, HandoffAssumption DEF IsOpen, OpenIn, Recorded, OpenIsNewest
<1>3. OnTheRow(c, r, ledger, newest)
  BY <1>2 DEF OnTheRow, SameAct
<1>4. held'.model = r.from /\ ledger[id].phase \notin Terminal
  BY <1>1, <1>2 DEF Standing, OpenIn
<1>5. "failed" \in Terminal
  BY DEF Terminal
<1> QED
  BY <1>1, <1>3, <1>4, <1>5, PlacesDriven, DrivesOn

LEMMA LookGoesCalmly ==
  ASSUME HandoffBase, Calm, CalmlyRecorded, NEW c \in Commands, Calm', Look(c)
  PROVE  StaysAside(c) \/ TakesUp(c)
<1>1. UNCHANGED <<held, ledger, newest>> /\ pc[c] \notin Driving
  BY PlacesDriven DEF Look, registry, rows
<1>2. {"opening", "over"} \subseteq Places \ Driving /\ NoRecord \in Records
      /\ record[c] \in Records
  BY NoRecordIs DEF Places, Driving, HandoffBase, HandoffTyped
<1>3. CASE Steps(c, "opening", record[c]) \/ Steps(c, "over", NoRecord)
  BY <1>1, <1>2, <1>3, StaysAsideBy
<1>4. CASE ~(Steps(c, "opening", record[c]) \/ Steps(c, "over", NoRecord))
  <2>1. PICK id \in Moves : IsOpen(id) /\ SameAct(c, id) /\ Steps(c, "driving", Read(id))
    BY <1>4, LookGoes DEF HandoffBase
  <2>2. pc'[c] = "driving"
    BY <2>1, GoneTo
  <2>3. ~Beside(c)
    BY <2>2 DEF Look, Goto, Calm, HandoffBase, HandoffTyped
  <2>4. /\ Read(id) \in Records /\ Read(id).id = id /\ Read(id).phase = ledger[id].phase
        /\ Read(id).from = ledger[id].from
    BY ReadIs DEF HandoffBase
  <2> QED
    BY <1>1, <2>1, <2>3, <2>4, PickUpIsCalm DEF TakesUp
<1> QED
  BY <1>3, <1>4

(* A row that is opened begins anew, whatever the one before it said.      *)
LEMMA OpenGoesCalmly ==
  ASSUME HandoffBase, Fresh, NEW c \in Commands, Calm', Open(c)
  PROVE  (Calm /\ StaysAside(c)) \/ TakesUp(c)
<1>1. pc[c] = "opening" /\ c \in Moves /\ record[c] \in Records
  BY Driven DEF Open, AtRest, HandoffBase, HandoffTyped
<1>2. record[c].id = c /\ record[c].phase = "requested"
  BY <1>1 DEF Fresh
<1>3. UNCHANGED held /\ "requested" \notin Terminal \cup {None}
  BY PhasesAssumption DEF Open, registry, Phases, Early, Terminal
<1>4. PICK written \in Writes(c, record[c].phase) :
        IF written
          THEN /\ ledger' = [ledger EXCEPT ![c] = Row(record[c])]
               /\ newest' = c
               /\ Goto(c, "driving")
               /\ torn' = (record[c].from # held.model \/ Beside(c))
               /\ UNCHANGED <<badSaves, record>>
          ELSE /\ badSaves' = badSaves + 1
               /\ record' = [record EXCEPT ![c] = NoRecord]
               /\ Goto(c, "over")
               /\ UNCHANGED <<ledger, newest, torn>>
  BY DEF Open
<1>5. CASE ~written
  <2>1. "over" \in Places \ Driving /\ NoRecord \in Records /\ pc[c] \notin Driving
    BY <1>1, NoRecordIs DEF Places, Driving
  <2>2. Steps(c, "over", NoRecord)
    BY <1>4, <1>5, <2>1, StepsIs DEF Goto, HandoffBase
  <2>3. Calm
    BY <1>4, <1>5 DEF Calm
  <2> QED
    BY <1>3, <1>4, <1>5, <2>1, <2>2, <2>3, StaysAsideBy
<1>6. CASE written
  <2>1. \A id \in Moves \ {c} : ~OpenIn(ledger, id)
    BY <1>2, <1>3, <1>4, <1>6 DEF Writes, IsOpen, OpenIn
  <2>2. record[c].from = held.model /\ ~Beside(c)
    BY <1>4, <1>6 DEF Calm
  <2>3. Steps(c, "driving", record[c])
    BY <1>4, <1>6, StaysIs DEF Goto, HandoffBase, Places
  <2>4. newest' = c /\ ledger' = [ledger EXCEPT ![c] = Row(record[c])]
    BY <1>4, <1>6
  <2>5. ledger'[c].phase = "requested" /\ ledger'[c].from = held.model
    BY <1>1, <1>2, <2>2, <2>4, RowIs DEF HandoffBase, HandoffTyped
  <2>6. \A id \in Moves : OpenIn(ledger', id) => id = c
    BY <2>1, <2>4 DEF OpenIn, HandoffBase, HandoffTyped
  <2>7. OnTheRow(c, record[c], ledger', c)
    BY <1>1, <1>2, <1>3, <2>2, <2>5 DEF OnTheRow, OpenIn
  <2>8. Recorded(held'.model, ledger', c)
    BY <1>3, <2>5, <2>6 DEF Recorded, OpenIsNewest, RowTells, Terminal
  <2>9. Placed(c, "driving", record[c], held'.model, ledger', c)
    BY <1>2, <1>3, <2>2, <2>7 DEF Placed
  <2> QED
    BY <2>2, <2>3, <2>4, <2>8, <2>9, PlacesDriven, GoesCalmlyBy DEF TakesUp
<1> QED
  BY <1>5, <1>6

LEMMA DrainGoesCalmly ==
  ASSUME HandoffBase, Calm, CalmlyRecorded, NEW c \in Commands, Drain(c)
  PROVE  GoesCalmly(c)
<1>1. UNCHANGED <<held, ledger, newest>> /\ pc[c] = "driving"
  BY DEF Drain, registry, rows
<1>2. /\ record[c] \in Records /\ held.model = record[c].from
      /\ OnTheRow(c, record[c], ledger, newest) /\ Recorded(held.model, ledger, newest)
  BY <1>1, BeforeTheCommit
<1>3. {"draining", "awaiting_settlement"} \subseteq Early /\ Early \subseteq Phases \ Terminal
      /\ "committed" \notin Early
  BY DEF Early, Phases, Terminal
<1>4. CASE Steps(c, "freezing", InPhase(record[c], "draining"))
  BY <1>1, <1>3, <1>4, PhaseGoesCalmly
<1>5. ASSUME NEW phase \in {"draining", "awaiting_settlement"},
             Steps(c, "saving", InPhase(record[c], phase))
      PROVE  GoesCalmly(c)
  <2>1. /\ InPhase(record[c], phase).id = record[c].id
        /\ InPhase(record[c], phase).from = record[c].from
        /\ InPhase(record[c], phase).phase = phase
    BY <1>2, <1>3, InPhaseIs
  <2>2. phase \in Early /\ phase # "committed" /\ held'.model = record[c].from
    BY <1>1, <1>2, <1>3
  <2> QED
    BY <1>1, <1>2, <1>5, <2>1, <2>2, PlacesDriven, DrivesOn
<1> QED
  BY <1>4, <1>5, DrainGoes DEF HandoffBase

LEMMA FreezeGoesCalmly ==
  ASSUME HandoffBase, Calm, CalmlyRecorded, NEW c \in Commands, Freeze(c)
  PROVE  GoesCalmly(c)
<1>1. UNCHANGED <<held, ledger, newest>> /\ pc[c] \in {"driving", "freezing", "starting"}
  BY DEF Freeze, registry, rows
<1>2. {"validating", "loading", "recompiling", "commit_pending"} \subseteq Phases \ Terminal
  BY DEF Phases, Terminal
<1> QED
  BY <1>1, <1>2, PhaseGoesCalmly, FailsCalmly, FreezeGoes DEF HandoffBase

LEMMA ValidateGoesCalmly ==
  ASSUME HandoffBase, Calm, CalmlyRecorded, NEW c \in Commands, Validate(c)
  PROVE  GoesCalmly(c)
<1>1. UNCHANGED <<held, ledger, newest>> /\ pc[c] \in {"driving", "freezing", "starting"}
  BY DEF Validate, registry, rows
<1>2. {"validating", "loading", "recompiling", "commit_pending"} \subseteq Phases \ Terminal
  BY DEF Phases, Terminal
<1> QED
  BY <1>1, <1>2, PhaseGoesCalmly, FailsCalmly, ValidateGoes DEF HandoffBase

LEMMA StartGoesCalmly ==
  ASSUME HandoffBase, Calm, CalmlyRecorded, NEW c \in Commands, Start(c)
  PROVE  GoesCalmly(c)
<1>1. UNCHANGED <<held, ledger, newest>> /\ pc[c] \in {"driving", "freezing", "starting"}
  BY DEF Start, registry, rows
<1>2. {"validating", "loading", "recompiling", "commit_pending"} \subseteq Phases \ Terminal
  BY DEF Phases, Terminal
<1> QED
  BY <1>1, <1>2, PhaseGoesCalmly, FailsCalmly, StartGoes DEF HandoffBase

LEMMA RecompileGoesCalmly ==
  ASSUME HandoffBase, Calm, CalmlyRecorded, NEW c \in Commands, Recompile(c)
  PROVE  GoesCalmly(c)
<1>1. UNCHANGED <<held, ledger, newest>> /\ pc[c] \in {"driving", "freezing", "starting"}
  BY DEF Recompile, registry, rows
<1>2. {"validating", "loading", "recompiling", "commit_pending"} \subseteq Phases \ Terminal
  BY DEF Phases, Terminal
<1> QED
  BY <1>1, <1>2, PhaseGoesCalmly, FailsCalmly, RecompileGoes DEF HandoffBase

LEMMA AdmitGoesCalmly ==
  ASSUME HandoffBase, Calm, CalmlyRecorded, NEW c \in Commands, Admit(c)
  PROVE  GoesCalmly(c)
<1>1. UNCHANGED <<held, ledger, newest>> /\ pc[c] = "driving"
  BY DEF Admit, registry, rows
<1>2. CASE \E r \in Records : /\ Steps(c, "starting", r) /\ r.id = record[c].id
                              /\ r.phase = record[c].phase /\ r.from = record[c].from
  <2>1. PICK r \in Records : /\ Steps(c, "starting", r) /\ r.id = record[c].id
                            /\ r.phase = record[c].phase /\ r.from = record[c].from
    BY <1>2
  <2>2. /\ held.model = record[c].from /\ record[c].phase \notin Terminal
        /\ OnTheRow(c, record[c], ledger, newest) /\ Recorded(held.model, ledger, newest)
    BY <1>1, BeforeTheCommit
  <2> QED
    BY <1>1, <2>1, <2>2, PlacesDriven, DrivesOn
<1> QED
  BY <1>1, <1>2, FailsCalmly, AdmitGoes DEF HandoffBase

LEMMA RebindGoesCalmly ==
  ASSUME HandoffBase, Calm, CalmlyRecorded, NEW c \in Commands, Rebind(c)
  PROVE  GoesCalmly(c)
<1>1. UNCHANGED <<ledger, newest>> /\ pc[c] = "driving" /\ record[c].phase = "commit_pending"
  BY DEF Rebind, rows
<1>2. CASE /\ Steps(c, "moving", InPhase(record[c], "committed"))
           /\ Write([model |-> Target[c], version |-> held.version + 1], TRUE)
  <2>1. /\ record[c] \in Records
        /\ OnTheRow(c, record[c], ledger, newest) /\ Recorded(held.model, ledger, newest)
    BY <1>1, BeforeTheCommit
  <2>2. held'.model = Target[newest]
    <3>1. c \in Moves
      BY <1>1, Driven DEF AtRest
    <3>2. held'.model = Target[c]
      BY <1>2 DEF Write
    <3> QED
      BY <2>1, <3>1, <3>2 DEF OnTheRow
  <2>3. "committed" \in Phases
    BY DEF Phases, Terminal
  <2>4. /\ InPhase(record[c], "committed").id = record[c].id
        /\ InPhase(record[c], "committed").from = record[c].from
        /\ InPhase(record[c], "committed").phase = "committed"
    BY <2>1, <2>3, InPhaseIs
  <2> QED
    BY <1>1, <1>2, <2>1, <2>2, <2>4, PlacesDriven, DrivesOn
<1> QED
  BY <1>1, <1>2, FailsCalmly, RebindGoes DEF HandoffBase

LEMMA MoveGoesCalmly ==
  ASSUME HandoffBase, Calm, CalmlyRecorded, NEW c \in Commands, Move(c)
  PROVE  GoesCalmly(c)
<1>0. pc[c] = "moving" /\ UNCHANGED <<ledger, newest>>
  BY DEF Move, rows
<1>1. /\ record[c] \in Records /\ Placed(c, pc[c], record[c], held.model, ledger, newest)
      /\ Recorded(held.model, ledger, newest)
  BY PlacedThere DEF HandoffBase, HandoffTyped
<1>2. OnTheRow(c, record[c], ledger, newest)
  BY <1>0, <1>1, PlacesDriven DEF Placed
<1>3. record[c].phase = "committed" /\ held'.model = Target[newest]
  BY <1>0, <1>1 DEF Placed, Move, registry
<1>4. "committed" \in Terminal /\ "committed" \notin Early
  BY DEF Terminal, Early
<1> QED
  BY <1>0, <1>1, <1>2, <1>3, <1>4, MoveGoes, PlacesDriven, DrivesOn DEF HandoffBase

LEMMA UndoGoesCalmly ==
  ASSUME HandoffBase, Calm, CalmlyRecorded, NEW c \in Commands, Undo(c)
  PROVE  GoesCalmly(c)
<1>0. pc[c] = "undoing" /\ UNCHANGED <<ledger, newest>>
  BY DEF Undo, rows
<1>1. /\ record[c] \in Records /\ Placed(c, pc[c], record[c], held.model, ledger, newest)
      /\ Recorded(held.model, ledger, newest)
  BY PlacedThere DEF HandoffBase, HandoffTyped
<1>2. OnTheRow(c, record[c], ledger, newest)
  BY <1>0, <1>1, PlacesDriven DEF Placed
<1>3. UNCHANGED held
  BY DEF Undo, registry
<1>4. PICK r \in Records :
        /\ Steps(c, IF held.model = record[c].from THEN "reloading" ELSE "restoring", r)
        /\ r.id = record[c].id /\ r.from = record[c].from /\ r.phase = "rolling_back"
  BY UndoGoes DEF HandoffBase
<1>5. CASE held.model = record[c].from
  BY <1>0, <1>1, <1>2, <1>3, <1>4, <1>5, PlacesDriven, DrivesOn
<1>6. CASE held.model # record[c].from
  BY <1>0, <1>1, <1>2, <1>3, <1>4, <1>6, PlacesDriven, DrivesOn
<1> QED
  BY <1>5, <1>6

LEMMA RestoreGoesCalmly ==
  ASSUME HandoffBase, Calm, CalmlyRecorded, NEW c \in Commands, Restore(c)
  PROVE  GoesCalmly(c)
<1>0. pc[c] = "restoring" /\ UNCHANGED <<ledger, newest>>
  BY DEF Restore, rows
<1>1. /\ record[c] \in Records /\ Placed(c, pc[c], record[c], held.model, ledger, newest)
      /\ Recorded(held.model, ledger, newest)
  BY PlacedThere DEF HandoffBase, HandoffTyped
<1>2. OnTheRow(c, record[c], ledger, newest) /\ record[c].phase = "rolling_back"
  BY <1>0, <1>1, PlacesDriven DEF Placed
<1>3. CASE /\ Steps(c, "reloading", record[c])
           /\ Write([model |-> record[c].from, version |-> held.version + 1], TRUE)
  <2>1. held'.model = record[c].from
    BY <1>3 DEF Write
  <2> QED
    BY <1>0, <1>1, <1>2, <1>3, <2>1, PlacesDriven, DrivesOn
<1>4. CASE Steps(c, "saving", InPhase(record[c], "rollback_failed"))
  <2>1. "rollback_failed" \in Phases /\ "rollback_failed" \in Terminal
        /\ "rollback_failed" \notin Early
    BY DEF Phases, Terminal, Early
  <2>2. /\ InPhase(record[c], "rollback_failed").id = record[c].id
        /\ InPhase(record[c], "rollback_failed").from = record[c].from
        /\ InPhase(record[c], "rollback_failed").phase = "rollback_failed"
    BY <1>1, <2>1, InPhaseIs
  <2> QED
    BY <1>0, <1>1, <1>2, <1>4, <2>1, <2>2, PlacesDriven, DrivesOn
<1> QED
  BY <1>3, <1>4, RestoreGoes DEF HandoffBase

LEMMA ReloadGoesCalmly ==
  ASSUME HandoffBase, Calm, CalmlyRecorded, NEW c \in Commands, Reload(c)
  PROVE  GoesCalmly(c)
<1>0. pc[c] = "reloading" /\ UNCHANGED <<ledger, newest>>
  BY DEF Reload, rows
<1>1. /\ record[c] \in Records /\ Placed(c, pc[c], record[c], held.model, ledger, newest)
      /\ Recorded(held.model, ledger, newest)
  BY PlacedThere DEF HandoffBase, HandoffTyped
<1>2. OnTheRow(c, record[c], ledger, newest)
  BY <1>0, <1>1, PlacesDriven DEF Placed
<1>3. held'.model = record[c].from
  BY <1>0, <1>1 DEF Placed, Reload, registry
<1>4. ASSUME NEW phase \in {"rolled_back", "rollback_failed"},
             Steps(c, "saving", InPhase(record[c], phase))
      PROVE  GoesCalmly(c)
  <2>1. phase \in Phases /\ phase \in Terminal /\ phase # "committed"
    BY DEF Phases, Terminal
  <2>2. /\ InPhase(record[c], phase).id = record[c].id
        /\ InPhase(record[c], phase).from = record[c].from
        /\ InPhase(record[c], phase).phase = phase
    BY <1>1, <2>1, InPhaseIs
  <2> QED
    BY <1>0, <1>1, <1>2, <1>3, <1>4, <2>1, <2>2, PlacesDriven, DrivesOn
<1> QED
  BY <1>4, ReloadGoes DEF HandoffBase

LEMMA SaveGoesCalmly ==
  ASSUME HandoffBase, Calm, CalmlyRecorded, NEW c \in Commands, Calm', Save(c)
  PROVE  GoesCalmly(c)
<1>0. pc[c] = "saving" /\ UNCHANGED <<held, newest>>
  BY DEF Save, registry
<1>1. /\ record[c] \in Records /\ Placed(c, pc[c], record[c], held.model, ledger, newest)
      /\ Recorded(held.model, ledger, newest)
  BY PlacedThere DEF HandoffBase, HandoffTyped
<1>2. OnTheRow(c, record[c], ledger, newest)
  BY <1>0, <1>1, PlacesDriven DEF Placed
<1>3. /\ record[c].phase \in Early \cup Terminal
      /\ record[c].phase = "committed" => held.model = Target[newest]
      /\ record[c].phase \in Early \cup {"failed", "rolled_back"} => held.model = record[c].from
  BY <1>0, <1>1 DEF Placed
<1>4. Steps(c, "over", NoRecord) /\ "over" \notin Driving
  BY SaveGoes DEF HandoffBase, Driving
<1>5. Placed(c, "over", NoRecord, held'.model, ledger', newest')
  BY <1>4, PlacedAside
<1>6. CASE ledger' = [ledger EXCEPT ![newest] = Row(record[c])]
  <2>1. newest \in Moves /\ ledger \in [Moves -> Rows]
    BY <1>2 DEF OnTheRow, HandoffBase, HandoffTyped
  <2>2. /\ ledger'[newest].phase = record[c].phase /\ ledger'[newest].from = record[c].from
        /\ \A id \in Moves \ {newest} : ledger'[id] = ledger[id]
    BY <1>1, <1>6, <2>1, RowIs
  <2>3. OpenIsNewest(ledger', newest)
    BY <1>1, <2>2 DEF Recorded, OpenIsNewest, OpenIn
  <2>4. RowTells(held.model, ledger', newest)
    BY <1>3, <2>2 DEF RowTells
  <2>5. Standing(held.model, ledger', newest)
    BY <1>3, <2>2 DEF Standing, OpenIn
  <2> QED
    BY <1>0, <1>4, <1>5, <2>3, <2>4, <2>5, GoesCalmlyBy DEF Recorded
<1>7. CASE UNCHANGED ledger /\ ~InTheCommit(c)
  <2>1. held.model = record[c].from
    BY <1>3, <1>7 DEF InTheCommit, Terminal
  <2>2. Standing(held.model, ledger, newest)
    BY <1>2, <2>1 DEF Standing, OnTheRow
  <2> QED
    BY <1>0, <1>1, <1>4, <1>5, <1>7, <2>2, GoesCalmlyBy
<1> QED
  BY <1>2, <1>6, <1>7 DEF Save, Calm, OnTheRow

LEMMA CloseGoesCalmly ==
  ASSUME HandoffBase, Calm, CalmlyRecorded, NEW c \in Commands, Calm', Close(c)
  PROVE  StaysAside(c) \/ TakesUp(c)
<1>1. UNCHANGED <<held, ledger, newest>>
  BY DEF Close, registry, rows
<1>2. pc[c] \notin Driving /\ c \notin Moves /\ record[c] \in Records
  BY HandoffAssumption DEF Close, Driving, HandoffBase, HandoffTyped
<1>3. CASE \E id \in Moves : IsOpen(id) /\ Steps(c, "saving", InPhase(Read(id), "failed"))
  <2>1. PICK id \in Moves : IsOpen(id) /\ Steps(c, "saving", InPhase(Read(id), "failed"))
    BY <1>3
  <2>2. pc'[c] = "saving"
    BY <2>1, GoneTo
  <2>3. ~Beside(c)
    BY <2>2 DEF Close, Goto, Calm, HandoffBase, HandoffTyped
  <2>4. Read(id) \in Records /\ Read(id).id = id /\ Read(id).from = ledger[id].from
    BY ReadIs DEF HandoffBase
  <2>5. "failed" \in Phases
    BY DEF Phases, Terminal
  <2>6. /\ InPhase(Read(id), "failed") \in Records
        /\ InPhase(Read(id), "failed").id = Read(id).id
        /\ InPhase(Read(id), "failed").from = Read(id).from
        /\ InPhase(Read(id), "failed").phase = "failed"
    BY <2>4, <2>5, InPhaseIs
  <2>7. GoesCalmly(c)
    BY <1>1, <1>2, <2>1, <2>3, <2>4, <2>6, PickUpIsCalm
  <2> QED
    BY <2>3, <2>7 DEF TakesUp
<1>4. CASE Steps(c, "over", record[c])
  <2>1. "over" \in Places \ Driving
    BY DEF Places, Driving
  <2> QED
    BY <1>1, <1>2, <1>4, <2>1, StaysAsideBy
<1> QED
  BY <1>3, <1>4, CloseGoes DEF HandoffBase

(* Only the opening of a row makes good what a step before it has torn.    *)
LEMMA CalmBefore ==
  ASSUME NEW c \in Commands, Begin(c) \/ Drive(c) \/ Close(c), ~Open(c), Calm'
  PROVE  Calm
<1>1. CASE Look(c) \/ Save(c) \/ Close(c)
  BY <1>1 DEF Look, Save, Close, Calm
<1>2. CASE Admit(c) \/ Reload(c)
  BY <1>2 DEF Admit, Reload, Calm
<1>3. CASE \/ Begin(c) \/ Drain(c) \/ Freeze(c) \/ Validate(c) \/ Start(c) \/ Recompile(c)
           \/ Rebind(c) \/ Move(c) \/ Undo(c) \/ Restore(c)
  BY <1>3 DEF Begin, Drain, Freeze, Validate, Start, Recompile, Rebind, Move, Undo, Restore,
              history, Calm
<1> QED
  BY <1>1, <1>2, <1>3 DEF Drive

(* A command at work goes on by itself, and one that takes up a row does so
   where nobody is at work on one.                                         *)
LEMMA DriverGoesCalmly ==
  ASSUME HandoffBase, Calm, CalmlyRecorded, NEW c \in Commands, Calm',
         Drain(c) \/ Freeze(c) \/ Validate(c) \/ Admit(c) \/ Start(c) \/ Recompile(c)
           \/ Rebind(c) \/ Move(c) \/ Undo(c) \/ Restore(c) \/ Reload(c) \/ Save(c)
  PROVE  TakesUp(c)
<1>1. pc[c] \in Driving
  BY DEF Drain, Freeze, Validate, Admit, Start, Recompile, Rebind, Move, Undo, Restore, Reload,
         Save, Driving
<1>2. ~Beside(c)
  BY <1>1 DEF CalmlyRecorded, OneDrives, Beside
<1>3. GoesCalmly(c)
  BY DrainGoesCalmly, FreezeGoesCalmly, ValidateGoesCalmly, AdmitGoesCalmly, StartGoesCalmly,
     RecompileGoesCalmly, RebindGoesCalmly, MoveGoesCalmly, UndoGoesCalmly,
     RestoreGoesCalmly, ReloadGoesCalmly, SaveGoesCalmly
<1> QED
  BY <1>2, <1>3 DEF TakesUp

LEMMA CommandsGoCalmly ==
  ASSUME HandoffBase, Fresh, CalmlyRecorded, NEW c \in Commands, Calm',
         Begin(c) \/ Drive(c) \/ Close(c)
  PROVE  (Calm /\ StaysAside(c)) \/ TakesUp(c)
<1>1. CASE Open(c)
  BY <1>1, OpenGoesCalmly
<1>2. CASE ~Open(c)
  <2>1. Calm
    BY <1>2, CalmBefore
  <2>2. CASE Begin(c)
    BY <2>1, <2>2, BeginStaysAside
  <2>3. CASE Look(c)
    BY <2>1, <2>3, LookGoesCalmly
  <2>4. CASE Close(c)
    BY <2>1, <2>4, CloseGoesCalmly
  <2>5. CASE Drive(c) /\ ~Look(c)
    BY <1>2, <2>1, <2>5, DriverGoesCalmly DEF Drive
  <2> QED
    BY <2>2, <2>3, <2>4, <2>5
<1> QED
  BY <1>1, <1>2

LEMMA CommandIsCalm ==
  ASSUME HandoffBase, Fresh, CalmlyRecorded, NEW c \in Commands, Calm',
         Begin(c) \/ Drive(c) \/ Close(c)
  PROVE  CalmlyRecorded'
<1>1. CASE Calm /\ StaysAside(c)
  <2>1. PICK place \in Places \ Driving, r \in Records : Steps(c, place, r)
    BY <1>1 DEF StaysAside
  <2>2. /\ pc'[c] \notin Driving /\ pc[c] \notin Driving
        /\ \A d \in Commands \ {c} : pc'[d] = pc[d] /\ record'[d] = record[d]
    BY <1>1, <2>1, GoneTo DEF StaysAside
  <2>3. UNCHANGED <<held, ledger, newest>>
    BY <1>1 DEF StaysAside
  <2>4. ASSUME NEW d \in Commands
        PROVE  Placed(d, pc'[d], record'[d], held'.model, ledger', newest')
    <3>1. CASE d = c
      BY <2>2, <3>1, PlacedAside
    <3>2. CASE d # c
      BY <1>1, <2>2, <2>3, <3>2 DEF CalmlyRecorded
    <3> QED
      BY <3>1, <3>2
  <2>5. OneDrives'
    BY <1>1, <2>2 DEF CalmlyRecorded, OneDrives
  <2>6. (\A d \in Commands : pc'[d] \notin Driving) => \A d \in Commands : pc[d] \notin Driving
    BY <2>2
  <2> QED
    BY <1>1, <2>3, <2>4, <2>5, <2>6 DEF CalmlyRecorded
<1>2. CASE TakesUp(c)
  <2>1. PICK place, r :
          /\ Steps(c, place, r)
          /\ Recorded(held'.model, ledger', newest')
          /\ Placed(c, place, r, held'.model, ledger', newest')
          /\ place \notin Driving => Standing(held'.model, ledger', newest')
    BY <1>2 DEF TakesUp, GoesCalmly
  <2>2. pc'[c] = place /\ record'[c] = r /\ \A d \in Commands \ {c} : pc'[d] \notin Driving
    BY <1>2, <2>1, GoneTo DEF TakesUp, Beside
  <2>3. ASSUME NEW d \in Commands
        PROVE  Placed(d, pc'[d], record'[d], held'.model, ledger', newest')
    <3>1. CASE d = c
      BY <2>1, <2>2, <3>1
    <3>2. CASE d # c
      BY <2>2, <3>2, PlacedAside
    <3> QED
      BY <3>1, <3>2
  <2>4. OneDrives'
    BY <2>2 DEF OneDrives
  <2> QED
    BY <2>1, <2>2, <2>3, <2>4 DEF CalmlyRecorded
<1> QED
  BY <1>1, <1>2, CommandsGoCalmly

(* A death outside the commit finds the binding where the open row has it. *)
LEMMA CrashIsCalm ==
  ASSUME HandoffBase, CalmlyRecorded, Calm', Crash
  PROVE  CalmlyRecorded'
<1>1. Calm /\ held.model = stored.model /\ \A c \in Commands : ~InTheCommit(c)
  BY DEF Crash, Calm
<1>2. held'.model = held.model /\ UNCHANGED <<ledger, newest>>
  BY <1>1 DEF Crash, rows
<1>3. \A c \in Commands : pc'[c] \notin Driving
  BY DEF Crash, Driving
<1>4. Standing(held.model, ledger, newest)
  <2>1. ASSUME NEW c \in Commands, pc[c] \in Driving PROVE Standing(held.model, ledger, newest)
    <3>1. Placed(c, pc[c], record[c], held.model, ledger, newest)
      BY <1>1, PlacedThere
    <3>2. OnTheRow(c, record[c], ledger, newest)
      BY <2>1, <3>1 DEF Placed
    <3>3. held.model = record[c].from
      BY <1>1, <2>1, <3>1 DEF Placed, InTheCommit, Driving, Terminal
    <3> QED
      BY <3>2, <3>3 DEF Standing, OnTheRow
  <2> QED
    BY <1>1, <2>1 DEF CalmlyRecorded
<1>5. \A c \in Commands : Placed(c, pc'[c], record'[c], held'.model, ledger', newest')
  BY <1>3, PlacedAside
<1> QED
  BY <1>1, <1>2, <1>3, <1>4, <1>5 DEF CalmlyRecorded, OneDrives

LEMMA CalmStep ==
  ASSUME HandoffBase, Fresh, CalmlyRecorded, [Next]_vars
  PROVE  CalmlyRecorded'
<1>0. SUFFICES ASSUME Calm' PROVE CalmlyRecorded'
  BY DEF CalmlyRecorded
<1>1. ASSUME NEW c \in Commands, Begin(c) \/ Drive(c) \/ Close(c) PROVE CalmlyRecorded'
  BY <1>0, <1>1, CommandIsCalm
<1>2. CASE held'.model = held.model /\ UNCHANGED <<ledger, newest, pc, record, torn>>
  BY <1>2 DEF CalmlyRecorded, OneDrives, Calm
<1>3. CASE Edit
  <2>1. PICK written \in BOOLEAN : Write([held EXCEPT !.version = @ + 1], written)
    BY <1>3 DEF Edit
  <2>2. held'.model = held.model
    BY <2>1 DEF Write, HandoffBase, HandoffTyped, Definitions
  <2> QED
    BY <1>2, <1>3, <2>2 DEF Edit, rows, history
<1>4. CASE RunMoves \/ UNCHANGED vars
  BY <1>2, <1>4 DEF RunMoves, vars, registry, rows, history
<1>5. CASE Crash
  BY <1>0, <1>5, CrashIsCalm
<1> QED
  BY <1>1, <1>3, <1>4, <1>5 DEF Next

LEMMA CalmInit == Init => CalmlyRecorded
<1> SUFFICES ASSUME Init PROVE CalmlyRecorded
  OBVIOUS
<1>1. \A c \in Commands : pc[c] \notin Driving
  BY DEF Init, Driving
<1>2. \A id \in Moves : ~OpenIn(ledger, id)
  BY DEF Init, OpenIn, NoRow
<1>3. newest = None
  BY DEF Init
<1>4. Recorded(held.model, ledger, newest) /\ Standing(held.model, ledger, newest)
  BY <1>2, <1>3 DEF Recorded, OpenIsNewest, RowTells, Standing
<1> QED
  BY <1>1, <1>4, PlacedAside DEF CalmlyRecorded, OneDrives

(* The newest row tells what the agent is on: a move that committed left it on its
   target, one that failed or was rolled back on the model it was on
   (model_handoff.rs, execute and settle_failure), through deaths, rows that cannot
   be written and commands beside each other, unless one of the steps that tear a
   row has been taken since it was opened.                                 *)
THEOREM RowsTellTheBinding == Spec => []RecordTellsBinding
<1>1. HandoffSteady /\ CalmlyRecorded /\ [Next]_vars => CalmlyRecorded'
  BY CalmStep DEF HandoffSteady
<1>2. CalmlyRecorded => RecordTellsBinding
  BY DEF CalmlyRecorded, Recorded, RowTells, Calm, RecordTellsBinding
<1> QED
  BY <1>1, <1>2, CalmInit, HandoffSteadyHolds, PTL DEF Spec

=============================================================================
