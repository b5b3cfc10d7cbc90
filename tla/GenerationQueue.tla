-------------------------- MODULE GenerationQueue --------------------------
(***************************************************************************)
(* The model loaded in this process and those who ask it for an answer:    *)
(* requests to the gateway (gateway/server.rs), which queue for one worker *)
(* thread (ai_engine/scheduler.rs), and the desktop's own chats, which     *)
(* lock the runtime themselves (ai_engine/manager.rs).  A generation       *)
(* (ai_engine/runtime.rs) holds the runtime's mutex from start to end and  *)
(* stops when the runtime's one flag is cleared.                           *)
(*                                                                         *)
(* What a token says is abstracted to whether it shows any text: the       *)
(* callback is called for those that do, and learns only from them that    *)
(* nobody reads.                                                           *)
(***************************************************************************)
EXTENDS Naturals, Sequences, FiniteSets

CONSTANTS
  Requests,     \* requests to the gateway
  Streamed,     \* those answered as a stream
  Chats,        \* messages sent from the desktop
  Chunks,       \* prefill chunks of a prompt
  MaxTokens,    \* max_tokens of an answer
  MaxSwaps      \* loads and unloads

ASSUME QueueAssumption ==
  /\ IsFiniteSet(Requests) /\ Streamed \subseteq Requests
  /\ Requests \cap Chats = {} /\ "none" \notin Requests \cup Chats
  /\ {Chunks, MaxTokens} \subseteq Nat \ {0} /\ MaxSwaps \in Nat

Jobs == Requests \cup Chats
Nobody == "none"

VARIABLES
  at,        \* where each request and each chat is
  active,    \* active_requests, the dashboard's count
  depth,     \* jobs queued or running, by the scheduler's count
  queue,     \* the worker's channel
  stream,    \* what became of the channel a request reads its answer from
  cancel,    \* each request's cancel flag
  worker,    \* the request the worker thread runs
  work,      \* where the worker is in run_job
  watching,  \* requests whose cancel flag a watcher thread polls
  mutex,     \* the job whose generation holds the runtime
  flag,      \* is_generating
  stage,     \* the generation: none, prefill or tokens
  count,     \* chunks or tokens it has decoded in that stage
  outcome,   \* how each job's generation ended
  stop,      \* chats whose Stop was pressed: no, asked or done
  loaded,    \* a model is loaded
  swaps,
  cleared,   \* history: requests whose watcher cleared the flag
  wasted     \* history: pieces of text produced for a request nobody reads

gateway == <<at, active>>
channel == <<depth, queue, stream, cancel>>
thread == <<worker, work, watching>>
runtime == <<mutex, flag, stage, count, outcome>>
observed == <<cleared, wasted>>
queueVars == <<gateway, channel, thread, runtime, stop, loaded, swaps, observed>>

GoTo(j, place) == at' = [at EXCEPT ![j] = place]
Free == mutex = Nobody
Reading(r) == at[r] = "reading"
(* finish_request's count never goes below zero. *)
OneLess(n) == IF n = 0 THEN 0 ELSE n - 1

QueueInit ==
  /\ at = [j \in Jobs |-> "new"] /\ active = 0
  /\ depth = 0 /\ queue = <<>>
  /\ stream = [r \in Requests |-> "none"]
  /\ cancel = [r \in Requests |-> FALSE]
  /\ worker = Nobody /\ work = "idle" /\ watching = {}
  /\ mutex = Nobody /\ flag = FALSE /\ stage = "none" /\ count = 0
  /\ outcome = [j \in Jobs |-> "none"]
  /\ stop = [c \in Chats |-> "no"]
  /\ loaded \in BOOLEAN /\ swaps = 0
  /\ cleared = {} /\ wasted = [r \in Requests |-> 0]

----------------------------------------------------------------------------
(* The gateway.  A handler awaits nothing before it reads the answer, so a *)
(* client that hangs up is noticed only from then on.                      *)

Arrive(r) ==
  /\ at[r] = "new"
  /\ active' = active + 1 /\ GoTo(r, "counted")
  /\ UNCHANGED <<channel, thread, runtime, stop, loaded, swaps, observed>>

(* active_model locks the runtime, and so waits for a generation. *)
LookForModel(r) ==
  /\ at[r] = "counted" /\ Free
  /\ \/ loaded /\ GoTo(r, "submitting") /\ UNCHANGED active
     \/ ~loaded /\ GoTo(r, "over") /\ active' = OneLess(active)
  /\ UNCHANGED <<channel, thread, runtime, stop, loaded, swaps, observed>>

Count(r) ==
  /\ at[r] = "submitting"
  /\ depth' = depth + 1 /\ GoTo(r, "sending")
  /\ UNCHANGED <<active, queue, stream, cancel, thread, runtime, stop, loaded, swaps, observed>>

Send(r) ==
  /\ at[r] = "sending"
  /\ queue' = Append(queue, r)
  /\ stream' = [stream EXCEPT ![r] = "open"]
  /\ GoTo(r, "reading")
  /\ UNCHANGED <<active, depth, cancel, thread, runtime, stop, loaded, swaps, observed>>

(* The final chunk, or the end of a channel that never got one. *)
ReadEnd(r) ==
  /\ Reading(r) /\ stream[r] # "open"
  /\ IF r \in Streamed
       THEN GoTo(r, "closing") /\ UNCHANGED active
       ELSE GoTo(r, "over") /\ active' = OneLess(active)
  /\ UNCHANGED <<channel, thread, runtime, stop, loaded, swaps, observed>>

(* The tail of a stream: it runs when the client reads on. *)
StreamTail(r) ==
  /\ at[r] = "closing"
  /\ cancel' = [cancel EXCEPT ![r] = TRUE]
  /\ active' = OneLess(active) /\ GoTo(r, "over")
  /\ UNCHANGED <<depth, queue, stream, thread, runtime, stop, loaded, swaps, observed>>

(* The client hangs up: what reads the answer is dropped, and with it the  *)
(* receiver.  A stream that has not seen its final chunk cancels its job.  *)
HangUp(r) ==
  /\ at[r] \in {"reading", "closing"}
  /\ cancel' = [cancel EXCEPT ![r] = @ \/ (r \in Streamed /\ at[r] = "reading")]
  /\ GoTo(r, "gone")
  /\ UNCHANGED <<active, depth, queue, stream, thread, runtime, stop, loaded, swaps, observed>>

----------------------------------------------------------------------------
(* run_job, on the worker thread.                                          *)

Take ==
  /\ worker = Nobody /\ queue # <<>>
  /\ worker' = Head(queue) /\ queue' = Tail(queue) /\ work' = "taken"
  /\ UNCHANGED <<gateway, depth, stream, cancel, watching, runtime, stop,
                 loaded, swaps, observed>>

(* Cancelled while it queued: nothing is sent and the channel closes. *)
CheckCancel ==
  /\ work = "taken"
  /\ work' = IF cancel[worker] THEN "done" ELSE "checked"
  /\ UNCHANGED <<gateway, channel, worker, watching, runtime, stop, loaded, swaps, observed>>

(* cancel_handle: it takes the mutex and lets go of it. *)
GetFlag ==
  /\ work = "checked" /\ Free
  /\ IF loaded
       THEN work' = "entering" /\ watching' = watching \cup {worker} /\ UNCHANGED stream
       ELSE work' = "done" /\ stream' = [stream EXCEPT ![worker] = "final"] /\ UNCHANGED watching
  /\ UNCHANGED <<gateway, depth, queue, cancel, worker, runtime, stop, loaded, swaps, observed>>

BeginGeneration(j) ==
  /\ mutex' = j /\ flag' = TRUE /\ stage' = "prefill" /\ count' = 0
  /\ UNCHANGED outcome

(* generate_direct locks the runtime again; its model may be gone by then. *)
Enter ==
  /\ work = "entering" /\ Free
  /\ \/ loaded /\ BeginGeneration(worker) /\ work' = "generating"
     \/ ~loaded /\ work' = "returned" /\ outcome' = [outcome EXCEPT ![worker] = "failed"]
        /\ UNCHANGED <<mutex, flag, stage, count>>
  /\ UNCHANGED <<gateway, channel, worker, watching, stop, loaded, swaps, observed>>

\* Mutant: the watcher outlives the job.
ReturnUnjoined ==
  /\ work = "returned"
  /\ work' = "done"
  /\ stream' = [stream EXCEPT ![worker] =
       IF outcome[worker] \in {"failed", "refused"} THEN "final" ELSE @]
  /\ UNCHANGED <<gateway, depth, queue, cancel, worker, watching, runtime,
                 stop, loaded, swaps, observed>>

\* Mutant: the watcher is joined and never told that the job is finished.
ReturnJoins ==
  /\ work = "returned" /\ worker \notin watching
  /\ work' = "done"
  /\ stream' = [stream EXCEPT ![worker] =
       IF outcome[worker] \in {"failed", "refused"} THEN "final" ELSE @]
  /\ UNCHANGED <<gateway, depth, queue, cancel, worker, watching, runtime,
                 stop, loaded, swaps, observed>>

\* Mutant: an error is logged and not sent.
ReturnSilent ==
  /\ work = "returned"
  /\ watching' = watching \ {worker} /\ work' = "done"
  /\ UNCHANGED <<gateway, channel, worker, runtime, stop, loaded, swaps, observed>>

(* finished is set and the watcher joined; an error becomes a final chunk. *)
Return ==
  /\ work = "returned"
  /\ watching' = watching \ {worker} /\ work' = "done"
  /\ stream' = [stream EXCEPT ![worker] =
       IF outcome[worker] \in {"failed", "refused"} THEN "final" ELSE @]
  /\ UNCHANGED <<gateway, depth, queue, cancel, worker, runtime, stop, loaded, swaps, observed>>

(* The sender is dropped with the job, and the job is counted down. *)
Done ==
  /\ work = "done"
  /\ stream' = [stream EXCEPT ![worker] = IF @ = "open" THEN "closed" ELSE @]
  /\ depth' = depth - 1 /\ worker' = Nobody /\ work' = "idle"
  /\ UNCHANGED <<gateway, queue, cancel, watching, runtime, stop, loaded, swaps, observed>>

(* The watcher clears the flag once and ends. *)
Watch(r) ==
  /\ r \in watching /\ cancel[r]
  /\ flag' = FALSE /\ watching' = watching \ {r} /\ cleared' = cleared \cup {r}
  /\ UNCHANGED <<gateway, channel, worker, work, mutex, stage, count, outcome,
                 stop, loaded, swaps, wasted>>

----------------------------------------------------------------------------
(* The generation.                                                         *)

\* Mutant: the runtime stays locked.
EndHolding(j, how) ==
  /\ mutex' = j /\ stage' = "none" /\ count' = 0
  /\ outcome' = [outcome EXCEPT ![j] = how]
  /\ IF j \in Chats THEN GoTo(j, "over") /\ UNCHANGED work
                    ELSE work' = "returned" /\ UNCHANGED at

(* It ends and lets go of the mutex, with or without a last callback. *)
End(j, how) ==
  /\ mutex' = Nobody /\ stage' = "none" /\ count' = 0
  /\ outcome' = [outcome EXCEPT ![j] = how]
  /\ IF j \in Chats THEN GoTo(j, "over") /\ UNCHANGED work
                    ELSE work' = "returned" /\ UNCHANGED at

(* The callback's final chunk is sent only if the job was not cancelled. *)
Final(j) ==
  IF j \in Requests /\ ~cancel[j] /\ Reading(j)
    THEN stream' = [stream EXCEPT ![j] = "final"] ELSE UNCHANGED stream

(* One chunk of the prompt, after a look at the flag. *)
Prefill ==
  /\ stage = "prefill"
  /\ \/ /\ ~flag
        /\ End(mutex, "refused") /\ UNCHANGED flag
     \/ /\ flag /\ count' = IF count + 1 = Chunks THEN 0 ELSE count + 1
        /\ stage' = IF count + 1 = Chunks THEN "tokens" ELSE "prefill"
        /\ UNCHANGED <<at, work, mutex, flag, outcome>>
  /\ UNCHANGED <<active, channel, worker, watching, stop, loaded, swaps, observed>>

(* The flag was cleared, or the answer is complete or at its limit.  The   *)
(* last callback finds out that nobody reads, too.                         *)
EndTokens ==
  /\ stage = "tokens"
  /\ End(mutex, IF flag THEN "finished" ELSE "cancelled") /\ Final(mutex)
  /\ flag' = FALSE
  /\ cancel' = IF mutex \in Requests /\ ~Reading(mutex)
                 THEN [cancel EXCEPT ![mutex] = TRUE] ELSE cancel
  /\ UNCHANGED <<active, depth, queue, worker, watching, stop, loaded, swaps, observed>>

(* A decode fails: the generation returns and leaves the flag as it is. *)
FailGeneration ==
  /\ stage # "none"
  /\ End(mutex, "failed")
  /\ UNCHANGED <<active, channel, worker, watching, flag, stop, loaded, swaps, observed>>

(* The callback of a token that shows text: it clears the flag for a job   *)
(* that was cancelled or that nobody reads.                                *)
Callback ==
  LET unread == mutex \in Requests /\ ~Reading(mutex) IN
  /\ flag' = ~(mutex \in Requests /\ (cancel[mutex] \/ unread))
  /\ cancel' = IF unread THEN [cancel EXCEPT ![mutex] = TRUE] ELSE cancel
  /\ wasted' = IF unread THEN [wasted EXCEPT ![mutex] = @ + 1] ELSE wasted

(* One token.  There is no callback for one that shows nothing, as half of *)
(* a character does, or a tag that is taken out.                           *)
Token ==
  /\ stage = "tokens" /\ flag /\ count < MaxTokens
  /\ count' = count + 1
  /\ Callback \/ UNCHANGED <<flag, cancel, wasted>>
  /\ UNCHANGED <<gateway, depth, queue, stream, thread, mutex, stage, outcome,
                 stop, loaded, swaps, cleared>>

----------------------------------------------------------------------------
(* The desktop.                                                            *)

Chat(c) ==
  /\ at[c] = "new" /\ Free
  /\ \/ loaded /\ BeginGeneration(c) /\ GoTo(c, "generating")
     \/ ~loaded /\ GoTo(c, "over") /\ outcome' = [outcome EXCEPT ![c] = "failed"]
        /\ UNCHANGED <<mutex, flag, stage, count>>
  /\ UNCHANGED <<active, channel, thread, stop, loaded, swaps, observed>>

(* stop_generation is called while the answer is on its way ... *)
AskStop(c) ==
  /\ at[c] = "generating" /\ stop[c] = "no"
  /\ stop' = [stop EXCEPT ![c] = "asked"]
  /\ UNCHANGED <<gateway, channel, thread, runtime, loaded, swaps, observed>>

(* ... and clears the flag when it gets the mutex. *)
Stop(c) ==
  /\ stop[c] = "asked" /\ Free
  /\ flag' = FALSE /\ stop' = [stop EXCEPT ![c] = "done"]
  /\ UNCHANGED <<gateway, channel, thread, mutex, stage, count, outcome,
                 loaded, swaps, observed>>

(* A model is loaded, or unloaded to make room. *)
Swap ==
  /\ swaps < MaxSwaps /\ Free
  /\ loaded' = ~loaded /\ flag' = (flag /\ ~loaded) /\ swaps' = swaps + 1
  /\ UNCHANGED <<gateway, channel, thread, mutex, stage, count, outcome, stop, observed>>

Handles(r) == LookForModel(r) \/ Count(r) \/ Send(r) \/ ReadEnd(r) \/ StreamTail(r)
Works == Take \/ CheckCancel \/ GetFlag \/ Enter \/ Return \/ Done
Generates == Prefill \/ EndTokens \/ Token \/ FailGeneration

QueueNext ==
  \/ \E r \in Requests : Arrive(r) \/ Handles(r) \/ HangUp(r) \/ Watch(r)
  \/ Works \/ Generates
  \/ \E c \in Chats : Chat(c) \/ AskStop(c) \/ Stop(c)
  \/ Swap

QueueSpec == QueueInit /\ [][QueueNext]_queueVars

(* The handlers, the worker and the generation run on; a generation is     *)
(* bounded by max_tokens.  Whoever waits for the mutex gets it, for only   *)
(* finitely many others ask.                                               *)
QueueFairSpec ==
  /\ QueueSpec
  /\ \A r \in Requests : WF_queueVars(Handles(r))
  /\ WF_queueVars(Works) /\ WF_queueVars(Generates)

----------------------------------------------------------------------------

Stages == {"none", "prefill", "tokens"}
Outcomes == {"none", "finished", "cancelled", "refused", "failed"}

(* The variables' types; the mutex is held exactly while a generation is   *)
(* on its way.                                                             *)
QueueTypeOK ==
  /\ at \in [Jobs -> {"new", "counted", "submitting", "sending", "reading",
                      "closing", "gone", "generating", "over"}]
  /\ active \in 0 .. Cardinality(Requests) /\ depth \in 0 .. Cardinality(Requests)
  /\ queue \in Seq(Requests)
  /\ stream \in [Requests -> {"none", "open", "final", "closed"}]
  /\ cancel \in [Requests -> BOOLEAN]
  /\ worker \in Requests \cup {Nobody}
  /\ work \in {"idle", "taken", "checked", "entering", "generating", "returned", "done"}
  /\ watching \subseteq Requests /\ cleared \subseteq Requests
  /\ mutex \in Jobs \cup {Nobody} /\ (mutex = Nobody <=> stage = "none")
  /\ flag \in BOOLEAN /\ stage \in Stages /\ count \in 0 .. Chunks + MaxTokens
  /\ outcome \in [Jobs -> Outcomes]
  /\ stop \in [Chats -> {"no", "asked", "done"}]
  /\ loaded \in BOOLEAN /\ swaps \in 0 .. MaxSwaps
  /\ wasted \in [Requests -> 0 .. MaxTokens]

(* Of an answer nobody reads one piece of text is produced at the most:    *)
(* the client of a stream cancels its job as it goes, and for the others   *)
(* the callback finds the receiver gone, wherever the watcher was with the *)
(* flag.  Tokens that show nothing are not counted: nothing but max_tokens *)
(* bounds a run of them.                                                   *)
AtMostOneUnreadPiece == \A r \in Requests : wasted[r] <= 1

(* The runtime has one flag for everybody, and yet a request's answer is   *)
(* cut short only if its own reader went: no other request's going away    *)
(* ends it, nor a Stop pressed at the desktop for an answer before it.     *)
OnlyTheAbandonedIsStopped ==
  \A r \in Requests : outcome[r] \in {"cancelled", "refused"} => cancel[r]

(* Generation stops for those it was meant to stop for, at their next text. *)
StopsAsAsked == AtMostOneUnreadPiece /\ OnlyTheAbandonedIsStopped

(* A client still reading is never left with a channel that closed without *)
(* a final chunk, which it would report as a complete answer: not when the *)
(* model was unloaded on the way, nor when the generation failed.          *)
ReaderGetsAFinalChunk ==
  \A r \in Requests : Reading(r) => stream[r] # "closed"

(* Every request that queued is answered or its client has gone: nobody    *)
(* ahead of it, and no model taken away, leaves it waiting.                *)
EveryReaderIsAnswered == \A r \in Requests : Reading(r) ~> ~Reading(r)

-----------------------------------------------------------------------------
(* What the texts of the program say of these steps and the code does not  *)
(* keep.  No run checks these formulas: TLC finds a counterexample to each, *)
(* and README.md, section 6, says how it comes about.                       *)

(* scheduler.rs:72: a job is stopped "within one token, or within one      *)
(* prefill chunk".  Once its watcher has cleared the flag no more of its   *)
(* prompt is decoded.                                                      *)
StopIsNotOverwritten ==
  \A r \in cleared : mutex = r /\ stage = "prefill" => ~flag

(* scheduler.rs:300: "Client hung up, or cancel() was called: stop the     *)
(* generation loop at the next token".                                     *)
StopsWithinOneToken ==
  [][\A r \in Requests :
       at[r] = "gone" /\ mutex = r /\ stage = "tokens" /\ count' = count + 1
         => ~flag']_queueVars

(* state.rs:175: finish_request "Marks a request finished, however it      *)
(* ended": the dashboard's active requests are those still being served.   *)
ActiveIsServed ==
  active = Cardinality({r \in Requests : at[r] \notin {"new", "gone", "over"}})

(* manager.rs:409: "The generation can be cancelled by calling             *)
(* `stop_generation`": one that took effect cut the answer short.          *)
StopEndsTheChat ==
  \A c \in Chats : stop[c] = "done" => outcome[c] \in {"cancelled", "refused"}
=============================================================================
