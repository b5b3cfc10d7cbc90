---------------------------- MODULE EffectLedger ----------------------------
(***************************************************************************)
(* The ledger of side-effecting tool calls (agent_runtime/events/          *)
(* idempotency.rs, begin_effect() to reconcile_effect() in store.rs, and   *)
(* the part of execute() in agent_runtime/mod.rs that consults it).        *)
(*                                                                         *)
(* One row per idempotency key says whether the effect was begun and how   *)
(* it ended.  Attempts at calls run concurrently in a process; a process   *)
(* dies and starts again; a start turns every row still pending into       *)
(* "unknown", and a person settles those.  Storage faults are modelled:    *)
(* begin_effect() answers Fresh when the table cannot be reached, and a    *)
(* settlement that cannot be written is only logged.                       *)
(***************************************************************************)
EXTENDS Naturals, FiniteSets

CONSTANTS
  Attempts,     \* executions of tool calls, each in a process
  Processes,    \* processes with the database open
  HostOf,       \* which process an attempt runs in
  Keys,         \* idempotency keys
  Calls,        \* tool and arguments, as the fingerprint tells them apart
  Presents,     \* <<key, call>> pairs attempts present
  NoCall,       \* the call of a row that is not there
  MaxFaults     \* bound: how many storage faults happen

ASSUME HostAssumption == HostOf \in [Attempts -> Processes]
ASSUME PresentsAssumption == Presents \subseteq Keys \X Calls
ASSUME NoCallAssumption == NoCall \notin Calls
ASSUME FaultsAssumption == MaxFaults \in Nat

VARIABLES
  status,     \* the row of each key, "absent" where there is none
  callOf,     \* the tool and arguments recorded in the row
  up,         \* which processes are running
  pc,         \* where each attempt is
  key, call,  \* what it presented
  answer,     \* how it ended: its own outcome, a replay, or a refusal
  performed,  \* history: how many times the effect under a key took place
  happened,   \* history: the <<key, call>> pairs that took place
  vouched,    \* history: keys a person settled
  blind,      \* history: keys an attempt was let past without a row
  lostWrite,  \* history: keys whose settlement could not be written
  faults      \* how many storage faults there have been

rows == <<status, callOf>>
attempt == <<pc, key, call, answer>>
history == <<performed, happened, vouched, blind, lostWrite, faults>>
vars == <<rows, up, attempt, history>>

Statuses == {"absent", "pending", "succeeded", "failed", "unknown"}
Settled  == {"succeeded", "failed"}

Init ==
  /\ status = [k \in Keys |-> "absent"]
  /\ callOf = [k \in Keys |-> NoCall]
  /\ up = [p \in Processes |-> FALSE]
  /\ pc = [a \in Attempts |-> "idle"]
  /\ key \in [Attempts -> Keys]
  /\ call \in [Attempts -> Calls]
  /\ answer = [a \in Attempts |-> "none"]
  /\ performed = [k \in Keys |-> 0]
  /\ happened = {}
  /\ vouched = {}
  /\ blind = {}
  /\ lostWrite = {}
  /\ faults = 0

-----------------------------------------------------------------------------
\* Mutant of Reply: the fingerprint is not compared.
ReplyToAnyCall(k, c) == IF status[k] \in Settled THEN status[k] ELSE "refused"
\* What an existing row says to an attempt that presents it: begin()'s last
\* match, after the conflict check.  Only a settled row's outcome is replayed.
Reply(k, c) ==
  IF callOf[k] = c /\ status[k] \in Settled THEN status[k] ELSE "refused"

Presented(a, k, c) ==
  /\ pc[a] = "idle"
  /\ up[HostOf[a]]
  /\ <<k, c>> \in Presents
  /\ key' = [key EXCEPT ![a] = k]
  /\ call' = [call EXCEPT ![a] = c]

\* Mutant: the intent replaces a row that is already there.
BeginReplacing(a, k, c) ==
  /\ Presented(a, k, c)
  /\ status' = [status EXCEPT ![k] = "pending"]
  /\ callOf' = [callOf EXCEPT ![k] = c]
  /\ pc' = [pc EXCEPT ![a] = "begun"]
  /\ answer' = [answer EXCEPT ![a] = "none"]
  /\ UNCHANGED <<up, history>>

\* The intent was inserted: Fresh, and the tool is about to run.
BeginFresh(a, k, c) ==
  /\ Presented(a, k, c)
  /\ status[k] = "absent"
  /\ status' = [status EXCEPT ![k] = "pending"]
  /\ callOf' = [callOf EXCEPT ![k] = c]
  /\ pc' = [pc EXCEPT ![a] = "begun"]
  /\ answer' = [answer EXCEPT ![a] = "none"]
  /\ UNCHANGED <<up, history>>

\* The insert was ignored: replayed, or refused as a conflict, as under way or
\* as unknown.  The tool does not run.
BeginAnswered(a, k, c) ==
  /\ Presented(a, k, c)
  /\ status[k] # "absent"
  /\ answer' = [answer EXCEPT ![a] = Reply(k, c)]
  /\ UNCHANGED <<rows, up, pc, history>>

\* The table could not be reached: treated as Fresh, with nothing written.
BeginBlind(a, k, c) ==
  /\ Presented(a, k, c)
  /\ faults < MaxFaults
  /\ faults' = faults + 1
  /\ blind' = blind \cup {k}
  /\ pc' = [pc EXCEPT ![a] = "begun"]
  /\ answer' = [answer EXCEPT ![a] = "none"]
  /\ UNCHANGED <<rows, up, performed, happened, vouched, lostWrite>>

\* The tool runs.  A tool that reports failure may have acted before it failed.
Perform(a, outcome, acted) ==
  /\ pc[a] = "begun"
  /\ outcome = "succeeded" => acted
  /\ performed' = [performed EXCEPT ![key[a]] = IF acted THEN @ + 1 ELSE @]
  /\ happened' = IF acted THEN happened \cup {<<key[a], call[a]>>} ELSE happened
  /\ answer' = [answer EXCEPT ![a] = outcome]
  /\ pc' = [pc EXCEPT ![a] = "ran"]
  /\ UNCHANGED <<rows, up, key, call, vouched, blind, lostWrite, faults>>

\* settle(): only a pending row moves.
Settle(a) ==
  /\ pc[a] = "ran"
  /\ status' = IF status[key[a]] = "pending"
               THEN [status EXCEPT ![key[a]] = answer[a]] ELSE status
  /\ pc' = [pc EXCEPT ![a] = "idle"]
  /\ UNCHANGED <<callOf, up, key, call, answer, history>>

\* The settlement could not be written: logged, and the loop gets its result.
SettleFails(a) ==
  /\ pc[a] = "ran"
  /\ faults < MaxFaults
  /\ faults' = faults + 1
  /\ lostWrite' = lostWrite \cup {key[a]}
  /\ pc' = [pc EXCEPT ![a] = "idle"]
  /\ UNCHANGED <<rows, up, key, call, answer, performed, happened, vouched, blind>>

\* A process dies, and its attempts with it.
Crash(p) ==
  /\ up[p]
  /\ up' = [up EXCEPT ![p] = FALSE]
  /\ pc' = [a \in Attempts |-> IF HostOf[a] = p THEN "idle" ELSE pc[a]]
  /\ answer' = [a \in Attempts |-> IF HostOf[a] = p THEN "none" ELSE answer[a]]
  /\ UNCHANGED <<rows, key, call, history>>

\* Mutants of Start: pending rows are left alone; are cleared so that the call
\* can be made again; are promoted while the process is already up.
StartWithoutPromotion(p) ==
  /\ ~up[p]
  /\ up' = [up EXCEPT ![p] = TRUE]
  /\ UNCHANGED <<rows, attempt, history>>

StartClearing(p) ==
  /\ ~up[p]
  /\ up' = [up EXCEPT ![p] = TRUE]
  /\ status' = [k \in Keys |-> IF status[k] = "pending" THEN "absent" ELSE status[k]]
  /\ UNCHANGED <<callOf, attempt, history>>

\* A process starts: promote_pending_to_unknown(), before anything else.
Start(p) ==
  /\ ~up[p]
  /\ up' = [up EXCEPT ![p] = TRUE]
  /\ status' = [k \in Keys |-> IF status[k] = "pending" THEN "unknown" ELSE status[k]]
  /\ UNCHANGED <<callOf, attempt, history>>

\* reconcile(): a person says whether it took effect.  Only an unknown row moves.
Reconcile(k, verdict) ==
  /\ \E p \in Processes : up[p]
  /\ status[k] = "unknown"
  /\ status' = [status EXCEPT ![k] = verdict]
  /\ vouched' = vouched \cup {k}
  /\ UNCHANGED <<callOf, up, attempt, performed, happened, blind, lostWrite, faults>>

Next ==
  \/ \E a \in Attempts :
       \/ \E k \in Keys, c \in Calls :
            BeginFresh(a, k, c) \/ BeginAnswered(a, k, c) \/ BeginBlind(a, k, c)
       \/ \E outcome \in Settled, acted \in BOOLEAN : Perform(a, outcome, acted)
       \/ Settle(a)
       \/ SettleFails(a)
  \/ \E p \in Processes : Crash(p) \/ Start(p)
  \/ \E k \in Keys, verdict \in Settled : Reconcile(k, verdict)

Spec == Init /\ [][Next]_vars

-----------------------------------------------------------------------------
\* The rows, the attempts and the history are well formed.
TypeOK ==
  /\ status \in [Keys -> Statuses]
  /\ callOf \in [Keys -> Calls \cup {NoCall}]
  /\ up \in [Processes -> BOOLEAN]
  /\ pc \in [Attempts -> {"idle", "begun", "ran"}]
  /\ key \in [Attempts -> Keys]
  /\ call \in [Attempts -> Calls]
  /\ answer \in [Attempts -> Settled \cup {"none", "refused"}]
  /\ performed \in [Keys -> Nat]
  /\ happened \subseteq Keys \X Calls
  /\ vouched \subseteq Keys
  /\ blind \subseteq Keys
  /\ lostWrite \subseteq Keys
  /\ faults \in 0 .. MaxFaults

\* "Doing a side-effecting thing at most once": across concurrent attempts,
\* crashes, restarts and a person's verdict, an effect takes place twice only
\* under a key that an unreachable table once let through unrecorded.
AtMostOnce == \A k \in Keys : performed[k] > 1 => k \in blind

\* An attempt that is told its action succeeded is told the truth about its own
\* call: that very call took place under that key, or a person said so.
AnswerIsTrue ==
  \A a \in Attempts :
    pc[a] = "idle" /\ answer[a] = "succeeded" /\ key[a] \notin blind
      => <<key[a], call[a]>> \in happened \/ key[a] \in vouched

\* An action is refused as already under way only while some attempt really is
\* working it: no restart or finished attempt leaves a key pending for ever,
\* except one whose settlement could not be written.
PendingIsInFlight ==
  (\A p \in Processes : up[p]) =>
    \A k \in Keys \ lostWrite :
      status[k] = "pending"
        => \E a \in Attempts : pc[a] \in {"begun", "ran"} /\ key[a] = k

\* "A pending row at this moment cannot be in flight -- the process that was
\* performing it is gone" (promote_pending_to_unknown()): what a person is asked
\* about has nobody still working on it.
UnknownMeansLost ==
  \A k \in Keys \ blind :
    status[k] = "unknown"
      => ~ \E a \in Attempts : pc[a] \in {"begun", "ran"} /\ key[a] = k

\* A row's status says what is the case: "under way" only while somebody is at
\* it, and a person is asked only when nobody is.
StatusIsTrue == PendingIsInFlight /\ UnknownMeansLost

\* A settled row is final: neither a late settlement, nor a start, nor a second
\* person's verdict rewrites what was recorded.
SettledIsFinal ==
  [][\A k \in Keys : status[k] \in Settled => status'[k] = status[k]]_vars

-----------------------------------------------------------------------------
\* The abstract key is open until its row exists, permitted while an attempt is
\* about to run the tool, and spent from then on; it is waived once an attempt
\* has been let past the unreachable table.
Phase(k) ==
  IF k \in blind THEN "waived"
  ELSE IF status[k] = "absent" THEN "open"
  ELSE IF \E a \in Attempts : pc[a] = "begun" /\ key[a] = k THEN "permitted"
  ELSE "spent"

Abstract == INSTANCE AtMostOnceEffect WITH phase <- [k \in Keys |-> Phase(k)]

\* "Doing a side-effecting thing at most once" as a specification of its own: with
\* attempts in several processes, deaths, starts, verdicts and storage faults, what
\* the ledger lets happen is what the abstract effect allows, and a fault waives the
\* promise about the key it was met on and about no other.
ImplementsAtMostOnce == Abstract!Spec
=============================================================================
