------------------------ MODULE EffectLedger_proofs ------------------------
(***************************************************************************)
(* Proofs about the effect ledger, for every number of attempts,           *)
(* processes, keys, calls and storage faults.                              *)
(***************************************************************************)
EXTENDS EffectLedger, TLAPS

USE HostAssumption, PresentsAssumption, NoCallAssumption, FaultsAssumption

\* An attempt that was let through on a key and has not been done with it.
Working(a, k) == pc[a] \in {"begun", "ran"} /\ key[a] = k

-----------------------------------------------------------------------------
(* Type correctness.  What settle() writes is typed only because an attempt *)
(* that has run its tool holds an outcome.                                  *)

OutcomeHeld == \A a \in Attempts : pc[a] = "ran" => answer[a] \in Settled

TypeInv == TypeOK /\ OutcomeHeld

LEMMA TypeInvStep == TypeInv /\ [Next]_vars => TypeInv'
  <1> SUFFICES ASSUME TypeInv, [Next]_vars PROVE TypeInv'
    OBVIOUS
  <1>1. ASSUME NEW a \in Attempts, NEW k \in Keys, NEW c \in Calls, BeginFresh(a, k, c)
        PROVE  TypeInv'
    BY <1>1 DEF TypeInv, TypeOK, OutcomeHeld, Statuses, Settled, BeginFresh,
       Presented, history
  <1>2. ASSUME NEW a \in Attempts, NEW k \in Keys, NEW c \in Calls,
               BeginAnswered(a, k, c)
        PROVE  TypeInv'
    BY <1>2 DEF TypeInv, TypeOK, OutcomeHeld, Statuses, Settled,
       BeginAnswered, Presented, Reply, rows, history
  <1>3. ASSUME NEW a \in Attempts, NEW k \in Keys, NEW c \in Calls, BeginBlind(a, k, c)
        PROVE  TypeInv'
    BY <1>3 DEF TypeInv, TypeOK, OutcomeHeld, Statuses, Settled, BeginBlind,
       Presented, rows
  <1>4. ASSUME NEW a \in Attempts, NEW outcome \in Settled, NEW acted \in BOOLEAN,
               Perform(a, outcome, acted)
        PROVE  TypeInv'
    BY <1>4 DEF TypeInv, TypeOK, OutcomeHeld, Statuses, Settled, Perform, rows
  <1>5. ASSUME NEW a \in Attempts, Settle(a)
        PROVE  TypeInv'
    BY <1>5 DEF TypeInv, TypeOK, OutcomeHeld, Statuses, Settled, Settle,
       history
  <1>6. ASSUME NEW a \in Attempts, SettleFails(a)
        PROVE  TypeInv'
    BY <1>6 DEF TypeInv, TypeOK, OutcomeHeld, Statuses, Settled, SettleFails,
       rows
  <1>7. ASSUME NEW p \in Processes, Crash(p)
        PROVE  TypeInv'
    BY <1>7 DEF TypeInv, TypeOK, OutcomeHeld, Statuses, Settled, Crash, rows,
       history
  <1>8. ASSUME NEW p \in Processes, Start(p)
        PROVE  TypeInv'
    BY <1>8 DEF TypeInv, TypeOK, OutcomeHeld, Statuses, Settled, Start,
       attempt, history
  <1>9. ASSUME NEW k \in Keys, NEW verdict \in Settled, Reconcile(k, verdict)
        PROVE  TypeInv'
    BY <1>9 DEF TypeInv, TypeOK, OutcomeHeld, Statuses, Settled, Reconcile,
       attempt
  <1>10. CASE UNCHANGED vars
    BY <1>10 DEF TypeInv, TypeOK, OutcomeHeld, Statuses, Settled, vars, rows,
       attempt, history
  <1> QED
    BY <1>1, <1>2, <1>3, <1>4, <1>5, <1>6, <1>7, <1>8, <1>9, <1>10 DEF Next

LEMMA TypeInvHolds == Spec => []TypeInv
<1>1. Init => TypeInv
  BY DEF Init, TypeInv, TypeOK, OutcomeHeld, Statuses
<1> QED
  BY <1>1, TypeInvStep, PTL DEF Spec

\* Every reachable state of the ledger is well formed (TypeOK).
THEOREM TypeCorrect == Spec => []TypeOK
<1>1. TypeInv => TypeOK
  BY DEF TypeInv
<1> QED
  BY <1>1, TypeInvHolds, PTL

-----------------------------------------------------------------------------
(* At most once.  AtMostOnce alone is not inductive: it must also be known  *)
(* that a key has one worker, whose row is there and whose effect has not   *)
(* yet happened, and that a key without a row has never been performed.     *)

SoleWorker ==
  \A k \in Keys \ blind : \A a, b \in Attempts : Working(a, k) /\ Working(b, k) => a = b

RowFirst ==
  \A k \in Keys \ blind : \A a \in Attempts : Working(a, k) => status[k] # "absent"

NotYetPerformed ==
  \A k \in Keys \ blind :
    \/ status[k] = "absent"
    \/ \E a \in Attempts : pc[a] = "begun" /\ key[a] = k
    => performed[k] = 0

OnceInv == SoleWorker /\ RowFirst /\ NotYetPerformed /\ AtMostOnce

LEMMA OnceInvStep == TypeInv /\ OnceInv /\ [Next]_vars => OnceInv'
  <1> SUFFICES ASSUME TypeInv, OnceInv, [Next]_vars PROVE OnceInv'
    OBVIOUS
  <1> USE DEF TypeInv, OutcomeHeld, TypeOK, Working
  <1>1. ASSUME NEW a \in Attempts, NEW k \in Keys, NEW c \in Calls, BeginFresh(a, k, c)
        PROVE  OnceInv'
    BY <1>1 DEF OnceInv, SoleWorker, RowFirst, NotYetPerformed, AtMostOnce,
       Settled, BeginFresh, Presented, history
  <1>2. ASSUME NEW a \in Attempts, NEW k \in Keys, NEW c \in Calls,
               BeginAnswered(a, k, c)
        PROVE  OnceInv'
    BY <1>2 DEF OnceInv, SoleWorker, RowFirst, NotYetPerformed, AtMostOnce,
       Settled, BeginAnswered, Presented, Reply, rows, history
  <1>3. ASSUME NEW a \in Attempts, NEW k \in Keys, NEW c \in Calls, BeginBlind(a, k, c)
        PROVE  OnceInv'
    BY <1>3 DEF OnceInv, SoleWorker, RowFirst, NotYetPerformed, AtMostOnce,
       Settled, BeginBlind, Presented, rows
  <1>4. ASSUME NEW a \in Attempts, NEW outcome \in Settled, NEW acted \in BOOLEAN,
               Perform(a, outcome, acted)
        PROVE  OnceInv'
    BY <1>4 DEF OnceInv, SoleWorker, RowFirst, NotYetPerformed, AtMostOnce,
       Settled, Perform, rows
  <1>5. ASSUME NEW a \in Attempts, Settle(a)
        PROVE  OnceInv'
    BY <1>5 DEF OnceInv, SoleWorker, RowFirst, NotYetPerformed, AtMostOnce,
       Settled, Settle, history
  <1>6. ASSUME NEW a \in Attempts, SettleFails(a)
        PROVE  OnceInv'
    BY <1>6 DEF OnceInv, SoleWorker, RowFirst, NotYetPerformed, AtMostOnce,
       Settled, SettleFails, rows
  <1>7. ASSUME NEW p \in Processes, Crash(p)
        PROVE  OnceInv'
    BY <1>7 DEF OnceInv, SoleWorker, RowFirst, NotYetPerformed, AtMostOnce,
       Settled, Crash, rows, history
  <1>8. ASSUME NEW p \in Processes, Start(p)
        PROVE  OnceInv'
    BY <1>8 DEF OnceInv, SoleWorker, RowFirst, NotYetPerformed, AtMostOnce,
       Settled, Start, attempt, history
  <1>9. ASSUME NEW k \in Keys, NEW verdict \in Settled, Reconcile(k, verdict)
        PROVE  OnceInv'
    BY <1>9 DEF OnceInv, SoleWorker, RowFirst, NotYetPerformed, AtMostOnce,
       Settled, Reconcile, attempt
  <1>10. CASE UNCHANGED vars
    BY <1>10 DEF OnceInv, SoleWorker, RowFirst, NotYetPerformed, AtMostOnce,
       Settled, vars, rows, attempt, history
  <1> QED
    BY <1>1, <1>2, <1>3, <1>4, <1>5, <1>6, <1>7, <1>8, <1>9, <1>10 DEF Next

LEMMA OnceInvHolds == Spec => []OnceInv
<1>1. Init => OnceInv
  BY DEF Init, OnceInv, SoleWorker, RowFirst, NotYetPerformed, AtMostOnce, Working
<1> QED
  BY <1>1, OnceInvStep, TypeInvHolds, PTL DEF Spec

\* However many attempts, processes, crashes, restarts and verdicts, an effect
\* takes place twice only under a key let through unrecorded (AtMostOnce).
THEOREM AtMostOnceHolds == Spec => []AtMostOnce
<1>1. OnceInv => AtMostOnce
  BY DEF OnceInv
<1> QED
  BY <1>1, OnceInvHolds, PTL

-----------------------------------------------------------------------------
(* Settled rows are final.                                                  *)

LEMMA SettledStep ==
  TypeInv /\ [Next]_vars
    => \A k \in Keys : status[k] \in Settled => status'[k] = status[k]
  <1> SUFFICES ASSUME TypeInv, [Next]_vars,
                      NEW j \in Keys, status[j] \in Settled
               PROVE  status'[j] = status[j]
    OBVIOUS
  <1> USE DEF TypeInv, TypeOK, Settled
  <1>1. ASSUME NEW a \in Attempts, NEW k \in Keys, NEW c \in Calls, BeginFresh(a, k, c)
        PROVE  status'[j] = status[j]
    BY <1>1 DEF Statuses, BeginFresh, Presented, history
  <1>2. ASSUME NEW a \in Attempts, NEW k \in Keys, NEW c \in Calls,
               BeginAnswered(a, k, c)
        PROVE  status'[j] = status[j]
    BY <1>2 DEF Statuses, BeginAnswered, Presented, Reply, rows, history
  <1>3. ASSUME NEW a \in Attempts, NEW k \in Keys, NEW c \in Calls, BeginBlind(a, k, c)
        PROVE  status'[j] = status[j]
    BY <1>3 DEF Statuses, BeginBlind, Presented, rows
  <1>4. ASSUME NEW a \in Attempts, NEW outcome \in Settled, NEW acted \in BOOLEAN,
               Perform(a, outcome, acted)
        PROVE  status'[j] = status[j]
    BY <1>4 DEF Statuses, Perform, rows
  <1>5. ASSUME NEW a \in Attempts, Settle(a)
        PROVE  status'[j] = status[j]
    BY <1>5 DEF Statuses, Settle, history
  <1>6. ASSUME NEW a \in Attempts, SettleFails(a)
        PROVE  status'[j] = status[j]
    BY <1>6 DEF Statuses, SettleFails, rows
  <1>7. ASSUME NEW p \in Processes, Crash(p)
        PROVE  status'[j] = status[j]
    BY <1>7 DEF Statuses, Crash, rows, history
  <1>8. ASSUME NEW p \in Processes, Start(p)
        PROVE  status'[j] = status[j]
    BY <1>8 DEF Statuses, Start, attempt, history
  <1>9. ASSUME NEW k \in Keys, NEW verdict \in Settled, Reconcile(k, verdict)
        PROVE  status'[j] = status[j]
    BY <1>9 DEF Statuses, Reconcile, attempt
  <1>10. CASE UNCHANGED vars
    BY <1>10 DEF Statuses, vars, rows, attempt, history
  <1> QED
    BY <1>1, <1>2, <1>3, <1>4, <1>5, <1>6, <1>7, <1>8, <1>9, <1>10 DEF Next

\* No settlement, start or verdict rewrites a settled row (SettledIsFinal).
THEOREM SettledFinal == Spec => SettledIsFinal
<1>1. TypeInv /\ [Next]_vars
        => [\A k \in Keys : status[k] \in Settled => status'[k] = status[k]]_vars
  BY SettledStep
<1> QED
  BY <1>1, TypeInvHolds, PTL DEF Spec, SettledIsFinal
-----------------------------------------------------------------------------
(* Answers are true.  What a row replays is what its own call came to: a    *)
(* worker's call is the one its row records, an outcome of "succeeded" is    *)
(* held only once the effect has happened, and so it is settled.            *)

CallRecorded ==
  \A k \in Keys \ blind : \A a \in Attempts : Working(a, k) => callOf[k] = call[a]

OutcomeIsTrue ==
  \A a \in Attempts :
    pc[a] = "ran" /\ answer[a] = "succeeded" => <<key[a], call[a]>> \in happened

RowIsTrue ==
  \A k \in Keys \ blind :
    status[k] = "succeeded" => <<k, callOf[k]>> \in happened \/ k \in vouched

TruthInv == CallRecorded /\ OutcomeIsTrue /\ RowIsTrue /\ AnswerIsTrue

LEMMA TruthInvStep == TypeInv /\ OnceInv /\ TruthInv /\ [Next]_vars => TruthInv'
  <1> SUFFICES ASSUME TypeInv, OnceInv, TruthInv, [Next]_vars PROVE TruthInv'
    OBVIOUS
  <1> USE DEF TypeInv, OutcomeHeld, TypeOK, Working, OnceInv, SoleWorker, RowFirst
  <1>1. ASSUME NEW a \in Attempts, NEW k \in Keys, NEW c \in Calls, BeginFresh(a, k, c)
        PROVE  TruthInv'
    BY <1>1 DEF TruthInv, CallRecorded, OutcomeIsTrue, RowIsTrue,
       AnswerIsTrue, Settled, BeginFresh, Presented, history
  <1>2. ASSUME NEW a \in Attempts, NEW k \in Keys, NEW c \in Calls,
               BeginAnswered(a, k, c)
        PROVE  TruthInv'
    BY <1>2 DEF TruthInv, CallRecorded, OutcomeIsTrue, RowIsTrue,
       AnswerIsTrue, Settled, BeginAnswered, Presented, Reply, rows, history
  <1>3. ASSUME NEW a \in Attempts, NEW k \in Keys, NEW c \in Calls, BeginBlind(a, k, c)
        PROVE  TruthInv'
    BY <1>3 DEF TruthInv, CallRecorded, OutcomeIsTrue, RowIsTrue,
       AnswerIsTrue, Settled, BeginBlind, Presented, rows
  <1>4. ASSUME NEW a \in Attempts, NEW outcome \in Settled, NEW acted \in BOOLEAN,
               Perform(a, outcome, acted)
        PROVE  TruthInv'
    BY <1>4 DEF TruthInv, CallRecorded, OutcomeIsTrue, RowIsTrue,
       AnswerIsTrue, Settled, Perform, rows
  <1>5. ASSUME NEW a \in Attempts, Settle(a)
        PROVE  TruthInv'
    BY <1>5 DEF TruthInv, CallRecorded, OutcomeIsTrue, RowIsTrue,
       AnswerIsTrue, Settled, Settle, history
  <1>6. ASSUME NEW a \in Attempts, SettleFails(a)
        PROVE  TruthInv'
    BY <1>6 DEF TruthInv, CallRecorded, OutcomeIsTrue, RowIsTrue,
       AnswerIsTrue, Settled, SettleFails, rows
  <1>7. ASSUME NEW p \in Processes, Crash(p)
        PROVE  TruthInv'
    BY <1>7 DEF TruthInv, CallRecorded, OutcomeIsTrue, RowIsTrue,
       AnswerIsTrue, Settled, Crash, rows, history
  <1>8. ASSUME NEW p \in Processes, Start(p)
        PROVE  TruthInv'
    BY <1>8 DEF TruthInv, CallRecorded, OutcomeIsTrue, RowIsTrue,
       AnswerIsTrue, Settled, Start, attempt, history
  <1>9. ASSUME NEW k \in Keys, NEW verdict \in Settled, Reconcile(k, verdict)
        PROVE  TruthInv'
    BY <1>9 DEF TruthInv, CallRecorded, OutcomeIsTrue, RowIsTrue,
       AnswerIsTrue, Settled, Reconcile, attempt
  <1>10. CASE UNCHANGED vars
    BY <1>10 DEF TruthInv, CallRecorded, OutcomeIsTrue, RowIsTrue,
       AnswerIsTrue, Settled, vars, rows, attempt, history
  <1> QED
    BY <1>1, <1>2, <1>3, <1>4, <1>5, <1>6, <1>7, <1>8, <1>9, <1>10 DEF Next

\* An attempt told "succeeded" is told the truth about its own call, or what a
\* person vouched for (AnswerIsTrue).
THEOREM AnswersAreTrue == Spec => []AnswerIsTrue
<1>1. Init => TruthInv
  BY DEF Init, TruthInv, CallRecorded, OutcomeIsTrue, RowIsTrue, AnswerIsTrue, Working
<1>2. TruthInv => AnswerIsTrue
  BY DEF TruthInv
<1> QED
  BY <1>1, <1>2, TruthInvStep, TypeInvHolds, OnceInvHolds, PTL DEF Spec

-----------------------------------------------------------------------------
(* Pending means under way.  The last process to come up promotes whatever  *)
(* the dead left, and from then on only an attempt makes a row pending.     *)

LEMMA PendingStep ==
  ASSUME TypeInv, PendingIsInFlight, [Next]_vars
  PROVE  PendingIsInFlight'
  <1> USE DEF TypeInv, OutcomeHeld, TypeOK, PendingIsInFlight
  <1>1. ASSUME NEW a \in Attempts, NEW k \in Keys, NEW c \in Calls, BeginFresh(a, k, c)
        PROVE  PendingIsInFlight'
    BY <1>1 DEF BeginFresh, Presented, history
  <1>2. ASSUME NEW a \in Attempts, NEW k \in Keys, NEW c \in Calls,
               BeginAnswered(a, k, c)
        PROVE  PendingIsInFlight'
    BY <1>2 DEF BeginAnswered, Presented, rows, history
  <1>3. ASSUME NEW a \in Attempts, NEW k \in Keys, NEW c \in Calls, BeginBlind(a, k, c)
        PROVE  PendingIsInFlight'
    BY <1>3 DEF BeginBlind, Presented, rows
  <1>4. ASSUME NEW a \in Attempts, NEW outcome \in Settled, NEW acted \in BOOLEAN,
               Perform(a, outcome, acted)
        PROVE  PendingIsInFlight'
    BY <1>4 DEF Perform, rows
  <1>5. ASSUME NEW a \in Attempts, Settle(a)
        PROVE  PendingIsInFlight'
    BY <1>5 DEF Settled, Settle, history
  <1>6. ASSUME NEW a \in Attempts, SettleFails(a)
        PROVE  PendingIsInFlight'
    BY <1>6 DEF SettleFails, rows
  <1>7. ASSUME NEW p \in Processes, Crash(p)
        PROVE  PendingIsInFlight'
    BY <1>7 DEF Crash, rows, history
  <1>8. ASSUME NEW p \in Processes, Start(p)
        PROVE  PendingIsInFlight'
    BY <1>8 DEF Start, attempt, history
  <1>9. ASSUME NEW k \in Keys, NEW verdict \in Settled, Reconcile(k, verdict)
        PROVE  PendingIsInFlight'
    BY <1>9 DEF Settled, Reconcile, attempt
  <1>10. CASE UNCHANGED vars
    BY <1>10 DEF vars, rows, attempt, history
  <1> QED
    BY <1>1, <1>2, <1>3, <1>4, <1>5, <1>6, <1>7, <1>8, <1>9, <1>10 DEF Next

\* Nothing is refused as under way when nobody is at it (PendingIsInFlight): for any
\* number of processes, once all of them are up.
THEOREM PendingHolds == Spec => []PendingIsInFlight
<1>1. Init => PendingIsInFlight
  BY DEF Init, PendingIsInFlight
<1>2. TypeInv /\ PendingIsInFlight /\ [Next]_vars => PendingIsInFlight'
  BY PendingStep
<1> QED
  BY <1>1, <1>2, TypeInvHolds, PTL DEF Spec

-----------------------------------------------------------------------------
(* Unknown means lost, while one process has the database open.             *)

OneProcess == \A p, q \in Processes : p = q

\* A worker's process is running, and its row is still the one it inserted.
WorkerHoldsRow ==
  \A a \in Attempts :
    pc[a] # "idle"
      => up[HostOf[a]] /\ (key[a] \notin blind => status[key[a]] = "pending")

LEMMA WorkerStep ==
  ASSUME OneProcess, TypeInv, OnceInv, WorkerHoldsRow, [Next]_vars
  PROVE  WorkerHoldsRow'
  <1> USE DEF TypeInv, OutcomeHeld, TypeOK, Working, OnceInv, SoleWorker, RowFirst
  <1>1. ASSUME NEW a \in Attempts, NEW k \in Keys, NEW c \in Calls, BeginFresh(a, k, c)
        PROVE  WorkerHoldsRow'
    BY <1>1 DEF WorkerHoldsRow, OneProcess, Settled, BeginFresh, Presented,
       history
  <1>2. ASSUME NEW a \in Attempts, NEW k \in Keys, NEW c \in Calls,
               BeginAnswered(a, k, c)
        PROVE  WorkerHoldsRow'
    BY <1>2 DEF WorkerHoldsRow, OneProcess, Settled, BeginAnswered, Presented,
       Reply, rows, history
  <1>3. ASSUME NEW a \in Attempts, NEW k \in Keys, NEW c \in Calls, BeginBlind(a, k, c)
        PROVE  WorkerHoldsRow'
    BY <1>3 DEF WorkerHoldsRow, OneProcess, Settled, BeginBlind, Presented,
       rows
  <1>4. ASSUME NEW a \in Attempts, NEW outcome \in Settled, NEW acted \in BOOLEAN,
               Perform(a, outcome, acted)
        PROVE  WorkerHoldsRow'
    BY <1>4 DEF WorkerHoldsRow, OneProcess, Settled, Perform, rows
  <1>5. ASSUME NEW a \in Attempts, Settle(a)
        PROVE  WorkerHoldsRow'
    BY <1>5 DEF WorkerHoldsRow, OneProcess, Settled, Settle, history
  <1>6. ASSUME NEW a \in Attempts, SettleFails(a)
        PROVE  WorkerHoldsRow'
    BY <1>6 DEF WorkerHoldsRow, OneProcess, Settled, SettleFails, rows
  <1>7. ASSUME NEW p \in Processes, Crash(p)
        PROVE  WorkerHoldsRow'
    BY <1>7 DEF WorkerHoldsRow, OneProcess, Settled, Crash, rows, history
  <1>8. ASSUME NEW p \in Processes, Start(p)
        PROVE  WorkerHoldsRow'
    BY <1>8 DEF WorkerHoldsRow, OneProcess, Settled, Start, attempt, history
  <1>9. ASSUME NEW k \in Keys, NEW verdict \in Settled, Reconcile(k, verdict)
        PROVE  WorkerHoldsRow'
    BY <1>9 DEF WorkerHoldsRow, OneProcess, Settled, Reconcile, attempt
  <1>10. CASE UNCHANGED vars
    BY <1>10 DEF WorkerHoldsRow, OneProcess, Settled, vars, rows, attempt,
       history
  <1> QED
    BY <1>1, <1>2, <1>3, <1>4, <1>5, <1>6, <1>7, <1>8, <1>9, <1>10 DEF Next

\* With one process, nobody is still working on what a person is asked about
\* (UnknownMeansLost).
THEOREM UnknownIsLost == OneProcess => (Spec => []UnknownMeansLost)
<1> SUFFICES ASSUME OneProcess PROVE Spec => []UnknownMeansLost
  OBVIOUS
<1>1. Init => WorkerHoldsRow
  BY DEF Init, WorkerHoldsRow
<1>2. TypeInv /\ OnceInv /\ WorkerHoldsRow /\ [Next]_vars => WorkerHoldsRow'
  BY WorkerStep
<1>3. WorkerHoldsRow => UnknownMeansLost
  BY DEF WorkerHoldsRow, UnknownMeansLost
<1> QED
  BY <1>1, <1>2, <1>3, TypeInvHolds, OnceInvHolds, PTL DEF Spec

\* With one process a row's status says what is the case (StatusIsTrue): pending,
\* somebody is at it; unknown, nobody is.
THEOREM StatusesAreTrue == OneProcess => (Spec => []StatusIsTrue)
<1>1. PendingIsInFlight /\ UnknownMeansLost => StatusIsTrue
  BY DEF StatusIsTrue
<1> QED
  BY <1>1, PendingHolds, UnknownIsLost, PTL

-----------------------------------------------------------------------------
(* Refinement.  Every step of the ledger is a step of the abstract at-most-  *)
(* once effect, or changes nothing it can see.                              *)

PhaseMap == [k \in Keys |-> Phase(k)]

\* A step that leaves every row's presence, every begun attempt and the keys let
\* past unrecorded alone is invisible in the abstract phase.
LEMMA PhaseStutter ==
  ASSUME blind' = blind,
         \A k \in Keys : (status[k] = "absent") <=> (status'[k] = "absent"),
         \A k \in Keys, a \in Attempts :
           (pc[a] = "begun" /\ key[a] = k) <=> (pc'[a] = "begun" /\ key'[a] = k)
  PROVE  PhaseMap' = PhaseMap
  <1>1. \A k \in Keys : Phase(k)' = Phase(k)
    BY DEF Phase
  <1> QED
    BY <1>1 DEF PhaseMap

LEMMA RefinementStep ==
  ASSUME TypeInv, OnceInv, [Next]_vars
  PROVE  [Abstract!Next]_(Abstract!vars)
  <1> USE DEF TypeInv, OutcomeHeld, TypeOK
  <1> DEFINE Invisible == UNCHANGED Abstract!vars
  <1>0. ASSUME PhaseMap' = PhaseMap, UNCHANGED performed
        PROVE  Invisible
    BY <1>0 DEF PhaseMap, Abstract!vars
  <1>1. ASSUME NEW a \in Attempts, NEW k \in Keys, NEW c \in Calls, BeginFresh(a, k, c)
        PROVE  Abstract!Permit(k) \/ Invisible
    <2>1. \A j \in Keys \ {k} : Phase(j)' = Phase(j)
      BY <1>1 DEF BeginFresh, Presented, Phase, history
    <2>2. performed' = performed
      BY <1>1 DEF BeginFresh, history
    <2>3. CASE k \in blind
      <3>1. Phase(k)' = Phase(k)
        BY <1>1, <2>3 DEF BeginFresh, Phase, history
      <3> QED
        BY <1>0, <2>1, <2>2, <3>1 DEF PhaseMap
    <2>4. CASE k \notin blind
      <3>1. Phase(k) = "open" /\ Phase(k)' = "permitted"
        BY <1>1, <2>4 DEF BeginFresh, Presented, Phase, history
      <3> QED
        BY <2>1, <2>2, <3>1 DEF Abstract!Permit
    <2> QED
      BY <2>3, <2>4
  <1>2. ASSUME NEW a \in Attempts, NEW k \in Keys, NEW c \in Calls,
               BeginAnswered(a, k, c)
        PROVE  Invisible
    <2>1. PhaseMap' = PhaseMap
      BY <1>2, PhaseStutter DEF BeginAnswered, Presented, rows, history
    <2> QED
      BY <1>0, <1>2, <2>1 DEF BeginAnswered, history
  <1>3. ASSUME NEW a \in Attempts, NEW k \in Keys, NEW c \in Calls, BeginBlind(a, k, c)
        PROVE  Abstract!Waive(k) \/ Invisible
    <2>1. \A j \in Keys \ {k} : Phase(j)' = Phase(j)
      BY <1>3 DEF BeginBlind, Presented, Phase, rows
    <2>2. performed' = performed
      BY <1>3 DEF BeginBlind
    <2>3. Phase(k)' = "waived"
      BY <1>3 DEF BeginBlind, Phase
    <2>4. CASE Phase(k) = "waived"
      BY <1>0, <2>1, <2>2, <2>3, <2>4 DEF PhaseMap
    <2>5. CASE Phase(k) # "waived"
      BY <2>1, <2>2, <2>3, <2>5 DEF Abstract!Waive
    <2> QED
      BY <2>4, <2>5
  <1>4. ASSUME NEW a \in Attempts, NEW outcome \in Settled, NEW acted \in BOOLEAN,
               Perform(a, outcome, acted)
        PROVE  (\E k \in Keys : Abstract!Perform(k) \/ Abstract!PerformWaived(k)) \/ Invisible
    <2>0. PICK k \in Keys : k = key[a]
      OBVIOUS
    <2>1. \A j \in Keys \ {k} : Phase(j)' = Phase(j)
      BY <1>4, <2>0 DEF Perform, Phase, rows
    <2>2. performed' \in {performed, [performed EXCEPT ![k] = @ + 1]}
      BY <1>4, <2>0 DEF Perform
    <2>3. CASE k \in blind
      <3>1. Phase(k) = "waived" /\ Phase(k)' = "waived"
        BY <1>4, <2>3 DEF Perform, Phase
      <3>2. PhaseMap' = PhaseMap
        BY <2>1, <3>1 DEF PhaseMap
      <3>3. CASE performed' = performed
        BY <1>0, <3>2, <3>3
      <3>4. CASE performed' = [performed EXCEPT ![k] = @ + 1]
        <4>1. Abstract!PerformWaived(k)
          BY <3>1, <3>2, <3>4 DEF PhaseMap, Abstract!PerformWaived
        <4> QED
          BY <4>1
      <3> QED
        BY <2>2, <3>3, <3>4
    <2>4. CASE k \notin blind
      <3>1. Phase(k) = "permitted" /\ Phase(k)' = "spent"
        BY <1>4, <2>0, <2>4 DEF Perform, Phase, rows, OnceInv, RowFirst, SoleWorker, Working
      <3>2. PhaseMap' = [PhaseMap EXCEPT ![k] = "spent"]
        BY <2>1, <3>1 DEF PhaseMap
      <3>3. Abstract!Perform(k)
        BY <2>2, <3>1, <3>2 DEF PhaseMap, Abstract!Perform
      <3> QED
        BY <3>3
    <2> QED
      BY <2>3, <2>4
  <1>5. ASSUME NEW a \in Attempts, Settle(a)
        PROVE  Invisible
    <2>1. \A k \in Keys : (status[k] = "absent") <=> (status'[k] = "absent")
      BY <1>5 DEF Settle, Settled
    <2>2. \A k \in Keys, b \in Attempts :
            (pc[b] = "begun" /\ key[b] = k) <=> (pc'[b] = "begun" /\ key'[b] = k)
      BY <1>5 DEF Settle
    <2> QED
      BY <1>0, <1>5, <2>1, <2>2, PhaseStutter DEF Settle, history
  <1>6. ASSUME NEW a \in Attempts, SettleFails(a)
        PROVE  Invisible
    <2>1. PhaseMap' = PhaseMap
      BY <1>6, PhaseStutter DEF SettleFails, rows
    <2> QED
      BY <1>0, <1>6, <2>1 DEF SettleFails
  <1>7. ASSUME NEW p \in Processes, Crash(p)
        PROVE  \E ks \in SUBSET Keys : Abstract!Lose(ks)
    <2> DEFINE lost == {k \in Keys \ blind :
                          \E a \in Attempts :
                            HostOf[a] = p /\ pc[a] = "begun" /\ key[a] = k}
    <2>1. \A k \in lost : Phase(k) = "permitted" /\ Phase(k)' = "spent"
      BY <1>7 DEF Crash, Phase, rows, history, OnceInv, RowFirst, SoleWorker, Working
    <2>2. \A k \in Keys \ lost : Phase(k)' = Phase(k)
      BY <1>7 DEF Crash, Phase, rows, history
    <2>3. performed' = performed
      BY <1>7 DEF Crash, history
    <2>4. PhaseMap' = [k \in Keys |-> IF k \in lost THEN "spent" ELSE Phase(k)]
      BY <2>1, <2>2 DEF PhaseMap
    <2>5. Abstract!Lose(lost)
      BY <2>1, <2>3, <2>4 DEF PhaseMap, Abstract!Lose
    <2> QED
      BY <2>5
  <1>8. ASSUME NEW p \in Processes, Start(p)
        PROVE  Invisible
    <2>1. \A k \in Keys : (status[k] = "absent") <=> (status'[k] = "absent")
      BY <1>8 DEF Start
    <2>2. UNCHANGED <<pc, key, blind, performed>>
      BY <1>8 DEF Start, attempt, history
    <2> QED
      BY <1>0, <2>1, <2>2, PhaseStutter
  <1>9. ASSUME NEW k \in Keys, NEW verdict \in Settled, Reconcile(k, verdict)
        PROVE  Invisible
    <2>1. \A j \in Keys : (status[j] = "absent") <=> (status'[j] = "absent")
      BY <1>9 DEF Reconcile, Settled
    <2>2. UNCHANGED <<pc, key, blind, performed>>
      BY <1>9 DEF Reconcile, attempt
    <2> QED
      BY <1>0, <2>1, <2>2, PhaseStutter
  <1>10. CASE UNCHANGED vars
    <2>1. UNCHANGED <<status, pc, key, blind, performed>>
      BY <1>10 DEF vars, rows, attempt, history
    <2> QED
      BY <1>0, <2>1, PhaseStutter
  <1> QED
    BY <1>1, <1>2, <1>3, <1>4, <1>5, <1>6, <1>7, <1>8, <1>9, <1>10
       DEF Next, Abstract!Next

\* With any number of processes, deaths and storage faults, the ledger implements
\* the abstract at-most-once effect (ImplementsAtMostOnce).
THEOREM LedgerImplementsAtMostOnce == Spec => ImplementsAtMostOnce
<1>1. Init => Abstract!Init
  BY DEF Init, Abstract!Init, Phase
<1>2. TypeInv /\ OnceInv /\ [Next]_vars => [Abstract!Next]_(Abstract!vars)
  BY RefinementStep
<1> QED
  BY <1>1, <1>2, TypeInvHolds, OnceInvHolds, PTL
     DEF Spec, ImplementsAtMostOnce, Abstract!Spec
=============================================================================
