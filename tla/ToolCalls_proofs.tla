-------------------------- MODULE ToolCalls_proofs --------------------------
(***************************************************************************)
(* The step budget of ToolCalls, for any calls, any budget and any clock:  *)
(* what is spent and promised stays within it, its end is kept for what    *)
(* the plan owes, and a halted plan promises nothing more.                 *)
(*                                                                         *)
(* Only three operators touch the plan (Reserve, Release and Settle); each *)
(* has a lemma, and every other step leaves the plan as it was.            *)
(***************************************************************************)
EXTENDS ToolCalls, FiniteSetTheorems, TLAPS

Slots == [Calls -> Nat \cup {None}]
OwedAtFirst == {ToolOf[d] : d \in Owing}

\* No call is charged twice.
ChargedOnce == Cardinality(charged) <= taken

\* What can break when the plan changes.
BudgetInv ==
  /\ owed \subseteq OwedAtFirst
  /\ ChargedOnce
  /\ WithinBudget
  /\ HoldIsKept

IInv == TypeOK /\ BudgetInv

-----------------------------------------------------------------------------
\* The calls that hold a slot are finitely many.
LEMMA HeldIsFinite ==
  ASSUME NEW l
  PROVE  /\ Held(l) \subseteq Calls
         /\ IsFiniteSet(Held(l))
         /\ Cardinality(Held(l)) \in Nat
<1>1. Held(l) \subseteq Calls
  BY DEF Held
<1>2. IsFiniteSet(Held(l))
  BY <1>1, FS_Subset, CallsAssumption
<1>. QED  BY <1>1, <1>2, FS_CardinalityType

\* Taking a slot adds one call to those that hold one.
LEMMA TakeSlot ==
  ASSUME NEW l \in Slots, NEW c \in Calls, NEW t \in Nat
  PROVE  /\ [l EXCEPT ![c] = t] \in Slots
         /\ Held([l EXCEPT ![c] = t]) = Held(l) \cup {c}
         /\ Cardinality(Held([l EXCEPT ![c] = t]))
              = IF l[c] = None THEN Cardinality(Held(l)) + 1
                               ELSE Cardinality(Held(l))
<1>1. Held([l EXCEPT ![c] = t]) = Held(l) \cup {c}
  BY DEF Held, Slots, None
<1>2. c \in Held(l) <=> l[c] # None
  BY DEF Held
<1>. QED  BY <1>1, <1>2, HeldIsFinite, FS_AddElement DEF Slots

\* Giving one back takes it away.
LEMMA GiveSlot ==
  ASSUME NEW l \in Slots, NEW c \in Calls
  PROVE  /\ [l EXCEPT ![c] = None] \in Slots
         /\ Held([l EXCEPT ![c] = None]) = Held(l) \ {c}
         /\ Cardinality(Held([l EXCEPT ![c] = None]))
              = IF l[c] = None THEN Cardinality(Held(l))
                               ELSE Cardinality(Held(l)) - 1
<1>1. Held([l EXCEPT ![c] = None]) = Held(l) \ {c}
  BY DEF Held, Slots, None
<1>2. c \in Held(l) <=> l[c] # None
  BY DEF Held
<1>. QED  BY <1>1, <1>2, HeldIsFinite, FS_RemoveElement DEF Slots

\* Reclaiming lapsed slots adds none.
LEMMA Reclaims ==
  ASSUME NEW l \in Slots
  PROVE  /\ Reclaimed(l) \in Slots
         /\ Held(Reclaimed(l)) \subseteq Held(l)
         /\ Cardinality(Held(Reclaimed(l))) <= Cardinality(Held(l))
<1>1. Reclaimed(l) \in Slots
  BY DEF Reclaimed, Slots
<1>2. Held(Reclaimed(l)) \subseteq Held(l)
  BY DEF Reclaimed, Held
<1>. QED  BY <1>1, <1>2, HeldIsFinite, FS_Subset

-----------------------------------------------------------------------------
\* Fewer slots held, and nothing else about the plan changed.
LEMMA FewerSlots ==
  ASSUME IInv, lease' \in Slots,
         Held(lease') \subseteq Held(lease),
         UNCHANGED <<taken, owed, charged>>
  PROVE  BudgetInv'
<1>1. Cardinality(Held(lease')) <= Cardinality(Held(lease))
  BY HeldIsFinite, FS_Subset
<1>2. WithinBudget'
  BY <1>1, HeldIsFinite, BudgetAssumption DEF IInv, BudgetInv, WithinBudget, Committed, TypeOK
<1>3. HoldIsKept'
  <2>. DEFINE S == (charged \cup Held(lease)) \cap Ordinary
              T == (charged \cup Held(lease')) \cap Ordinary
  <2>1. IsFiniteSet(S) /\ T \subseteq S
    BY HeldIsFinite, FS_Subset, CallsAssumption DEF Ordinary
  <2>2. Cardinality(S) \in Nat /\ Cardinality(T) \in Nat /\ Cardinality(T) <= Cardinality(S)
    BY <2>1, FS_Subset, FS_CardinalityType
  <2>. QED  BY <2>2, BudgetAssumption DEF IInv, BudgetInv, HoldIsKept, Ordinary
<1>. QED  BY <1>2, <1>3 DEF IInv, BudgetInv, ChargedOnce

\* A step that leaves the plan alone leaves its invariant alone.
LEMMA PlanAlone ==
  ASSUME IInv, UNCHANGED planVars
  PROVE  BudgetInv'
<1>1. /\ lease' = lease /\ taken' = taken /\ owed' = owed /\ charged' = charged
      /\ Held(lease') = Held(lease)
  BY DEF planVars, Held
<1>2. ChargedOnce' /\ WithinBudget'
  BY <1>1 DEF IInv, BudgetInv, ChargedOnce, WithinBudget, Committed
<1>3. HoldIsKept'
  BY <1>1 DEF IInv, BudgetInv, HoldIsKept, Ordinary
<1>. QED  BY <1>1, <1>2, <1>3 DEF IInv, BudgetInv, OwedAtFirst

LEMMA ReleaseKeeps ==
  ASSUME IInv, NEW c \in Calls, Release(c), UNCHANGED <<taken, owed, charged>>
  PROVE  BudgetInv' /\ lease' \in Slots /\ Held(lease') \subseteq Held(lease)
<1>1. lease \in Slots
  BY DEF IInv, TypeOK, Slots
<1>2. lease' \in Slots /\ Held(lease') \subseteq Held(lease)
  BY <1>1, GiveSlot DEF Release
<1>. QED  BY <1>2, FewerSlots

\* A call is promised a slot only below the ceiling, and an ordinary one only
\* below the hold.
LEMMA ReserveKeeps ==
  ASSUME IInv, NEW c \in Calls, Reserve(c), UNCHANGED <<now, taken, owed, charged>>
  PROVE  BudgetInv' /\ lease' \in Slots /\ seen' \in [Signatures -> Nat]
         /\ stopped' \in {"no"} \cup Halts
<1>. DEFINE l == Reclaimed(lease)
            answer == IF l[c] # None THEN "proceed" ELSE Admits(c, l)
<1>1. lease \in Slots /\ now \in Nat /\ taken \in Nat
  BY DEF IInv, TypeOK, Slots
<1>2. /\ l \in Slots
      /\ Held(l) \subseteq Held(lease)
      /\ Cardinality(Held(l)) <= Cardinality(Held(lease))
  BY <1>1, Reclaims
<1>3. lease' = IF answer = "proceed" THEN [l EXCEPT ![c] = now] ELSE l
  BY DEF Reserve
<1>4. lease' \in Slots
  BY <1>1, <1>2, <1>3, TakeSlot
<1>5. seen' \in [Signatures -> Nat] /\ stopped' \in {"no"} \cup Halts
  BY DEF Reserve, Halt, Halts, IInv, TypeOK, Signatures
<1>6. CASE answer # "proceed" \/ l[c] # None
  <2>1. Held(lease') \subseteq Held(lease)
    BY <1>1, <1>2, <1>3, <1>6, TakeSlot DEF Held
  <2>. QED  BY <1>4, <1>5, <2>1, FewerSlots
<1>7. CASE answer = "proceed" /\ l[c] = None
  <2>1. Admits(c, l) = "proceed"
    BY <1>7
  <2>2. Committed(l) < MaxSteps /\ ~HeldBack(c, l)
    BY <1>1, <1>2, <2>1, HeldIsFinite, BudgetAssumption
       DEF Admits, Committed, IInv, TypeOK, Halts
  <2>3. /\ Held(lease') = Held(l) \cup {c}
        /\ Cardinality(Held(lease')) = Cardinality(Held(l)) + 1
    BY <1>1, <1>2, <1>3, <1>7, TakeSlot
  <2>4. WithinBudget'
    BY <1>1, <2>2, <2>3, HeldIsFinite, BudgetAssumption DEF WithinBudget, Committed
  <2>5. HoldIsKept'
    <3>. DEFINE S == (charged \cup Held(lease)) \cap Ordinary
                T == (charged \cup Held(lease')) \cap Ordinary
    <3>. SUFFICES ASSUME owed # {}
                  PROVE  Cardinality(T) + Hold <= MaxSteps
      BY DEF HoldIsKept, Ordinary
    <3>0. charged \subseteq Calls /\ IsFiniteSet(charged)
      BY FS_Subset, CallsAssumption DEF IInv, TypeOK
    <3>1. CASE c \in Ordinary
      <4>1. Committed(l) + Hold < MaxSteps
        <5>1. ToolOf[c] \notin owed /\ c \notin Checking
          BY <3>1 DEF Ordinary, IInv, BudgetInv, OwedAtFirst
        <5>. QED  BY <5>1, <1>1, <2>2, HeldIsFinite, BudgetAssumption DEF HeldBack, Committed
      <4>2. /\ IsFiniteSet(charged \cup Held(lease'))
            /\ Cardinality(charged \cup Held(lease')) \in Nat
            /\ Cardinality(charged \cup Held(lease'))
                 <= Cardinality(charged) + Cardinality(Held(lease'))
        <5>1. /\ IsFiniteSet(Held(lease')) /\ Cardinality(Held(lease')) \in Nat
              /\ Cardinality(charged) \in Nat
          BY <3>0, HeldIsFinite, FS_CardinalityType
        <5>2. /\ IsFiniteSet(charged \cup Held(lease'))
              /\ Cardinality(charged \cup Held(lease'))
                   = Cardinality(charged) + Cardinality(Held(lease'))
                       - Cardinality(charged \cap Held(lease'))
          BY <3>0, <5>1, FS_Union
        <5>3. Cardinality(charged \cap Held(lease')) \in Nat
          BY <3>0, FS_Subset, FS_CardinalityType
        <5>4. Cardinality(charged \cup Held(lease')) \in Nat
          BY <5>2, FS_CardinalityType
        <5>. QED  BY <5>1, <5>2, <5>3, <5>4
      <4>3. T \subseteq charged \cup Held(lease')
        OBVIOUS
      <4>4. Cardinality(T) \in Nat /\ Cardinality(T) <= Cardinality(charged \cup Held(lease'))
        BY <4>2, <4>3, FS_Subset, FS_CardinalityType
      <4>5. Cardinality(charged) \in Nat /\ Cardinality(charged) <= taken
        BY <3>0, FS_CardinalityType DEF IInv, BudgetInv, ChargedOnce
      <4>6. Cardinality(T) <= taken + Cardinality(Held(l)) + 1
        BY <4>2, <4>4, <4>5, <2>3, <1>1, HeldIsFinite
      <4>. QED  BY <4>1, <4>4, <4>6, <1>1, HeldIsFinite, BudgetAssumption DEF Committed
    <3>2. CASE c \notin Ordinary
      <4>1. T \subseteq S
        <5>1. charged' = charged /\ Ordinary' = Ordinary
          BY DEF Ordinary
        <5>. QED  BY <1>2, <2>3, <3>2, <5>1
      <4>2. IsFiniteSet(S)
        BY <3>0, HeldIsFinite, FS_Union, FS_Subset
      <4>3. Cardinality(S) \in Nat /\ Cardinality(T) \in Nat /\ Cardinality(T) <= Cardinality(S)
        BY <4>1, <4>2, FS_Subset, FS_CardinalityType
      <4>4. Cardinality(S) + Hold <= MaxSteps
        BY DEF IInv, BudgetInv, HoldIsKept
      <4>. QED  BY <4>3, <4>4, BudgetAssumption
    <3>. QED  BY <3>1, <3>2
  <2>. QED  BY <1>4, <1>5, <2>4, <2>5 DEF IInv, BudgetInv, ChargedOnce
<1>. QED  BY <1>6, <1>7

\* A settled slot becomes a spent step: the sum does not move.
LEMMA SettleKeeps ==
  ASSUME IInv, NEW c \in Calls, NEW succeeded \in BOOLEAN, Settle(c, succeeded)
  PROVE  /\ BudgetInv'
         /\ lease' \in Slots /\ taken' \in Nat /\ owed' \subseteq owed
         /\ charged' \subseteq Calls /\ UNCHANGED <<seen, stopped>>
         /\ Held(lease') \subseteq Held(lease)
         /\ taken' + Cardinality(Held(lease')) = taken + Cardinality(Held(lease))
<1>1. lease \in Slots /\ taken \in Nat /\ charged \subseteq Calls /\ IsFiniteSet(charged)
  BY FS_Subset, CallsAssumption DEF IInv, TypeOK, Slots
<1>2. CASE registered /\ lease[c] # None
  <2>1. /\ taken' = taken + 1
        /\ lease' = [lease EXCEPT ![c] = None]
        /\ charged' = charged \cup {c}
        /\ owed' \subseteq owed
        /\ UNCHANGED <<seen, stopped>>
    BY <1>2 DEF Settle
  <2>2. /\ lease' \in Slots
        /\ Held(lease') = Held(lease) \ {c}
        /\ Cardinality(Held(lease')) = Cardinality(Held(lease)) - 1
    BY <1>1, <1>2, <2>1, GiveSlot
  <2>3. ChargedOnce'
    <3>1. Cardinality(charged) \in Nat
      BY <1>1, FS_CardinalityType
    <3>2. \/ Cardinality(charged') = Cardinality(charged)
          \/ Cardinality(charged') = Cardinality(charged) + 1
      BY <1>1, <2>1, FS_AddElement
    <3>. QED  BY <1>1, <2>1, <3>1, <3>2 DEF ChargedOnce, IInv, BudgetInv
  <2>4. WithinBudget'
    BY <1>1, <2>1, <2>2, HeldIsFinite, BudgetAssumption DEF WithinBudget, Committed, IInv, BudgetInv
  <2>5. charged' \cup Held(lease') = charged \cup Held(lease)
    BY <1>2, <2>1, <2>2 DEF Held
  <2>6. HoldIsKept'
    BY <2>1, <2>5 DEF HoldIsKept, IInv, BudgetInv, Ordinary
  <2>7. BudgetInv'
    BY <2>1, <2>3, <2>4, <2>6 DEF BudgetInv, IInv, OwedAtFirst
  <2>8. taken' + Cardinality(Held(lease')) = taken + Cardinality(Held(lease))
    BY <1>1, <2>1, <2>2, HeldIsFinite
  <2>9. taken' \in Nat
    BY <1>1, <2>1
  <2>10. charged' \subseteq Calls
    BY <1>1, <2>1
  <2>11. Held(lease') \subseteq Held(lease)
    BY <2>2
  <2>. QED  BY <2>1, <2>2, <2>7, <2>8, <2>9, <2>10, <2>11
<1>3. CASE ~(registered /\ lease[c] # None)
  <2>1. UNCHANGED planVars
    BY <1>3 DEF Settle
  <2>2. BudgetInv'
    BY <2>1, PlanAlone
  <2>3. Held(lease') = Held(lease)
    BY <2>1 DEF planVars, Held
  <2>. QED  BY <1>1, <2>1, <2>2, <2>3 DEF planVars
<1>. QED  BY <1>2, <1>3

-----------------------------------------------------------------------------
LEMMA InitIInv == Init => IInv
<1>. SUFFICES ASSUME Init PROVE IInv
  OBVIOUS
<1>1. TypeOK
  <2>1. ended \in BOOLEAN /\ registered \in BOOLEAN
    BY DEF Init
  <2>2. owed \in SUBSET Tools
    BY CallsAssumption DEF Init, Tools
  <2>3. /\ now \in 0..MaxNow /\ turn \in SUBSET Calls /\ taken \in Nat
        /\ stopped \in {"no"} \cup Halts /\ charged \in SUBSET Calls
    BY TimeAssumption DEF Init
  <2>4. /\ pc \in [Calls -> Stages]
        /\ lease \in [Calls -> Nat \cup {None}]
        /\ grant \in [Calls -> Nat \cup {None}]
        /\ seen \in [Signatures -> Nat]
    BY DEF Init, Stages
  <2>. QED  BY <2>1, <2>2, <2>3, <2>4 DEF TypeOK
<1>2. Held(lease) = {} /\ charged = {}
  BY DEF Init, Held
<1>3. BudgetInv
  <2>1. (charged \cup Held(lease)) \cap Ordinary = {}
    BY <1>2
  <2>. QED  BY <1>2, <2>1, FS_EmptySet, BudgetAssumption
            DEF Init, BudgetInv, ChargedOnce, WithinBudget, HoldIsKept, Committed, OwedAtFirst
<1>. QED  BY <1>1, <1>3 DEF IInv

LEMMA LoopKeeps == IInv /\ Loop => IInv'
<1>. SUFFICES ASSUME IInv, Loop PROVE IInv'
  OBVIOUS
<1>1. UNCHANGED planVars
  BY DEF Loop, Turn, Ask, Send, Hear, GiveUp, Drop
<1>2. TypeOK'
  BY DEF Loop, Turn, Ask, Send, Hear, GiveUp, Drop, Move, TypeOK, IInv, Stages, planVars, runVars
<1>. QED  BY <1>1, <1>2, PlanAlone DEF IInv

LEMMA AuthorizeKeeps == \A c \in Calls : IInv /\ Authorize(c) => IInv'
<1>. SUFFICES ASSUME NEW c \in Calls, IInv, Authorize(c) PROVE IInv'
  OBVIOUS
<1>1. CASE RefuseUnjudged(c) \/ Decline(c)
  <2>1. /\ Release(c) /\ Move(c, "refused")
        /\ UNCHANGED <<now, turn, grant, taken, owed, seen, stopped, charged, runVars>>
    BY <1>1 DEF RefuseUnjudged, Decline
  <2>2. BudgetInv' /\ lease' \in Slots
    BY <2>1, ReleaseKeeps
  <2>. QED  BY <2>1, <2>2 DEF IInv, TypeOK, Slots, Stages, Move, runVars
<1>2. CASE Check(c)
  BY <1>2, PlanAlone DEF Check, Move, IInv, TypeOK, Stages, planVars, runVars
<1>3. CASE AskPlan(c)
  <2>1. CASE registered /\ Reserve(c) /\ UNCHANGED <<taken, owed, charged>>
    <3>1. UNCHANGED <<now, turn, grant, runVars>>
      BY <1>3 DEF AskPlan
    <3>2. /\ BudgetInv' /\ lease' \in Slots
          /\ seen' \in [Signatures -> Nat] /\ stopped' \in {"no"} \cup Halts
      BY <2>1, <3>1, ReserveKeeps
    <3>3. pc' \in [Calls -> Stages]
      BY <2>1 DEF Reserve, Move, IInv, TypeOK, Stages
    <3>. QED  BY <2>1, <3>1, <3>2, <3>3 DEF IInv, TypeOK, Slots, runVars
  <2>2. CASE ~registered /\ Move(c, "judged") /\ UNCHANGED planVars
    <3>1. UNCHANGED <<now, turn, grant, runVars>>
      BY <1>3 DEF AskPlan
    <3>. QED  BY <2>2, <3>1, PlanAlone DEF Move, IInv, TypeOK, Stages, planVars, runVars
  <2>. QED  BY <1>3, <2>1, <2>2 DEF AskPlan
<1>4. CASE Issue(c)
  BY <1>4, PlanAlone, TimeAssumption DEF Issue, Move, IInv, TypeOK, Stages, planVars, runVars
<1>. QED  BY <1>1, <1>2, <1>3, <1>4 DEF Authorize

LEMMA ExecuteKeeps == \A c \in Calls : IInv /\ Execute(c) => IInv'
<1>. SUFFICES ASSUME NEW c \in Calls, IInv, Execute(c) PROVE IInv'
  OBVIOUS
<1>1. CASE Redeem(c)
  BY <1>1, PlanAlone DEF Redeem, Move, IInv, TypeOK, Stages, planVars, runVars
<1>2. CASE Withdraw(c)
  <2>1. /\ Release(c) /\ Move(c, "refused")
        /\ UNCHANGED <<now, turn, grant, taken, owed, seen, stopped, charged, runVars>>
    BY <1>2 DEF Withdraw
  <2>2. BudgetInv' /\ lease' \in Slots
    BY <2>1, ReleaseKeeps
  <2>. QED  BY <2>1, <2>2 DEF IInv, TypeOK, Slots, Stages, Move, runVars
<1>3. CASE Start(c)
  BY <1>3, PlanAlone DEF Start, Move, IInv, TypeOK, Stages, planVars, runVars
<1>4. ASSUME NEW succeeded \in BOOLEAN, Finish(c, succeeded) PROVE IInv'
  <2>1. /\ Settle(c, succeeded) /\ Move(c, "done")
        /\ UNCHANGED <<now, turn, grant, runVars>>
    BY <1>4 DEF Finish
  <2>2. /\ BudgetInv' /\ lease' \in Slots /\ taken' \in Nat /\ owed' \subseteq owed
        /\ charged' \subseteq Calls /\ UNCHANGED <<seen, stopped>>
    BY <2>1, SettleKeeps
  <2>. QED  BY <2>1, <2>2 DEF IInv, TypeOK, Slots, Stages, Move, runVars
<1>. QED  BY <1>1, <1>2, <1>3, <1>4 DEF Execute

LEMMA StepKeeps == IInv /\ [Next]_vars => IInv'
<1>. SUFFICES ASSUME IInv, [Next]_vars PROVE IInv'
  OBVIOUS
<1>1. CASE End \/ ForgetPlan \/ Tick
  <2>1. UNCHANGED planVars
    BY <1>1 DEF End, ForgetPlan, Tick
  <2>2. UNCHANGED <<turn, pc, grant>>
    BY <1>1 DEF End, ForgetPlan, Tick
  <2>3. now' \in 0..MaxNow
    BY <1>1, TimeAssumption DEF End, ForgetPlan, Tick, IInv, TypeOK
  <2>4. ended' \in BOOLEAN /\ registered' \in BOOLEAN
    BY <1>1 DEF End, ForgetPlan, Tick, IInv, TypeOK, runVars
  <2>5. TypeOK'
    BY <2>1, <2>2, <2>3, <2>4 DEF IInv, TypeOK, planVars
  <2>. QED  BY <2>1, <2>5, PlanAlone DEF IInv
<1>2. CASE UNCHANGED vars
  <2>1. UNCHANGED planVars
    BY <1>2 DEF vars, planVars
  <2>. QED  BY <1>2, <2>1, PlanAlone DEF vars, IInv, TypeOK
<1>. QED  BY <1>1, <1>2, LoopKeeps, AuthorizeKeeps, ExecuteKeeps DEF Next

-----------------------------------------------------------------------------
\* Every variable keeps its type: a plan halts only for a reason that ends a
\* run, and never for want of room.
THEOREM TypeCorrect == Spec => []TypeOK
<1>1. IInv => TypeOK  BY DEF IInv
<1>. QED  BY <1>1, InitIInv, StepKeeps, PTL DEF Spec

\* The budget is never overrun, however many calls are authorised at once.
THEOREM BudgetHolds == Spec => []WithinBudget
<1>1. IInv => WithinBudget  BY DEF IInv, BudgetInv
<1>. QED  BY <1>1, InitIInv, StepKeeps, PTL DEF Spec

\* Research never eats the steps held for what the plan owes.
THEOREM DeliverableKeepsItsSteps == Spec => []HoldIsKept
<1>1. IInv => HoldIsKept  BY DEF IInv, BudgetInv
<1>. QED  BY <1>1, InitIInv, StepKeeps, PTL DEF Spec

\* What HaltIsFinal says of one step.
HaltStep ==
  stopped # "no" => /\ stopped' = stopped
                    /\ Held(lease') \subseteq Held(lease)
                    /\ taken' + Cardinality(Held(lease'))
                         <= taken + Cardinality(Held(lease))

LEMMA StepKeepsHalt == IInv /\ [Next]_vars => HaltStep
<1>. SUFFICES ASSUME IInv, [Next]_vars, stopped # "no"
              PROVE  /\ stopped' = stopped
                     /\ Held(lease') \subseteq Held(lease)
                     /\ taken' + Cardinality(Held(lease'))
                          <= taken + Cardinality(Held(lease))
  BY DEF HaltStep
<1>0. lease \in Slots /\ taken \in Nat /\ stopped \in Halts /\ now \in Nat
  BY DEF IInv, TypeOK, Slots
<1>a. ASSUME Held(lease') \subseteq Held(lease), taken' = taken
      PROVE  taken' + Cardinality(Held(lease')) <= taken + Cardinality(Held(lease))
  BY <1>0, <1>a, HeldIsFinite, FS_Subset
<1>1. CASE UNCHANGED planVars
  BY <1>0, <1>1, HeldIsFinite DEF planVars
<1>2. ASSUME NEW c \in Calls, RefuseUnjudged(c) \/ Decline(c) \/ Withdraw(c)
      PROVE  /\ stopped' = stopped
             /\ Held(lease') \subseteq Held(lease)
             /\ taken' = taken
  <2>1. Release(c) /\ UNCHANGED <<taken, owed, stopped, charged>>
    BY <1>2 DEF RefuseUnjudged, Decline, Withdraw
  <2>. QED  BY <2>1, ReleaseKeeps
<1>3. ASSUME NEW c \in Calls, Reserve(c), UNCHANGED <<now, taken, owed, charged>>
      PROVE  /\ stopped' = stopped
             /\ Held(lease') \subseteq Held(lease)
             /\ taken' = taken
  <2>. DEFINE l == Reclaimed(lease)
              answer == IF l[c] # None THEN "proceed" ELSE Admits(c, l)
  <2>1. l \in Slots /\ Held(l) \subseteq Held(lease)
    BY <1>0, Reclaims
  <2>2. answer = IF l[c] # None THEN "proceed" ELSE stopped
    BY DEF Admits
  <2>3. stopped' = stopped
    BY <1>0, <1>3, <2>2 DEF Reserve, Halt, Halts
  <2>4. lease' = IF l[c] # None THEN [l EXCEPT ![c] = now] ELSE l
    BY <1>0, <1>3, <2>2 DEF Reserve, Halts
  <2>5. Held(lease') \subseteq Held(lease)
    BY <1>0, <2>1, <2>4, TakeSlot DEF Held
  <2>. QED  BY <1>3, <2>3, <2>5
<1>4. ASSUME NEW c \in Calls, NEW succeeded \in BOOLEAN, Settle(c, succeeded)
      PROVE  /\ stopped' = stopped
             /\ Held(lease') \subseteq Held(lease)
             /\ taken' + Cardinality(Held(lease')) = taken + Cardinality(Held(lease))
  BY <1>4, SettleKeeps
<1>5. CASE Loop
  BY <1>1, <1>5 DEF Loop, Turn, Ask, Send, Hear, GiveUp, Drop
<1>6. ASSUME NEW c \in Calls, Authorize(c)
      PROVE  /\ stopped' = stopped
             /\ Held(lease') \subseteq Held(lease)
             /\ taken' + Cardinality(Held(lease')) <= taken + Cardinality(Held(lease))
  <2>1. CASE RefuseUnjudged(c) \/ Decline(c)
    BY <1>2, <1>a, <2>1
  <2>2. CASE Check(c) \/ Issue(c)
    BY <1>1, <2>2 DEF Check, Issue
  <2>3. CASE AskPlan(c)
    BY <1>1, <1>3, <1>a, <2>3 DEF AskPlan
  <2>. QED  BY <1>6, <2>1, <2>2, <2>3 DEF Authorize
<1>7. ASSUME NEW c \in Calls, Execute(c)
      PROVE  /\ stopped' = stopped
             /\ Held(lease') \subseteq Held(lease)
             /\ taken' + Cardinality(Held(lease')) <= taken + Cardinality(Held(lease))
  <2>1. CASE Withdraw(c)
    BY <1>2, <1>a, <2>1
  <2>2. CASE Redeem(c) \/ Start(c)
    BY <1>1, <2>2 DEF Redeem, Start
  <2>3. ASSUME NEW succeeded \in BOOLEAN, Finish(c, succeeded)
        PROVE  /\ stopped' = stopped
               /\ Held(lease') \subseteq Held(lease)
               /\ taken' + Cardinality(Held(lease')) <= taken + Cardinality(Held(lease))
    <3>1. Settle(c, succeeded)
      BY <2>3 DEF Finish
    <3>2. /\ stopped' = stopped
          /\ Held(lease') \subseteq Held(lease)
          /\ taken' + Cardinality(Held(lease')) = taken + Cardinality(Held(lease))
          /\ taken' \in Nat
      BY <3>1, SettleKeeps
    <3>. QED  BY <1>0, <3>2, HeldIsFinite
  <2>. QED  BY <1>7, <2>1, <2>2, <2>3 DEF Execute
<1>8. CASE End \/ ForgetPlan \/ Tick
  BY <1>1, <1>8 DEF End, ForgetPlan, Tick
<1>9. CASE UNCHANGED vars
  BY <1>1, <1>9 DEF vars, planVars
<1>. QED  BY <1>5, <1>6, <1>7, <1>8, <1>9 DEF Next

\* A halted plan promises nothing more and spends only what it had promised.
THEOREM HaltHolds == Spec => HaltIsFinal
<1>1. IInv /\ [Next]_vars => [HaltStep]_vars
  BY StepKeepsHalt
<1>. QED  BY <1>1, InitIInv, StepKeeps, PTL DEF Spec, HaltIsFinal, HaltStep

\* The plan's promise about steps (BudgetIsKept): never overrun, and the
\* deliverable's own are there when its turn comes.
THEOREM BudgetsAreKept == Spec => []BudgetIsKept
<1>1. WithinBudget /\ HoldIsKept => BudgetIsKept
  BY DEF BudgetIsKept
<1>. QED  BY <1>1, BudgetHolds, DeliverableKeepsItsSteps, PTL

-----------------------------------------------------------------------------
(* A tool that starts has its step set aside.                              *)

\* A turn is of reads, or of one call; what is being judged belongs to it; and
\* a call that was sent leaves it only when the run is over.
TurnsAreApart ==
  /\ \A c \in turn \ ReadOnly : turn = {c}
  /\ \A c \in Calls : pc[c] \in {"asked", "checked", "judged"} => c \in turn
  /\ \A c \in Calls : pc[c] = "sent" /\ c \notin turn => ended

\* A call that was said yes to and can still be redeemed.
AtWork(c) == pc[c] \in {"judged", "granted", "sent"} /\ (c \in turn \/ pc[c] = "sent")

\* The slot of a read is as old as its grant, which lapses first; while any other
\* call is at work no plan is asked about another, and so no slot reclaimed.
SlotIsKept(c) ==
  /\ c \in ReadOnly /\ pc[c] = "judged" => lease[c] = now
  /\ c \in ReadOnly /\ pc[c] \in {"granted", "sent"} /\ Good(c) => lease[c] = grant[c]
  /\ c \notin ReadOnly /\ AtWork(c)
       => lease[c] # None /\ \A d \in Calls \ {c} : pc[d] # "checked"

SlotsAreKept == registered => \A c \in Calls : SlotIsKept(c)

LEMMA TurnsAreApartStep == IInv /\ TurnsAreApart /\ [Next]_vars => TurnsAreApart'
<1> SUFFICES ASSUME IInv, TurnsAreApart, [Next]_vars PROVE TurnsAreApart'
  OBVIOUS
<1>0. pc \in [Calls -> Stages] /\ turn \subseteq Calls
  BY DEF IInv, TypeOK
<1>1. ASSUME NEW batch \in SUBSET Calls \ {{}}, Turn(batch)
      PROVE  TurnsAreApart'
  <2>1. \A c \in batch \ ReadOnly : batch = {c}
    <3> SUFFICES ASSUME NEW c \in batch \ ReadOnly PROVE batch = {c}
      OBVIOUS
    <3>1. Cardinality(batch) = 1 /\ IsFiniteSet(batch)
      BY <1>1, FS_Subset, CallsAssumption DEF Turn
    <3>2. PICK d : batch = {d}
      BY <3>1, FS_Singleton
    <3>. QED  BY <3>2
  <2>. QED  BY <1>1, <2>1 DEF Turn, TurnsAreApart, runVars
<1>2. ASSUME NEW c \in Calls, Ask(c) \/ Send(c) \/ Hear(c) \/ GiveUp(c)
      PROVE  TurnsAreApart'
  BY <1>0, <1>2 DEF Ask, Send, Hear, GiveUp, Move, TurnsAreApart, runVars
<1>3. CASE Drop
  BY <1>0, <1>3 DEF Drop, TurnsAreApart, runVars
<1>4. ASSUME NEW c \in Calls, Authorize(c) \/ Execute(c)
      PROVE  TurnsAreApart'
  <2>1. /\ UNCHANGED <<turn, ended>>
        /\ \A d \in Calls \ {c} : pc'[d] = pc[d]
        /\ pc'[c] \in {"asked", "checked", "judged"} => pc[c] \in {"asked", "checked", "judged"}
        /\ pc'[c] # "sent"
    BY <1>0, <1>4 DEF Authorize, Execute, RefuseUnjudged, Check, AskPlan, Reserve, Decline,
       Issue, Redeem, Withdraw, Start, Finish, Move, runVars
  <2>. QED  BY <2>1 DEF TurnsAreApart
<1>5. CASE End \/ ForgetPlan \/ Tick
  BY <1>5 DEF End, ForgetPlan, Tick, TurnsAreApart, runVars
<1>6. CASE UNCHANGED vars
  BY <1>6 DEF vars, TurnsAreApart
<1>. QED  BY <1>1, <1>2, <1>3, <1>4, <1>5, <1>6 DEF Next, Loop

\* Asking about one call touches the slots of others only by reclaiming them.
LEMMA OthersSlots ==
  ASSUME IInv, NEW c \in Calls, Reserve(c), NEW d \in Calls \ {c}, lease[d] # None,
         now - lease[d] < LeaseTTL
  PROVE  lease'[d] = lease[d]
<1>1. lease \in Slots /\ Reclaimed(lease) \in Slots
  BY Reclaims DEF IInv, TypeOK, Slots
<1>2. Reclaimed(lease)[d] = lease[d]
  BY DEF Reclaimed
<1>3. lease' \in {Reclaimed(lease), [Reclaimed(lease) EXCEPT ![c] = now]}
  BY DEF Reserve
<1>. QED  BY <1>1, <1>2, <1>3 DEF Slots

LEMMA SlotsAskPlan ==
  ASSUME IInv, TurnsAreApart, SlotsAreKept, NEW c \in Calls, AskPlan(c), registered'
  PROVE  \A d \in Calls : SlotIsKept(d)'
<1>1. /\ registered /\ Reserve(c) /\ pc[c] = "checked" /\ c \in turn
      /\ UNCHANGED <<now, turn, grant, ended>>
  BY DEF AskPlan, TurnsAreApart, runVars
<1>2. /\ pc \in [Calls -> Stages] /\ lease \in Slots /\ grant \in [Calls -> Nat \cup {None}]
      /\ now \in Nat /\ Reclaimed(lease) \in Slots
  BY Reclaims DEF IInv, TypeOK, Slots
<1>3. /\ pc'[c] \in {"judged", "refused"} /\ \A d \in Calls \ {c} : pc'[d] = pc[d]
      /\ pc'[c] = "judged" => lease'[c] = now
  BY <1>1, <1>2 DEF Reserve, Move, Slots
<1> SUFFICES ASSUME NEW d \in Calls PROVE SlotIsKept(d)'
  OBVIOUS
<1>4. SlotIsKept(d)
  BY <1>1 DEF SlotsAreKept
<1>5. CASE d = c
  <2>1. c \notin ReadOnly => \A e \in Calls \ {c} : pc'[e] # "checked"
    BY <1>1, <1>3 DEF TurnsAreApart
  <2>2. now # None
    BY <1>2 DEF None
  <2>. QED  BY <1>1, <1>3, <1>5, <2>1, <2>2 DEF SlotIsKept, AtWork
<1>6. CASE d # c /\ d \in ReadOnly
  <2>1. pc'[d] = pc[d]
    BY <1>3, <1>6
  <2>2. ASSUME lease[d] # None, now - lease[d] < LeaseTTL
        PROVE  lease'[d] = lease[d]
    BY <1>1, <1>6, <2>2, OthersSlots
  <2>3. pc[d] = "judged" => lease'[d] = now
    <3> SUFFICES ASSUME pc[d] = "judged" PROVE lease'[d] = now
      OBVIOUS
    <3>1. lease[d] = now
      BY <1>4, <1>6 DEF SlotIsKept
    <3>2. now # None /\ now - lease[d] < LeaseTTL
      BY <1>2, <3>1, TimeAssumption DEF None
    <3>. QED  BY <2>2, <3>1, <3>2
  <2>4. pc[d] \in {"granted", "sent"} /\ Good(d) => lease'[d] = grant[d]
    <3> SUFFICES ASSUME pc[d] \in {"granted", "sent"}, Good(d) PROVE lease'[d] = grant[d]
      OBVIOUS
    <3>1. lease[d] = grant[d]
      BY <1>4, <1>6 DEF SlotIsKept
    <3>2. grant[d] # None /\ now - grant[d] < LeaseTTL
      BY <1>2, TimeAssumption DEF Good, Expired, None
    <3>. QED  BY <2>2, <3>1, <3>2
  <2>. QED  BY <1>1, <1>6, <2>1, <2>3, <2>4 DEF SlotIsKept, Good, Expired
<1>7. CASE d # c /\ d \notin ReadOnly
  <2>1. ~AtWork(d)
    BY <1>1, <1>4, <1>7 DEF SlotIsKept
  <2>2. ~AtWork(d)'
    BY <1>1, <1>3, <1>7, <2>1 DEF AtWork
  <2>. QED  BY <1>7, <2>2 DEF SlotIsKept
<1>. QED  BY <1>5, <1>6, <1>7

LEMMA SlotsAreKeptStep == IInv /\ TurnsAreApart /\ SlotsAreKept /\ [Next]_vars => SlotsAreKept'
<1> SUFFICES ASSUME IInv, TurnsAreApart, SlotsAreKept, [Next]_vars, registered'
             PROVE  \A d \in Calls : SlotIsKept(d)'
  BY DEF SlotsAreKept
<1>0. /\ pc \in [Calls -> Stages] /\ lease \in Slots /\ grant \in [Calls -> Nat \cup {None}]
      /\ now \in Nat
  BY DEF IInv, TypeOK, Slots
<1>r. registered
  BY DEF Next, Loop, Turn, Ask, Send, Hear, GiveUp, Drop, Authorize, Execute, RefuseUnjudged,
     Check, AskPlan, Decline, Issue, Redeem, Withdraw, Start, Finish, End, ForgetPlan, Tick,
     vars, runVars
<1>k. \A d \in Calls : SlotIsKept(d)
  BY <1>r DEF SlotsAreKept
\* Nothing is said of a call whose place the step makes none of these.
<1>1. ASSUME NEW c \in Calls, pc'[c] \notin {"judged", "granted", "sent", "checked"},
             \A d \in Calls \ {c} : pc'[d] = pc[d] /\ lease'[d] = lease[d],
             UNCHANGED <<now, grant>>, turn' \subseteq turn
      PROVE  \A d \in Calls : SlotIsKept(d)'
  BY <1>k, <1>1 DEF SlotIsKept, AtWork, Good, Expired
<1>2. ASSUME NEW batch \in SUBSET Calls \ {{}}, Turn(batch)
      PROVE  \A d \in Calls : SlotIsKept(d)'
  BY <1>k, <1>2 DEF Turn, SlotIsKept, AtWork, Good, Expired, planVars
<1>3. ASSUME NEW c \in Calls, Ask(c)
      PROVE  \A d \in Calls : SlotIsKept(d)'
  BY <1>0, <1>1, <1>3 DEF Ask, Move, planVars
<1>4. ASSUME NEW c \in Calls, Send(c)
      PROVE  \A d \in Calls : SlotIsKept(d)'
  BY <1>0, <1>k, <1>4 DEF Send, Move, SlotIsKept, AtWork, Good, Expired, planVars
<1>5. ASSUME NEW c \in Calls, Hear(c) \/ GiveUp(c)
      PROVE  \A d \in Calls : SlotIsKept(d)'
  BY <1>k, <1>5 DEF Hear, GiveUp, SlotIsKept, AtWork, Good, Expired, planVars
<1>6. CASE Drop
  BY <1>k, <1>6 DEF Drop, SlotIsKept, AtWork, Good, Expired, planVars
<1>7. ASSUME NEW c \in Calls, RefuseUnjudged(c) \/ Decline(c) \/ Withdraw(c)
      PROVE  \A d \in Calls : SlotIsKept(d)'
  <2>1. /\ Release(c) /\ Move(c, "refused") /\ UNCHANGED <<now, turn, grant>>
    BY <1>7 DEF RefuseUnjudged, Decline, Withdraw
  <2>. QED  BY <1>0, <1>1, <2>1 DEF Release, Move, Slots
<1>8. ASSUME NEW c \in Calls, Check(c)
      PROVE  \A d \in Calls : SlotIsKept(d)'
  <2>1. /\ pc[c] = "asked" /\ c \in turn /\ ~ended
        /\ pc' = [pc EXCEPT ![c] = "checked"] /\ UNCHANGED <<now, turn, grant, lease>>
    BY <1>8 DEF Check, Move, TurnsAreApart, planVars
  <2>2. \A d \in Calls \ ReadOnly : d # c => ~AtWork(d)
    BY <2>1 DEF AtWork, TurnsAreApart
  <2>. QED  BY <1>0, <1>k, <2>1, <2>2 DEF SlotIsKept, AtWork, Good, Expired
<1>9. ASSUME NEW c \in Calls, AskPlan(c)
      PROVE  \A d \in Calls : SlotIsKept(d)'
  BY <1>9, SlotsAskPlan
<1>10. ASSUME NEW c \in Calls, Issue(c)
       PROVE  \A d \in Calls : SlotIsKept(d)'
  <2>1. /\ pc[c] = "judged" /\ pc' = [pc EXCEPT ![c] = "granted"]
        /\ grant'[c] = now /\ \A d \in Calls \ {c} : grant'[d] \in {None, grant[d]}
        /\ UNCHANGED <<now, turn, lease>>
    BY <1>10 DEF Issue, Move, planVars
  <2>. QED  BY <1>0, <1>k, <2>1 DEF SlotIsKept, AtWork, Good, Expired
<1>11. ASSUME NEW c \in Calls, Redeem(c) \/ Start(c) \/ \E succeeded \in BOOLEAN : Finish(c, succeeded)
       PROVE  \A d \in Calls : SlotIsKept(d)'
  <2>1. /\ pc'[c] \in {"admitted", "refused", "running", "done"}
        /\ \A d \in Calls \ {c} : pc'[d] = pc[d] /\ lease'[d] = lease[d] /\ grant'[d] = grant[d]
        /\ UNCHANGED <<now, turn>>
    BY <1>0, <1>11 DEF Redeem, Start, Finish, Settle, Move, Slots, planVars
  <2>. QED  BY <1>k, <2>1 DEF SlotIsKept, AtWork, Good, Expired
<1>12. CASE End \/ ForgetPlan
  BY <1>k, <1>12 DEF End, ForgetPlan, SlotIsKept, AtWork, Good, Expired, planVars
<1>13. CASE Tick
  <2>1. /\ now' = now + 1 /\ UNCHANGED <<pc, lease, turn, grant>>
        /\ \A c \in ReadOnly : pc[c] # "judged"
    BY <1>13 DEF Tick, planVars
  <2>2. \A d \in Calls : Good(d)' => Good(d)
    BY <1>0, <2>1, TimeAssumption DEF Good, Expired, None
  <2>. QED  BY <1>k, <2>1, <2>2 DEF SlotIsKept, AtWork
<1>14. CASE UNCHANGED vars
  BY <1>k, <1>14 DEF vars, SlotIsKept, AtWork, Good, Expired
<1>. QED  BY <1>2, <1>3, <1>4, <1>5, <1>6, <1>7, <1>8, <1>9, <1>10, <1>11, <1>12, <1>13, <1>14
          DEF Next, Loop, Authorize, Execute

\* A tool starts with its step set aside: between the yes and the redemption,
\* however long a person took over another call, nothing has taken the slot
\* away (AdmittedHoldsSlot).
THEOREM StartsWithASlot == Spec => AdmittedHoldsSlot
<1>1. Init => TurnsAreApart /\ SlotsAreKept
  BY DEF Init, TurnsAreApart, SlotsAreKept, SlotIsKept, AtWork
<1>2. IInv /\ SlotsAreKept /\ [Next]_vars
        => [\A c \in Calls :
              pc[c] = "sent" /\ pc'[c] = "admitted" => registered /\ lease[c] # None]_vars
  <2> SUFFICES ASSUME IInv, SlotsAreKept, Next, NEW c \in Calls,
                      pc[c] = "sent", pc'[c] = "admitted"
               PROVE  registered /\ lease[c] # None
    BY DEF vars
  <2>0. pc \in [Calls -> Stages]
    BY DEF IInv, TypeOK
  <2>1. Redeem(c)
    BY <2>0 DEF Next, Loop, Turn, Ask, Send, Hear, GiveUp, Drop, Authorize, Execute,
       RefuseUnjudged, Check, AskPlan, Reserve, Decline, Issue, Redeem, Withdraw, Start,
       Finish, End, ForgetPlan, Tick, Move
  <2>2. registered /\ Good(c)
    BY <2>0, <2>1 DEF Redeem, Move
  <2>. QED  BY <2>2 DEF SlotsAreKept, SlotIsKept, AtWork, Good
<1>. QED  BY <1>1, <1>2, InitIInv, StepKeeps, TurnsAreApartStep, SlotsAreKeptStep, PTL
          DEF Spec, AdmittedHoldsSlot
=============================================================================
