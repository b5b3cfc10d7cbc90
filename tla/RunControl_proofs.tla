-------------------------- MODULE RunControl_proofs --------------------------
(***************************************************************************)
(* Proofs about what lets a run go on, holds it up or ends it: the lease   *)
(* under which a process drives it, the tokens that stop its turns, and    *)
(* the approvals its calls wait for.  The three share no state, and each   *)
(* part below is about one of them, for every value of its constants.      *)
(***************************************************************************)
EXTENDS RunLease, Cancellations, Approvals, TLAPS

(***************************************************************************)
(* The lease of a run.                                                     *)
(***************************************************************************)

LEMMA NoRowIsNoLease == \A l \in Leases : l # NoRow
  BY DEF Leases, NoRow

\* What acquire() writes is a lease.
LEMMA ClaimedLease ==
  ASSUME LeaseTypeOK, NEW d \in Drivers, Claim(d)
  PROVE  /\ leaseRow' \in Leases
         /\ leaseRow' # NoRow
         /\ leaseRow'.owner = HostOf[d]
         /\ leaseRow'.token = leaseRow.token + 1
         /\ leaseRow.token \in Nat
         /\ lease' = [lease EXCEPT ![d] = leaseRow']
  <1>1. HostOf[d] \in Processes /\ Term \in Nat
    BY HostAssumption, TermAssumption
  <1>2. leaseRow.token \in Nat
    BY DEF LeaseTypeOK, Leases, NoRow
  <1>3. leaseRow' \in Leases
    BY <1>1, <1>2 DEF Claim, NextToken, LeaseTypeOK, Leases
  <1> QED
    BY <1>2, <1>3, NoRowIsNoLease DEF Claim, NextToken

\* The row, the clock and what each driver holds stay well formed (LeaseTypeOK).
THEOREM LeaseTypeCorrect == LeaseSpec => []LeaseTypeOK
<1>1. LeaseInit => LeaseTypeOK
  BY DEF LeaseInit, LeaseTypeOK
<1>2. LeaseTypeOK /\ [LeaseNext]_leaseVars => LeaseTypeOK'
  <2> SUFFICES ASSUME LeaseTypeOK, [LeaseNext]_leaseVars PROVE LeaseTypeOK'
    OBVIOUS
  <2>1. ASSUME NEW d \in Drivers, Claim(d) PROVE LeaseTypeOK'
    <3>1. /\ leaseRow' \in Leases
          /\ leaseRow' # NoRow
          /\ lease' = [lease EXCEPT ![d] = leaseRow']
      BY <2>1, ClaimedLease
    <3>2. lease' \in [Drivers -> Leases \cup {NoRow}]
      BY <3>1 DEF LeaseTypeOK
    <3>3. \A e \in driving' : lease'[e] # NoRow /\ HostOf[e] \in alive'
      BY <2>1, <3>1 DEF LeaseTypeOK, Claim
    <3> QED
      BY <2>1, <3>1, <3>2, <3>3, HostAssumption DEF LeaseTypeOK, Claim
  <2>2. ASSUME NEW d \in Drivers, Release(d) PROVE LeaseTypeOK'
    BY <2>2 DEF LeaseTypeOK, Release
  <2>3. ASSUME NEW d \in Drivers, ReleaseFails(d) PROVE LeaseTypeOK'
    BY <2>3 DEF LeaseTypeOK, ReleaseFails
  <2>4. ASSUME NEW p \in Processes, Crash(p) PROVE LeaseTypeOK'
    BY <2>4 DEF LeaseTypeOK, Crash
  <2>5. CASE Tick
    BY <2>5 DEF LeaseTypeOK, Tick
  <2>6. CASE UNCHANGED leaseVars
    BY <2>6 DEF LeaseTypeOK, leaseVars
  <2> QED
    BY <2>1, <2>2, <2>3, <2>4, <2>5, <2>6 DEF LeaseNext
<1> QED
  BY <1>1, <1>2, PTL DEF LeaseSpec

-----------------------------------------------------------------------------
\* The only driver of its process.
Alone(d) == \A e \in driving : HostOf[e] = HostOf[d] => e = d

\* Of a process that never claimed a run it was driving: the driver is alone,
\* within its term it still has its row, and a row in the name of the process
\* is the one that driver was given.
RowIsOwn ==
  \A d \in driving : HostOf[d] \notin doubled =>
    /\ Alone(d)
    /\ Live(lease[d]) => leaseRow = lease[d]
    /\ leaseRow # NoRow /\ leaseRow.owner = HostOf[d] => leaseRow = lease[d]

\* What a driver was given bears the name of its process.
OwnName == \A d \in driving : lease[d].owner = HostOf[d]

LEMMA RowIsOwnStep ==
  ASSUME LeaseTypeOK, RowIsOwn, OwnName, [LeaseNext]_leaseVars
  PROVE  RowIsOwn' /\ OwnName'
<1>1. ASSUME NEW d \in Drivers, Claim(d) PROVE RowIsOwn' /\ OwnName'
  <2>1. /\ leaseRow' # NoRow
        /\ leaseRow'.owner = HostOf[d]
        /\ lease' = [lease EXCEPT ![d] = leaseRow']
    BY <1>1, ClaimedLease
  <2>2. lease'[d] = leaseRow'
    BY <2>1 DEF LeaseTypeOK
  <2>3. ASSUME NEW e \in driving', e # d
        PROVE  e \in driving /\ e \in Drivers /\ lease'[e] = lease[e]
    BY <1>1, <2>1, <2>3 DEF Claim, LeaseTypeOK
  <2>4. ASSUME NEW e \in driving', HostOf[e] \notin doubled', e # d
        PROVE  HostOf[e] # HostOf[d] /\ HostOf[e] \notin doubled
    BY <1>1, <2>3, <2>4 DEF Claim, DrivenBy
  <2>5. ASSUME NEW e \in driving', HostOf[e] \notin doubled', e # d
        PROVE  ~Live(lease[e])'
    <3>1. SUFFICES ASSUME Live(lease[e]) PROVE FALSE
      BY <1>1, <2>3, <2>5 DEF Claim, Live
    <3>2. leaseRow = lease[e] /\ leaseRow.owner = HostOf[e]
      BY <2>3, <2>4, <2>5, <3>1 DEF RowIsOwn, OwnName
    <3> QED
      BY <1>1, <2>4, <2>5, <3>1, <3>2 DEF Claim, Held
  <2>6. ASSUME NEW e \in driving', HostOf[e] \notin doubled' PROVE Alone(e)'
    <3>1. CASE e = d
      <4>1. HostOf[d] \in Processes
        BY HostAssumption
      <4>2. DrivenBy(HostOf[d]) = {}
        BY <1>1, <2>6, <3>1, <4>1 DEF Claim, LeaseTypeOK
      <4> QED
        BY <1>1, <3>1, <4>2 DEF Claim, DrivenBy, Alone
    <3>2. CASE e # d
      BY <1>1, <2>3, <2>4, <2>6, <3>2 DEF Claim, RowIsOwn, Alone
    <3> QED
      BY <3>1, <3>2
  <2>7. RowIsOwn'
    BY <2>1, <2>2, <2>4, <2>5, <2>6 DEF RowIsOwn
  <2>8. OwnName'
    BY <2>1, <2>2, <2>3 DEF OwnName
  <2> QED
    BY <2>7, <2>8
<1>2. ASSUME NEW d \in Drivers, Release(d) PROVE RowIsOwn' /\ OwnName'
  <2>1. ASSUME NEW e \in driving', HostOf[e] \notin doubled'
        PROVE  /\ e \in driving /\ e \in Drivers /\ HostOf[e] \notin doubled
               /\ HostOf[e] # HostOf[d] /\ Alone(e)'
    BY <1>2, <2>1 DEF Release, LeaseTypeOK, RowIsOwn, Alone
  <2>2. CASE ~NamesRow(d)
    BY <1>2, <2>1, <2>2 DEF Release, RowIsOwn, OwnName, Live
  <2>3. CASE NamesRow(d)
    <3>1. ASSUME NEW e \in driving', HostOf[e] \notin doubled', Live(lease[e])'
          PROVE  FALSE
      <4>1. Live(lease[e])
        BY <1>2, <3>1 DEF Release, Live
      <4>2. leaseRow = lease[e] /\ leaseRow.owner = HostOf[e]
        BY <2>1, <3>1, <4>1 DEF RowIsOwn, OwnName
      <4> QED
        BY <2>1, <2>3, <3>1, <4>2 DEF NamesRow
    <3> QED
      BY <1>2, <2>1, <2>3, <3>1 DEF Release, RowIsOwn, OwnName
  <2> QED
    BY <2>2, <2>3
<1>3. ASSUME NEW d \in Drivers, ReleaseFails(d) PROVE RowIsOwn' /\ OwnName'
  BY <1>3 DEF ReleaseFails, RowIsOwn, OwnName, Live, Alone
<1>4. ASSUME NEW p \in Processes, Crash(p) PROVE RowIsOwn' /\ OwnName'
  BY <1>4 DEF Crash, RowIsOwn, OwnName, Live, Alone
<1>5. CASE Tick
  BY <1>5 DEF Tick, RowIsOwn, OwnName, Live, Alone, LeaseTypeOK, Leases
<1>6. CASE UNCHANGED leaseVars
  BY <1>6 DEF leaseVars, RowIsOwn, OwnName, Live, Alone
<1> QED
  BY <1>1, <1>2, <1>3, <1>4, <1>5, <1>6 DEF LeaseNext

LEMMA RowIsOwnHolds == LeaseSpec => [](RowIsOwn /\ OwnName)
<1>1. LeaseInit => RowIsOwn /\ OwnName
  BY DEF LeaseInit, RowIsOwn, OwnName
<1>2. LeaseTypeOK /\ (RowIsOwn /\ OwnName) /\ [LeaseNext]_leaseVars => (RowIsOwn /\ OwnName)'
  BY RowIsOwnStep
<1> QED
  BY <1>1, <1>2, LeaseTypeCorrect, PTL DEF LeaseSpec

\* Of two drivers of a run one is past its term, whatever other processes do
\* and however late they are, or one is of a process that claimed the run while
\* it was driving it (OneDriverWithinTerm).
THEOREM LeaseExcludes == LeaseSpec => []OneDriverWithinTerm
<1>1. LeaseTypeOK /\ RowIsOwn /\ OwnName => OneDriverWithinTerm
  BY DEF LeaseTypeOK, RowIsOwn, OwnName, OneDriverWithinTerm, Alone
<1> QED
  BY <1>1, LeaseTypeCorrect, RowIsOwnHolds, PTL

\* No straggler of another process releases a row, and one of the same process
\* does only where that process claimed a run it was driving
\* (ReleasedByHolder).
THEOREM StragglerKeepsOff == LeaseSpec => ReleasedByHolder
<1> DEFINE Given == \E d \in driving : /\ d \notin driving' /\ HostOf[d] = leaseRow.owner
                                       /\ lease[d] = leaseRow \/ HostOf[d] \in doubled
<1>1. LeaseTypeOK /\ RowIsOwn /\ [LeaseNext]_leaseVars
        => [leaseRow # NoRow /\ leaseRow' = NoRow => Given]_leaseVars
  <2> SUFFICES ASSUME LeaseTypeOK, RowIsOwn, [LeaseNext]_leaseVars,
                      leaseRow # NoRow, leaseRow' = NoRow
               PROVE  Given
    OBVIOUS
  <2>1. PICK d \in Drivers : Claim(d) \/ Release(d)
    BY DEF LeaseNext, leaseVars, ReleaseFails, Crash, Tick
  <2>2. Release(d)
    BY <2>1, ClaimedLease
  <2>3. NamesRow(d)
    BY <2>2 DEF Release
  <2> QED
    BY <2>2, <2>3 DEF Release, NamesRow, RowIsOwn
<1> QED
  BY <1>1, LeaseTypeCorrect, RowIsOwnHolds, PTL DEF LeaseSpec, ReleasedByHolder

\* While the row is there its token only rises, whoever claims (TokenRises).
THEOREM TokensRise == LeaseSpec => TokenRises
<1>1. LeaseTypeOK /\ [LeaseNext]_leaseVars
        => [leaseRow # NoRow /\ leaseRow' # NoRow /\ leaseRow' # leaseRow
              => leaseRow'.token > leaseRow.token]_leaseVars
  <2> SUFFICES ASSUME LeaseTypeOK, [LeaseNext]_leaseVars,
                      leaseRow # NoRow, leaseRow' # NoRow, leaseRow' # leaseRow
               PROVE  leaseRow'.token > leaseRow.token
    OBVIOUS
  <2>1. PICK d \in Drivers : Claim(d)
    BY DEF LeaseNext, leaseVars, Release, ReleaseFails, Crash, Tick
  <2> QED
    BY <2>1, ClaimedLease
<1> QED
  BY <1>1, LeaseTypeCorrect, PTL DEF LeaseSpec, TokenRises

(***************************************************************************)
(* The table of stops.                                                     *)
(***************************************************************************)

Active == {"checking", "staging", "looked", "listening", "asleep", "minted", "leaving"}

\* A turn bears none but its own ids, and none before it registers.
NamesAreOwn ==
  \A t \in Turns :
    /\ named[t] \subseteq AllIds(t)
    /\ pc[t] = "to come" => named[t] = {}

\* What the table reaches is a turn that is going on and bears the id.
LiveIsNamed ==
  \A id \in Ids : \A t \in Turns :
    live[id] = t => id \in named[t] /\ pc[t] # "to come" /\ ~Over(t)

\* A turn that may yet be stopped is reached by every id it bears.
NamedIsLive ==
  \A t \in Turns :
    pc[t] \in Active /\ ~flag[t] => \A id \in named[t] : live[id] = t

\* A stop remembered under an id was meant for every turn that may claim it.
RememberedIsAsked ==
  \A t \in Turns : \A id \in remembered :
    id \in AllIds(t) /\ ~Over(t) => t \in asked

StoppedIsAsked ==
  \A t \in Turns :
    flag[t] \/ t \in found \/ pc[t] = "stopped early" => t \in asked

CancelInvariant ==
  /\ NamesAreOwn /\ LiveIsNamed /\ NamedIsLive
  /\ RememberedIsAsked /\ StoppedIsAsked /\ StopIsNotLost

LEMMA IdsOfTurn ==
  ASSUME NEW t \in Turns
  PROVE  /\ FirstIds(t) \subseteq AllIds(t) /\ AllIds(t) \subseteq Ids
         /\ RunId[t] \in AllIds(t)
BY TurnsAssumption DEF FirstIds, AllIds

-----------------------------------------------------------------------------
(* Types.                                                                  *)

LEMMA CancelTypeStep == CancelTypeOK /\ [CancelNext]_cancelVars => CancelTypeOK'
<1> SUFFICES ASSUME CancelTypeOK, [CancelNext]_cancelVars PROVE CancelTypeOK'
  OBVIOUS
<1> USE DEF CancelTypeOK, Places, Goto, table, stops
<1>1. ASSUME NEW t \in Turns, Heeds(t) PROVE CancelTypeOK'
  <2>1. CASE Register(t)
    BY <2>1, IdsOfTurn DEF Register, Bind
  <2>2. CASE AlsoKnownAs(t)
    <3>1. named' \in [Turns -> SUBSET Ids]
      BY <2>2, TurnsAssumption DEF AlsoKnownAs
    <3>2. live' \in [Ids -> Turns \cup {NoTurn}] /\ remembered' \subseteq Ids
      <4>1. CASE RunId[t] \in remembered
        BY <2>2, <4>1 DEF AlsoKnownAs
      <4>2. CASE RunId[t] \notin remembered
        <5>1. Bind(t, {RunId[t]}) /\ remembered' = remembered
          BY <2>2, <4>2 DEF AlsoKnownAs
        <5>2. QED
          BY <5>1 DEF Bind
      <4>3. QED
        BY <4>1, <4>2
    <3>3. pc' \in [Turns -> Places]
      BY <2>2 DEF AlsoKnownAs
    <3>4. QED
      BY <2>2, <3>1, <3>2, <3>3 DEF AlsoKnownAs
  <2>3. CASE Leave(t)
    BY <2>3 DEF Leave
  <2>4. CASE HeedEarlyStop(t) \/ Check(t) \/ TakeInterest(t) \/ Sleep(t) \/ Wake(t)
    BY <2>4 DEF HeedEarlyStop, Check, TakeInterest, Sleep, Wake
  <2>5. QED
    BY <1>1, <2>1, <2>2, <2>3, <2>4 DEF Heeds
<1>2. ASSUME NEW t \in Turns, StageEnds(t) \/ Listen(t) \/ Mint(t) PROVE CancelTypeOK'
  BY <1>2 DEF StageEnds, Listen, Mint
<1>3. ASSUME NEW id \in Ids, Stop(id) PROVE CancelTypeOK'
  BY <1>3 DEF Stop, Meant
<1>4. ASSUME NEW t \in Turns, SetFlag(t) \/ Notify(t) PROVE CancelTypeOK'
  BY <1>4 DEF SetFlag, Notify
<1>5. CASE UNCHANGED cancelVars
  BY <1>5 DEF cancelVars
<1>6. QED
  BY <1>1, <1>2, <1>3, <1>4, <1>5 DEF CancelNext

\* The table, the tokens and every turn's progress are well formed: no blank id is
\* ever registered (RunCancellations::register()).
THEOREM CancelTypeCorrect == CancelSpec => []CancelTypeOK
<1>1. CancelInit => CancelTypeOK
  BY DEF CancelInit, CancelTypeOK, Places
<1>2. QED
  BY <1>1, CancelTypeStep, PTL DEF CancelSpec

-----------------------------------------------------------------------------
(* Stops.                                                                  *)

LEMMA CancelInvariantInit == CancelInit => CancelInvariant
BY TurnsAssumption
   DEF CancelInit, CancelInvariant, NamesAreOwn, LiveIsNamed, NamedIsLive,
      RememberedIsAsked,
       StoppedIsAsked, StopIsNotLost, Over, Active

\* A turn moves on within its life, and nothing else changes that matters.
LEMMA CancelInvariantMove ==
  ASSUME CancelTypeOK, CancelInvariant, NEW t \in Turns, NEW place \in Active,
         UNCHANGED <<live, remembered, flag, named, found, asked>>,
         pc' = [pc EXCEPT ![t] = place], pc[t] \in Active
  PROVE  CancelInvariant'
<1>1. /\ pc'[t] = place
      /\ \A s \in Turns : s # t => pc'[s] = pc[s]
  BY DEF CancelTypeOK
<1>2. \A s \in Turns : Over(s)' <=> Over(s)
  BY <1>1 DEF Over, Active
<1>3. \A s \in Turns : (pc'[s] \in Active <=> pc[s] \in Active)
  BY <1>1
<1>4. \A s \in Turns : (pc'[s] = "to come" <=> pc[s] = "to come")
  BY <1>1 DEF Active
<1>5. \A s \in Turns : (pc'[s] = "stopped early" <=> pc[s] = "stopped early")
  BY <1>1 DEF Active
<1>6. NamesAreOwn' /\ LiveIsNamed'
  BY <1>2, <1>4 DEF CancelInvariant, NamesAreOwn, LiveIsNamed, AllIds, FirstIds
<1>7. NamedIsLive'
  BY <1>3 DEF CancelInvariant, NamedIsLive
<1>8. RememberedIsAsked' /\ StoppedIsAsked'
  BY <1>2, <1>5 DEF CancelInvariant, RememberedIsAsked, StoppedIsAsked, AllIds, FirstIds
<1>9. StopIsNotLost'
  BY <1>2, <1>5 DEF CancelTypeOK, CancelInvariant, StopIsNotLost, AllIds, FirstIds
<1>10. QED
  BY <1>6, <1>7, <1>8, <1>9 DEF CancelInvariant

LEMMA CancelInvariantRegister ==
  ASSUME IdsAreDistinct, CancelTypeOK, CancelInvariant, NEW t \in Turns, Register(t)
  PROVE  CancelInvariant'
<1> DEFINE early == FirstIds(t) \cap remembered # {}
<1>1. /\ pc[t] = "to come" /\ pc'[t] = IF early THEN "stopped early" ELSE "checking"
      /\ \A s \in Turns : s # t => pc'[s] = pc[s]
  BY DEF CancelTypeOK, Register, Goto
<1>2. /\ named'[t] = FirstIds(t)
      /\ \A s \in Turns : s # t => named'[s] = named[s]
  BY DEF CancelTypeOK, Register
<1>3. /\ \A id \in FirstIds(t) : live'[id] = t
      /\ \A id \in Ids : id \notin FirstIds(t) => live'[id] = live[id]
      /\ remembered' = remembered \ FirstIds(t)
      /\ UNCHANGED <<flag, found, asked>>
  BY IdsOfTurn DEF CancelTypeOK, Register, Bind, stops
<1>4. \A s \in Turns : s # t => AllIds(s) \cap FirstIds(t) = {}
  BY IdsOfTurn DEF IdsAreDistinct
<1>5. NamesAreOwn'
  BY <1>1, <1>2, IdsOfTurn DEF CancelInvariant, NamesAreOwn
<1>6. LiveIsNamed'
  BY <1>1, <1>2, <1>3 DEF CancelInvariant, LiveIsNamed, Over
<1>7. NamedIsLive'
  <2>1. ASSUME NEW s \in Turns, pc'[s] \in Active, ~flag'[s], NEW id \in named'[s]
        PROVE  live'[id] = s
    <3>1. CASE s = t
      BY <3>1, <2>1, <1>2, <1>3
    <3>2. CASE s # t
      <4>1. id \in named[s] /\ id \in AllIds(s) /\ id \in Ids
        BY <3>2, <2>1, <1>2, IdsOfTurn DEF CancelInvariant, NamesAreOwn
      <4>2. live[id] = s
        BY <3>2, <4>1, <2>1, <1>1, <1>3 DEF CancelInvariant, NamedIsLive
      <4>3. QED
        BY <3>2, <4>1, <4>2, <1>3, <1>4
    <3>3. QED
      BY <3>1, <3>2
  <2>2. QED
    BY <2>1 DEF NamedIsLive
<1>8. RememberedIsAsked'
  BY <1>1, <1>3 DEF CancelInvariant, RememberedIsAsked, Over
<1>9. StoppedIsAsked'
  <2>1. early => t \in asked
    BY <1>1, IdsOfTurn DEF CancelInvariant, RememberedIsAsked, Over
  <2>2. QED
    BY <2>1, <1>1, <1>3 DEF CancelInvariant, StoppedIsAsked
<1>10. StopIsNotLost'
  <2>1. ASSUME NEW s \in asked', s \in Turns
        PROVE  \/ Over(s)' \/ flag'[s] \/ s \in found' \/ pc'[s] = "stopped early"
               \/ remembered' \cap (AllIds(s) \ named'[s]) # {}
    <3>1. CASE s # t
      <4>1. remembered \cap (AllIds(s) \ named[s]) # {}
              => remembered' \cap (AllIds(s) \ named'[s]) # {}
        BY <3>1, <2>1, <1>2, <1>3, <1>4
      <4>2. QED
        BY <3>1, <2>1, <4>1, <1>1, <1>3 DEF CancelInvariant, StopIsNotLost, Over
    <3>2. CASE s = t
      <4>1. named[t] = {}
        BY <1>1 DEF CancelInvariant, NamesAreOwn
      <4>2. CASE remembered \cap AllIds(t) # {}
        BY <3>2, <4>2, <1>1, <1>2, <1>3
      <4>3. CASE flag[t] \/ t \in found
        BY <3>2, <4>3, <1>3
      <4>4. QED
        BY <3>2, <2>1, <4>1, <4>2, <4>3, <1>1, <1>3
           DEF CancelInvariant, StopIsNotLost, Over
    <3>3. QED
      BY <3>1, <3>2
  <2>2. asked' \subseteq Turns
    BY <1>3 DEF CancelTypeOK
  <2>3. QED
    BY <2>1, <2>2 DEF StopIsNotLost, AllIds, FirstIds
<1>11. QED
  BY <1>5, <1>6, <1>7, <1>8, <1>9, <1>10 DEF CancelInvariant

LEMMA CancelInvariantEarlyStop ==
  ASSUME CancelTypeOK, CancelInvariant, NEW t \in Turns, HeedEarlyStop(t)
  PROVE  CancelInvariant'
<1>1. /\ pc[t] = "stopped early" /\ pc'[t] = "checking"
      /\ \A s \in Turns : s # t => pc'[s] = pc[s]
  BY DEF CancelTypeOK, HeedEarlyStop, Goto
<1>2. /\ flag'[t] = TRUE
      /\ \A s \in Turns : s # t => flag'[s] = flag[s]
      /\ UNCHANGED <<live, remembered, named, found, asked>>
  BY DEF CancelTypeOK, HeedEarlyStop, table, stops
<1>3. \A s \in Turns : Over(s)' <=> Over(s)
  BY <1>1 DEF Over
<1>4. NamesAreOwn' /\ LiveIsNamed'
  BY <1>1, <1>2, <1>3 DEF CancelInvariant, NamesAreOwn, LiveIsNamed, AllIds, FirstIds
<1>5. NamedIsLive'
  BY <1>1, <1>2 DEF CancelInvariant, NamedIsLive
<1>6. RememberedIsAsked' /\ StoppedIsAsked'
  BY <1>1, <1>2, <1>3
     DEF CancelInvariant, RememberedIsAsked, StoppedIsAsked, AllIds, FirstIds
<1>7. StopIsNotLost'
  BY <1>1, <1>2, <1>3 DEF CancelTypeOK, CancelInvariant, StopIsNotLost, AllIds, FirstIds
<1>8. QED
  BY <1>4, <1>5, <1>6, <1>7 DEF CancelInvariant

LEMMA CancelInvariantAlsoKnownAs ==
  ASSUME IdsAreDistinct, CancelTypeOK, CancelInvariant, NEW t \in Turns, AlsoKnownAs(t)
  PROVE  CancelInvariant'
<1> DEFINE early == RunId[t] \in remembered
<1>1. /\ pc[t] = "minted" /\ pc'[t] = IF early THEN "stopped early" ELSE "checking"
      /\ \A s \in Turns : s # t => pc'[s] = pc[s]
  BY DEF CancelTypeOK, AlsoKnownAs, Goto
<1>2. /\ named'[t] = named[t] \cup {RunId[t]}
      /\ \A s \in Turns : s # t => named'[s] = named[s]
  BY DEF CancelTypeOK, AlsoKnownAs
<1>3. /\ ~early => live'[RunId[t]] = t
      /\ early => live' = live
      /\ \A id \in Ids : id # RunId[t] => live'[id] = live[id]
      /\ remembered' = remembered \ {RunId[t]}
      /\ UNCHANGED <<flag, found, asked>>
  BY IdsOfTurn DEF CancelTypeOK, AlsoKnownAs, Bind, stops
<1>4. \A s \in Turns : s # t => RunId[t] \notin AllIds(s)
  BY IdsOfTurn DEF IdsAreDistinct
<1>5. NamesAreOwn'
  BY <1>1, <1>2, IdsOfTurn DEF CancelInvariant, NamesAreOwn
<1>6. LiveIsNamed'
  <2>1. ASSUME NEW id \in Ids, NEW s \in Turns, live'[id] = s
        PROVE  id \in named'[s] /\ pc'[s] # "to come" /\ pc'[s] # "over"
    <3>1. CASE live[id] = s
      BY <3>1, <1>1, <1>2 DEF CancelInvariant, LiveIsNamed, Over
    <3>2. CASE live[id] # s
      <4>1. id = RunId[t] /\ s = t
        BY <3>2, <2>1, <1>3
      <4>2. QED
        BY <4>1, <1>1, <1>2
    <3>3. QED
      BY <3>1, <3>2
  <2>2. QED
    BY <2>1 DEF LiveIsNamed, Over
<1>7. NamedIsLive'
  <2>1. ASSUME NEW s \in Turns, pc'[s] \in Active, ~flag'[s], NEW id \in named'[s]
        PROVE  live'[id] = s
    <3>1. CASE s = t
      <4>1. ~early
        BY <3>1, <2>1, <1>1 DEF Active
      <4>2. id \in Ids
        BY <3>1, <2>1, <1>2, IdsOfTurn DEF CancelInvariant, NamesAreOwn
      <4>3. id # RunId[t] => live[id] = t
        BY <3>1, <2>1, <1>1, <1>2, <1>3 DEF CancelInvariant, NamedIsLive, Active
      <4>4. QED
        BY <3>1, <4>1, <4>2, <4>3, <1>3
    <3>2. CASE s # t
      <4>1. id \in named[s] /\ id \in AllIds(s) /\ id \in Ids
        BY <3>2, <2>1, <1>2, IdsOfTurn DEF CancelInvariant, NamesAreOwn
      <4>2. live[id] = s
        BY <3>2, <4>1, <2>1, <1>1, <1>3 DEF CancelInvariant, NamedIsLive
      <4>3. QED
        BY <3>2, <4>1, <4>2, <1>3, <1>4
    <3>3. QED
      BY <3>1, <3>2
  <2>2. QED
    BY <2>1 DEF NamedIsLive
<1>8. RememberedIsAsked'
  BY <1>1, <1>3 DEF CancelInvariant, RememberedIsAsked, Over
<1>9. StoppedIsAsked'
  <2>1. early => t \in asked
    BY <1>1, IdsOfTurn DEF CancelInvariant, RememberedIsAsked, Over
  <2>2. QED
    BY <2>1, <1>1, <1>3 DEF CancelInvariant, StoppedIsAsked
<1>10. StopIsNotLost'
  <2>1. ASSUME NEW s \in Turns, s \in asked'
        PROVE  \/ Over(s)' \/ flag'[s] \/ s \in found' \/ pc'[s] = "stopped early"
               \/ remembered' \cap (AllIds(s) \ named'[s]) # {}
    <3>1. CASE s # t
      <4>1. remembered \cap (AllIds(s) \ named[s]) # {}
              => remembered' \cap (AllIds(s) \ named'[s]) # {}
        BY <3>1, <1>2, <1>3, <1>4
      <4>2. QED
        BY <3>1, <2>1, <4>1, <1>1, <1>3 DEF CancelInvariant, StopIsNotLost, Over
    <3>2. CASE s = t /\ early
      BY <3>2, <1>1
    <3>3. CASE s = t /\ ~early
      <4>1. remembered \cap (AllIds(t) \ named[t]) # {}
              => remembered' \cap (AllIds(t) \ named'[t]) # {}
        BY <3>3, <1>2, <1>3
      <4>2. QED
        BY <3>3, <2>1, <4>1, <1>1, <1>3 DEF CancelInvariant, StopIsNotLost, Over
    <3>4. QED
      BY <3>1, <3>2, <3>3
  <2>2. asked' \subseteq Turns
    BY <1>3 DEF CancelTypeOK
  <2>3. QED
    BY <2>1, <2>2 DEF StopIsNotLost, AllIds, FirstIds
<1>11. QED
  BY <1>5, <1>6, <1>7, <1>8, <1>9, <1>10 DEF CancelInvariant

LEMMA CancelInvariantLeave ==
  ASSUME IdsAreDistinct, CancelTypeOK, CancelInvariant, NEW t \in Turns, Leave(t)
  PROVE  CancelInvariant'
<1>1. /\ pc[t] = "leaving" /\ pc'[t] = "over"
      /\ \A s \in Turns : s # t => pc'[s] = pc[s]
  BY DEF CancelTypeOK, Leave, Goto
<1>2. /\ \A id \in Ids : live'[id] = IF id \in named[t] THEN NoTurn ELSE live[id]
      /\ remembered' = remembered \ named[t]
      /\ UNCHANGED <<flag, named, found, asked>>
  BY DEF CancelTypeOK, Leave, stops
<1>3. \A s \in Turns : s # t => AllIds(s) \cap named[t] = {}
  BY DEF IdsAreDistinct, CancelInvariant, NamesAreOwn
<1>4. NamesAreOwn'
  BY <1>1, <1>2 DEF CancelInvariant, NamesAreOwn, AllIds, FirstIds
<1>5. LiveIsNamed'
  <2>1. ASSUME NEW id \in Ids, NEW s \in Turns, live'[id] = s
        PROVE  id \in named'[s] /\ pc'[s] # "to come" /\ pc'[s] # "over"
    <3>1. id \notin named[t] /\ live[id] = s
      BY <2>1, <1>2, TurnsAssumption
    <3>2. id \in named[s] /\ pc[s] # "to come" /\ pc[s] # "over"
      BY <3>1 DEF CancelInvariant, LiveIsNamed, Over
    <3>3. QED
      BY <3>1, <3>2, <1>1, <1>2
  <2>2. QED
    BY <2>1 DEF LiveIsNamed, Over
<1>6. NamedIsLive'
  <2>1. ASSUME NEW s \in Turns, pc'[s] \in Active, ~flag'[s], NEW id \in named'[s]
        PROVE  live'[id] = s
    <3>1. s # t
      BY <2>1, <1>1 DEF Active
    <3>2. id \in named[s] /\ id \in AllIds(s) /\ id \in Ids
      BY <2>1, <1>2, IdsOfTurn DEF CancelInvariant, NamesAreOwn
    <3>3. live[id] = s
      BY <3>1, <3>2, <2>1, <1>1, <1>2 DEF CancelInvariant, NamedIsLive
    <3>4. QED
      BY <3>1, <3>2, <3>3, <1>2, <1>3
  <2>2. QED
    BY <2>1 DEF NamedIsLive
<1>7. RememberedIsAsked' /\ StoppedIsAsked'
  BY <1>1, <1>2
     DEF CancelInvariant, RememberedIsAsked, StoppedIsAsked, Over, AllIds, FirstIds
<1>8. StopIsNotLost'
  <2>1. ASSUME NEW s \in Turns, s \in asked'
        PROVE  \/ Over(s)' \/ flag'[s] \/ s \in found' \/ pc'[s] = "stopped early"
               \/ remembered' \cap (AllIds(s) \ named'[s]) # {}
    <3>1. CASE s = t
      BY <3>1, <1>1 DEF Over
    <3>2. CASE s # t
      <4>1. remembered \cap (AllIds(s) \ named[s]) # {}
              => remembered' \cap (AllIds(s) \ named'[s]) # {}
        BY <3>2, <1>2, <1>3
      <4>2. QED
        BY <3>2, <2>1, <4>1, <1>1, <1>2 DEF CancelInvariant, StopIsNotLost, Over
    <3>3. QED
      BY <3>1, <3>2
  <2>2. asked' \subseteq Turns
    BY <1>2 DEF CancelTypeOK
  <2>3. QED
    BY <2>1, <2>2 DEF StopIsNotLost, AllIds, FirstIds
<1>9. QED
  BY <1>4, <1>5, <1>6, <1>7, <1>8 DEF CancelInvariant

LEMMA CancelInvariantStop ==
  ASSUME IdsAreDistinct, CancelTypeOK, CancelInvariant, NEW id \in Ids, Stop(id)
  PROVE  CancelInvariant'
<1>1. /\ UNCHANGED <<live, flag, named, pc>>
      /\ remembered \subseteq remembered' /\ remembered' \subseteq remembered \cup {id}
      /\ found \subseteq found' /\ asked \subseteq asked'
      /\ asked' \subseteq asked \cup Meant(id)
  BY DEF Stop
<1>2. NamesAreOwn' /\ LiveIsNamed' /\ NamedIsLive'
  BY <1>1 DEF CancelInvariant, NamesAreOwn, LiveIsNamed, NamedIsLive, AllIds,
     FirstIds, Over
<1>3. RememberedIsAsked'
  <2>1. id \in remembered' /\ id \notin remembered => Meant(id) \subseteq asked'
    BY DEF Stop
  <2>2. QED
    BY <2>1, <1>1 DEF CancelInvariant, RememberedIsAsked, Meant, AllIds, FirstIds, Over
<1>4. StoppedIsAsked'
  <2>1. ASSUME NEW t \in found', t \notin found, t \in Turns
        PROVE  t \in asked'
    <3>1. live[id] = t /\ Meant(id) \subseteq asked'
      BY <2>1 DEF Stop
    <3>2. id \in AllIds(t) /\ ~Over(t)
      BY <3>1, <2>1 DEF CancelInvariant, LiveIsNamed, NamesAreOwn
    <3>3. QED
      BY <3>1, <3>2, <2>1 DEF Meant
  <2>2. QED
    BY <2>1, <1>1 DEF CancelInvariant, StoppedIsAsked
<1>5. StopIsNotLost'
  <2>1. ASSUME NEW t \in Turns, t \in asked', t \notin asked
        PROVE  \/ Over(t) \/ flag[t] \/ t \in found' \/ pc[t] = "stopped early"
               \/ remembered' \cap (AllIds(t) \ named[t]) # {}
    <3>1. id \in AllIds(t) /\ ~Over(t)
      BY <2>1, <1>1 DEF Meant
    <3>2. CASE live[id] # NoTurn
      <4>1. live[id] \in Turns /\ live[id] \in found'
        <5>1. live[id] \in Turns
          BY <3>2 DEF CancelTypeOK
        <5>2. live[id] \in found'
          BY <3>2 DEF Stop
        <5>3. QED
          BY <5>1, <5>2
      <4>2. id \in AllIds(live[id])
        BY <4>1 DEF CancelInvariant, LiveIsNamed, NamesAreOwn
      <4>3. live[id] = t
        BY <4>1, <4>2, <3>1 DEF IdsAreDistinct
      <4>4. QED
        BY <4>1, <4>3
    <3>3. CASE live[id] = NoTurn
      <4>1. id \in remembered'
        BY <3>3, <2>1 DEF Stop
      <4>2. CASE id \notin named[t]
        BY <4>1, <4>2, <3>1
      <4>3. CASE id \in named[t]
        <5>1. live[id] # t
          BY <3>3, TurnsAssumption
        <5>2. pc[t] \notin Active \/ flag[t]
          BY <5>1, <4>3 DEF CancelInvariant, NamedIsLive
        <5>3. pc[t] # "to come"
          BY <4>3 DEF CancelInvariant, NamesAreOwn
        <5>4. pc[t] \in Active \cup {"stopped early"} \/ flag[t]
          BY <5>3, <3>1 DEF CancelTypeOK, Places, Over, Active
        <5>5. QED
          BY <5>2, <5>4
      <4>4. QED
        BY <4>2, <4>3
    <3>4. QED
      BY <3>2, <3>3
  <2>2. ASSUME NEW t \in asked
        PROVE  \/ Over(t) \/ flag[t] \/ t \in found' \/ pc[t] = "stopped early"
               \/ remembered' \cap (AllIds(t) \ named[t]) # {}
    BY <2>2, <1>1 DEF CancelInvariant, StopIsNotLost
  <2>3. asked' \subseteq Turns
    BY <1>1 DEF CancelTypeOK, Meant
  <2>4. QED
    BY <2>1, <2>2, <2>3, <1>1 DEF StopIsNotLost, Over, AllIds, FirstIds
<1>6. QED
  BY <1>2, <1>3, <1>4, <1>5 DEF CancelInvariant

LEMMA CancelInvariantSetFlag ==
  ASSUME CancelTypeOK, CancelInvariant, NEW t \in Turns, SetFlag(t)
  PROVE  CancelInvariant'
<1>1. /\ t \in found /\ found' = found \ {t}
      /\ flag'[t] = TRUE
      /\ \A s \in Turns : s # t => flag'[s] = flag[s]
      /\ UNCHANGED <<live, remembered, named, pc, asked>>
  BY DEF CancelTypeOK, SetFlag, table
<1>2. NamesAreOwn' /\ LiveIsNamed' /\ RememberedIsAsked'
  BY <1>1 DEF CancelInvariant, NamesAreOwn, LiveIsNamed, RememberedIsAsked, AllIds,
     FirstIds, Over
<1>3. NamedIsLive'
  BY <1>1 DEF CancelInvariant, NamedIsLive
<1>4. StoppedIsAsked'
  BY <1>1 DEF CancelInvariant, StoppedIsAsked
<1>5. StopIsNotLost'
  BY <1>1 DEF CancelTypeOK, CancelInvariant, StopIsNotLost, AllIds, FirstIds, Over
<1>6. QED
  BY <1>2, <1>3, <1>4, <1>5 DEF CancelInvariant

LEMMA CancelInvariantStep ==
  ASSUME IdsAreDistinct
  PROVE  CancelTypeOK /\ CancelInvariant /\ [CancelNext]_cancelVars => CancelInvariant'
<1> SUFFICES ASSUME CancelTypeOK, CancelInvariant, [CancelNext]_cancelVars
             PROVE CancelInvariant'
  OBVIOUS
<1> USE DEF Goto, table, stops
<1>1. ASSUME NEW t \in Turns,
             Check(t) \/ TakeInterest(t) \/ Sleep(t) \/ Wake(t)
      PROVE  CancelInvariant'
  <2>1. PICK place \in Active : pc' = [pc EXCEPT ![t] = place]
    BY <1>1 DEF Check, TakeInterest, Sleep, Wake, Active
  <2>2. pc[t] \in Active /\ UNCHANGED <<live, remembered, flag, named, found, asked>>
    BY <1>1 DEF Check, TakeInterest, Sleep, Wake, Active
  <2>3. QED
    BY <2>1, <2>2, CancelInvariantMove
<1>2. ASSUME NEW t \in Turns, StageEnds(t) \/ Listen(t) \/ Mint(t)
      PROVE  CancelInvariant'
  <2>1. PICK place \in Active : pc' = [pc EXCEPT ![t] = place]
    BY <1>2 DEF StageEnds, Listen, Mint, Active
  <2>2. pc[t] \in Active /\ UNCHANGED <<live, remembered, flag, named, found, asked>>
    BY <1>2 DEF StageEnds, Listen, Mint, Active
  <2>3. QED
    BY <2>1, <2>2, CancelInvariantMove
<1>3. ASSUME UNCHANGED <<live, remembered, flag, named, pc, found, asked>>
      PROVE  CancelInvariant'
  BY <1>3 DEF CancelInvariant, NamesAreOwn, LiveIsNamed, NamedIsLive, RememberedIsAsked,
     StoppedIsAsked, StopIsNotLost, Over, AllIds, FirstIds
<1>4. ASSUME NEW t \in Turns, Notify(t) PROVE CancelInvariant'
  BY <1>3, <1>4 DEF Notify
<1>5. CASE UNCHANGED cancelVars
  BY <1>3, <1>5 DEF cancelVars
<1>6. QED
  BY <1>1, <1>2, <1>4, <1>5, CancelInvariantRegister, CancelInvariantEarlyStop,
     CancelInvariantAlsoKnownAs, CancelInvariantLeave, CancelInvariantStop,
     CancelInvariantSetFlag
     DEF CancelNext, Heeds

LEMMA CancelInvariantHolds ==
  ASSUME IdsAreDistinct
  PROVE  CancelSpec => []CancelInvariant
BY CancelInvariantInit, CancelInvariantStep, CancelTypeCorrect, PTL DEF CancelSpec

\* Where no two turns bear one id, no stop the table took is lost: a turn cannot
\* start, or learn its run id, by outrunning it.
THEOREM NoStopIsLost ==
  ASSUME IdsAreDistinct
  PROVE  CancelSpec => []StopIsNotLost
<1>1. CancelInvariant => StopIsNotLost
  BY DEF CancelInvariant
<1>2. QED
  BY <1>1, CancelInvariantHolds, PTL

\* Under the same condition a turn's token is set only if somebody stopped it.
THEOREM OnlyAskedTurnsStop ==
  ASSUME IdsAreDistinct
  PROVE  CancelSpec => []OnlyTheAskedStop
<1>1. CancelInvariant => OnlyTheAskedStop
  BY DEF CancelInvariant, StoppedIsAsked, OnlyTheAskedStop
<1>2. QED
  BY <1>1, CancelInvariantHolds, PTL

\* Under the same condition a turn that ended is out of the table.
THEOREM EndedTurnsAreForgotten ==
  ASSUME IdsAreDistinct
  PROVE  CancelSpec => []OverIsForgotten
<1>1. CancelInvariant => OverIsForgotten
  BY DEF CancelInvariant, LiveIsNamed, OverIsForgotten
<1>2. QED
  BY <1>1, CancelInvariantHolds, PTL

\* Under the same condition a turn that is going on is reached by every id it was
\* registered under.
THEOREM EveryIdReaches ==
  ASSUME IdsAreDistinct
  PROVE  CancelSpec => []EitherIdReaches
<1>1. CancelInvariant => EitherIdReaches
  BY DEF CancelInvariant, NamedIsLive, EitherIdReaches, Active
<1>2. QED
  BY <1>1, CancelInvariantHolds, PTL

(***************************************************************************)
(* The approvals.                                                          *)
(***************************************************************************)

\* What the queue holds decided it was given as an answer, and what a person has
\* in hand is what the queue holds.
QueueIsAnswered ==
  /\ \A c \in Calls : queue[c] \in Decision => queue[c] \in answers[c]
  /\ \A p \in People : hand[p] # Idle => queue[hand[p].call] = hand[p].decision

\* A question is on neither record before its call asks it.
NotYetAsked ==
  \A c \in Calls :
    /\ wait[c] \in {"idle", "asking"} => row[c] = Nothing
    /\ wait[c] = "recorded" => row[c] \notin Decision
    /\ wait[c] \in {"idle", "asking", "recorded"} => queue[c] = Nothing
    /\ wait[c] \in Looks => queue[c] # Nothing

\* Once the table has a decision, the queue has it too, or has forgotten the question.
TableFollowsQueue ==
  \A c \in Calls :
    row[c] \in Decision =>
      /\ row[c] \in answers[c]
      /\ queue[c] \in {Nothing, row[c]}

\* Every "always" is a yes the queue still holds.
AlwaysIsYes == \A c \in always : queue[c] \in Decision /\ queue[c].yes

ApprovalInvariant ==
  /\ QueueIsAnswered /\ NotYetAsked /\ TableFollowsQueue /\ AlwaysIsYes
  /\ ActsOnAnswer /\ StandingIsGiven

-----------------------------------------------------------------------------
(* Types.                                                                  *)

LEMMA ApprovalTypeInit == ApprovalInit => ApprovalTypeOK
BY CallsAssumption DEF ApprovalInit, ApprovalTypeOK, Question

LEMMA ApprovalTypeRun ==
  ASSUME ApprovalTypeOK, NEW r \in Runs,
         Drive(r) \/ EndRun(r) \/ RecordStop(r) \/ CancelRun(r)
  PROVE  ApprovalTypeOK'
BY DEF ApprovalTypeOK, Drive, EndRun, RecordStop, CancelRun, disk, run

LEMMA ApprovalTypeWait ==
  ASSUME ApprovalTypeOK, NEW c \in Calls,
         Ask(c) \/ Record(c) \/ Request(c) \/ Poll(c) \/ Expire(c)
  PROVE  ApprovalTypeOK'
<1>1. CASE Ask(c)
  BY <1>1 DEF ApprovalTypeOK, Ask, disk, run, Outcomes
<1>2. CASE Record(c)
  BY <1>2 DEF ApprovalTypeOK, Record, disk, run, Question
<1>3. CASE Request(c)
  BY <1>3 DEF ApprovalTypeOK, Request, disk, run, Question, Looks
<1>4. CASE LookAtStop(c)
  BY <1>4 DEF ApprovalTypeOK, LookAtStop, disk, run, Outcomes, Looks
<1>5. CASE LookAtAnswer(c)
  BY <1>5 DEF ApprovalTypeOK, LookAtAnswer, Outcome, disk, run, Outcomes, Looks
<1>6. CASE LookAtClock(c)
  BY <1>6 DEF ApprovalTypeOK, LookAtClock, disk, run, Outcomes, Looks
<1>7. CASE Expire(c)
  BY <1>7 DEF ApprovalTypeOK, Expire, disk, run
<1>8. QED
  BY <1>1, <1>2, <1>3, <1>4, <1>5, <1>6, <1>7 DEF Poll

LEMMA ApprovalTypePeople ==
  ASSUME ApprovalTypeOK, NEW p \in People,
         \/ \E c \in Calls, yes, forever \in BOOLEAN : Decide(p, c, yes, forever)
         \/ GrantStanding(p) \/ Resolve(p)
  PROVE  ApprovalTypeOK'
<1>1. ASSUME NEW c \in Calls, NEW yes \in BOOLEAN, NEW forever \in BOOLEAN,
             Decide(p, c, yes, forever)
      PROVE  ApprovalTypeOK'
  <2> DEFINE d == [yes |-> yes, by |-> p]
  <2>1. d \in Decision
    BY DEF Decision
  <2>2. [call |-> c, decision |-> d, always |-> forever, next |-> "standing"]
          \in Deciding
    BY <2>1 DEF Deciding
  <2>3. hand' \in [People -> {Idle} \cup Deciding]
    BY <1>1, <2>2 DEF ApprovalTypeOK, Decide
  <2>4. queue' \in [Calls -> Question] /\ answers' \in [Calls -> SUBSET Decision]
    BY <1>1, <2>1 DEF ApprovalTypeOK, Decide, Question
  <2>5. QED
    BY <1>1, <2>3, <2>4 DEF ApprovalTypeOK, Decide, disk, run
<1>2. CASE GrantStanding(p)
  <2>1. hand[p] \in Deciding
    BY <1>2 DEF ApprovalTypeOK, GrantStanding
  <2>2. [hand[p] EXCEPT !.next = "row"] \in Deciding
    BY <2>1 DEF Deciding
  <2>3. hand' \in [People -> {Idle} \cup Deciding]
    BY <1>2, <2>2 DEF ApprovalTypeOK, GrantStanding
  <2>4. hand[p].call \in Calls /\ RunOf[hand[p].call] \in Runs /\ Tool[hand[p].call] \in Tools
    BY <2>1, CallsAssumption DEF Deciding
  <2>5. Scope(RunOf[hand[p].call]) \subseteq Threads
    BY <2>4, CallsAssumption DEF Scope
  <2>6. standing' \subseteq Threads \X Tools
    BY <1>2, <2>4, <2>5 DEF ApprovalTypeOK, GrantStanding
  <2>7. always' \subseteq Calls
    BY <1>2, <2>4 DEF ApprovalTypeOK, GrantStanding
  <2>8. QED
    BY <1>2, <2>3, <2>6, <2>7 DEF ApprovalTypeOK, GrantStanding, disk, run
<1>3. CASE Resolve(p)
  <2>1. hand[p] \in Deciding
    BY <1>3 DEF ApprovalTypeOK, Resolve
  <2>2. hand[p].decision \in Decision /\ hand[p].call \in Calls
    BY <2>1 DEF Deciding
  <2>3. row' \in [Calls -> Question]
    BY <1>3, <2>2 DEF ApprovalTypeOK, Resolve, Question
  <2>4. QED
    BY <1>3, <2>3 DEF ApprovalTypeOK, Resolve, run
<1>4. QED
  BY <1>1, <1>2, <1>3

LEMMA ApprovalTypeRestart ==
  ASSUME ApprovalTypeOK, Restart
  PROVE  ApprovalTypeOK'
<1>1. deaths' \in 0 .. MaxDeaths
  BY CallsAssumption DEF ApprovalTypeOK, Restart
<1>2. wait' \in [Calls -> {"idle", "asking", "recorded",
   "dead"} \cup Looks \cup Outcomes]
  BY DEF Restart, Outcomes
<1>3. QED
  BY <1>1, <1>2 DEF ApprovalTypeOK, Restart, disk, Question

LEMMA ApprovalTypeStep == ApprovalTypeOK /\ [ApprovalNext]_approvalVars => ApprovalTypeOK'
<1> SUFFICES ASSUME ApprovalTypeOK, [ApprovalNext]_approvalVars PROVE ApprovalTypeOK'
  OBVIOUS
<1>1. CASE UNCHANGED approvalVars
  BY <1>1 DEF ApprovalTypeOK, approvalVars, disk, run
<1>2. CASE ApprovalNext
  BY <1>2, ApprovalTypeRun, ApprovalTypeWait, ApprovalTypePeople,
     ApprovalTypeRestart DEF ApprovalNext
<1>3. QED
  BY <1>1, <1>2

\* The queue, the table, the waits and the hands of the people deciding are well
\* formed: no standing approval is held for a run outside any conversation
\* (grant_standing() ignores a blank id).
THEOREM ApprovalTypeCorrect == ApprovalSpec => []ApprovalTypeOK
BY ApprovalTypeInit, ApprovalTypeStep, PTL DEF ApprovalSpec

-----------------------------------------------------------------------------
(* The two records and the wait.                                           *)

LEMMA ApprovalInvariantInit == ApprovalInit => ApprovalInvariant
BY NothingAssumption
   DEF ApprovalInit, ApprovalInvariant, QueueIsAnswered, NotYetAsked, TableFollowsQueue,
       AlwaysIsYes, ActsOnAnswer, StandingIsGiven, Looks

LEMMA ApprovalInvariantRun ==
  ASSUME ApprovalInvariant, NEW r \in Runs,
         Drive(r) \/ EndRun(r) \/ RecordStop(r) \/ CancelRun(r)
  PROVE  ApprovalInvariant'
BY DEF ApprovalInvariant, QueueIsAnswered, NotYetAsked, TableFollowsQueue, AlwaysIsYes,
       ActsOnAnswer, StandingIsGiven, Drive, EndRun, RecordStop, CancelRun, disk, run

\* A call's authorisation moves on, and neither record does.
LEMMA ApprovalInvariantMove ==
  ASSUME ApprovalTypeOK, ApprovalInvariant, NEW c \in Calls, NEW w,
         UNCHANGED <<row, queue, standing, hand, answers, always>>,
         wait' = [wait EXCEPT ![c] = w],
         w \in {"idle", "asking"} => row[c] = Nothing,
         w # "recorded",
         w \in {"idle", "asking", "recorded"} => queue[c] = Nothing,
         w \in Looks => queue[c] # Nothing,
         w = "approved" => \E a \in answers[c] : a.yes,
         w = "rejected" => \E a \in answers[c] : ~a.yes
  PROVE  ApprovalInvariant'
<1>1. /\ wait'[c] = w
      /\ \A d \in Calls : d # c => wait'[d] = wait[d]
  BY DEF ApprovalTypeOK
<1>2. NotYetAsked'
  BY <1>1 DEF ApprovalInvariant, NotYetAsked
<1>3. ASSUME NEW d \in Calls
      PROVE  /\ wait'[d] = "approved" => \E a \in answers[d] : a.yes
             /\ wait'[d] = "rejected" => \E a \in answers[d] : ~a.yes
  <2>1. CASE d = c
    BY <2>1, <1>1
  <2>2. CASE d # c
    BY <2>2, <1>1 DEF ApprovalInvariant, ActsOnAnswer
  <2>3. QED
    BY <2>1, <2>2
<1>4. ActsOnAnswer'
  BY <1>3 DEF ActsOnAnswer
<1>5. QueueIsAnswered' /\ TableFollowsQueue' /\ AlwaysIsYes' /\ StandingIsGiven'
  BY DEF ApprovalInvariant, QueueIsAnswered, TableFollowsQueue, AlwaysIsYes,
     StandingIsGiven
<1>6. QED
  BY <1>2, <1>4, <1>5 DEF ApprovalInvariant

LEMMA ApprovalInvariantRecord ==
  ASSUME ApprovalTypeOK, ApprovalInvariant, NEW c \in Calls, Record(c)
  PROVE  ApprovalInvariant'
<1> USE NothingAssumption
<1>1. row[c] = Nothing /\ queue[c] = Nothing
  BY DEF ApprovalInvariant, NotYetAsked, Record
<1>2. \A d \in Calls : row'[d] # row[d] => d = c /\ row'[d] = Pending
  BY DEF ApprovalTypeOK, Record
<1>3. /\ wait'[c] = "recorded"
      /\ \A d \in Calls : d # c => wait'[d] = wait[d]
  BY DEF ApprovalTypeOK, Record
<1>4. UNCHANGED <<queue, standing, hand, answers, always>>
  BY DEF Record
<1>5. TableFollowsQueue'
  BY <1>2, <1>4 DEF ApprovalInvariant, TableFollowsQueue
<1>6. NotYetAsked'
  BY <1>1, <1>2, <1>3, <1>4 DEF ApprovalInvariant, NotYetAsked, Looks
<1>7. ActsOnAnswer'
  BY <1>3, <1>4 DEF ApprovalInvariant, ActsOnAnswer
<1>8. QueueIsAnswered' /\ AlwaysIsYes' /\ StandingIsGiven'
  BY <1>4 DEF ApprovalInvariant, QueueIsAnswered, AlwaysIsYes, StandingIsGiven
<1>9. QED
  BY <1>5, <1>6, <1>7, <1>8 DEF ApprovalInvariant

LEMMA ApprovalInvariantRequest ==
  ASSUME ApprovalTypeOK, ApprovalInvariant, NEW c \in Calls, Request(c)
  PROVE  ApprovalInvariant'
<1> USE NothingAssumption
<1>1. queue[c] = Nothing
  BY DEF ApprovalInvariant, NotYetAsked, Request
<1>2. row[c] \notin Decision
  BY DEF ApprovalInvariant, NotYetAsked, Request
<1>3. /\ wait'[c] = "at the stop" /\ queue'[c] = Pending
      /\ \A d \in Calls : d # c => wait'[d] = wait[d] /\ queue'[d] = queue[d]
  BY DEF ApprovalTypeOK, Request
<1>4. UNCHANGED <<row, standing, hand, answers, always>>
  BY DEF Request, disk
<1>5. TableFollowsQueue'
  BY <1>2, <1>3, <1>4 DEF ApprovalInvariant, TableFollowsQueue
<1>6. NotYetAsked'
  BY <1>3, <1>4 DEF ApprovalInvariant, NotYetAsked, Looks
<1>7. ActsOnAnswer'
  BY <1>3, <1>4 DEF ApprovalInvariant, ActsOnAnswer
<1>8. QueueIsAnswered'
  <2>1. \A d \in Calls : queue'[d] \in Decision => queue'[d] \in answers'[d]
    BY <1>3, <1>4 DEF ApprovalInvariant, QueueIsAnswered
  <2>2. ASSUME NEW p \in People, hand'[p] # Idle
        PROVE  queue'[hand'[p].call] = hand'[p].decision
    <3>1. hand'[p] = hand[p] /\ hand[p] \in Deciding
      BY <2>2, <1>4 DEF ApprovalTypeOK
    <3>2. hand[p].call \in Calls /\ queue[hand[p].call] = hand[p].decision
      BY <3>1, <2>2 DEF Deciding, ApprovalInvariant, QueueIsAnswered
    <3>3. hand[p].decision # Nothing
      BY <3>1 DEF Deciding
    <3>4. QED
      BY <3>1, <3>2, <3>3, <1>1, <1>3
  <2>3. QED
    BY <2>1, <2>2 DEF QueueIsAnswered
<1>9. AlwaysIsYes'
  BY <1>1, <1>3, <1>4 DEF ApprovalTypeOK, ApprovalInvariant, AlwaysIsYes
<1>10. StandingIsGiven'
  <2>1. \A d \in Calls : queue[d] \in Decision => queue'[d] = queue[d]
    BY <1>1, <1>3
  <2>2. QED
    BY <2>1, <1>4 DEF ApprovalTypeOK, ApprovalInvariant, StandingIsGiven
<1>11. QED
  BY <1>5, <1>6, <1>7, <1>8, <1>9, <1>10 DEF ApprovalInvariant

LEMMA ApprovalInvariantWait ==
  ASSUME ApprovalTypeOK, ApprovalInvariant, NEW c \in Calls,
         Ask(c) \/ Record(c) \/ Request(c) \/ Poll(c) \/ Expire(c)
  PROVE  ApprovalInvariant'
<1> DEFINE Stays == UNCHANGED <<row, queue, standing, hand, answers, always>>
<1>1. CASE Ask(c)
  <2>1. row[c] = Nothing /\ queue[c] = Nothing /\ Stays
    BY <1>1 DEF ApprovalInvariant, NotYetAsked, Ask, disk
  <2>2. PICK w \in {"standing", "asking"} : wait' = [wait EXCEPT ![c] = w]
    BY <1>1 DEF Ask
  <2>3. QED
    BY <2>1, <2>2, ApprovalInvariantMove DEF Looks
<1>2. CASE LookAtStop(c)
  <2>1. queue[c] # Nothing /\ Stays
    BY <1>2 DEF ApprovalInvariant, NotYetAsked, LookAtStop, Looks, disk
  <2>2. PICK w \in {"cancelled", "at the answer"} : wait' = [wait EXCEPT ![c] = w]
    BY <1>2 DEF LookAtStop
  <2>3. QED
    BY <2>1, <2>2, ApprovalInvariantMove
<1>3. CASE LookAtAnswer(c)
  <2>1. queue[c] # Nothing /\ Stays
    BY <1>3 DEF ApprovalInvariant, NotYetAsked, LookAtAnswer, Looks, disk
  <2>2. CASE queue[c] = Pending
    <3>1. wait' = [wait EXCEPT ![c] = "at the clock"]
      BY <1>3, <2>2 DEF LookAtAnswer
    <3>2. QED
      BY <2>1, <3>1, ApprovalInvariantMove
  <2>3. CASE queue[c] # Pending
    <3>1. queue[c] \in Decision /\ queue[c] \in answers[c]
      BY <2>1, <2>3 DEF ApprovalTypeOK, Question, ApprovalInvariant, QueueIsAnswered
    <3>2. wait' = [wait EXCEPT ![c] = IF queue[c].yes THEN "approved" ELSE "rejected"]
      BY <1>3, <2>3 DEF LookAtAnswer, Outcome
    <3>3. CASE queue[c].yes
      BY <2>1, <3>1, <3>2, <3>3, ApprovalInvariantMove DEF Looks
    <3>4. CASE ~queue[c].yes
      BY <2>1, <3>1, <3>2, <3>4, ApprovalInvariantMove DEF Looks
    <3>5. QED
      BY <3>3, <3>4
  <2>4. QED
    BY <2>2, <2>3
<1>4. CASE LookAtClock(c)
  <2>1. queue[c] # Nothing /\ Stays
    BY <1>4 DEF ApprovalInvariant, NotYetAsked, LookAtClock, Looks, disk
  <2>2. PICK w \in {"timed out", "at the stop"} : wait' = [wait EXCEPT ![c] = w]
    BY <1>4 DEF LookAtClock
  <2>3. QED
    BY <2>1, <2>2, ApprovalInvariantMove
<1>5. CASE Expire(c)
  BY <1>5 DEF ApprovalInvariant, QueueIsAnswered, NotYetAsked, TableFollowsQueue,
     AlwaysIsYes, ActsOnAnswer, StandingIsGiven, Expire, disk
<1>6. QED
  BY <1>1, <1>2, <1>3, <1>4, <1>5, ApprovalInvariantRecord,
     ApprovalInvariantRequest DEF Poll

LEMMA ApprovalInvariantDecide ==
  ASSUME ApprovalTypeOK, ApprovalInvariant, NEW p \in People, NEW c \in Calls,
         NEW yes \in BOOLEAN, NEW forever \in BOOLEAN, Decide(p, c, yes, forever)
  PROVE  ApprovalInvariant'
<1> DEFINE d == [yes |-> yes, by |-> p]
<1> USE NothingAssumption
<1>1. d \in Decision
  BY DEF Decision
<1>2. /\ queue[c] = Pending /\ queue'[c] = d
      /\ \A e \in Calls : e # c => queue'[e] = queue[e]
  BY DEF ApprovalTypeOK, Decide
<1>3. /\ answers'[c] = answers[c] \cup {d}
      /\ \A e \in Calls : e # c => answers'[e] = answers[e]
  BY DEF ApprovalTypeOK, Decide
<1>4. /\ hand'[p].call = c /\ hand'[p].decision = d
      /\ \A q \in People : q # p => hand'[q] = hand[q]
  BY DEF ApprovalTypeOK, Decide
<1>5. QueueIsAnswered'
  <2>1. ASSUME NEW q \in People, hand'[q] # Idle
        PROVE  queue'[hand'[q].call] = hand'[q].decision
    <3>1. CASE q = p
      BY <3>1, <1>2, <1>4
    <3>2. CASE q # p
      <4>1. hand'[q] = hand[q] /\ hand[q] \in Deciding
        BY <3>2, <2>1, <1>4 DEF ApprovalTypeOK
      <4>2. hand[q].call \in Calls /\ queue[hand[q].call] \in Decision
        BY <4>1, <2>1 DEF Deciding, ApprovalInvariant, QueueIsAnswered
      <4>3. hand[q].call # c
        BY <4>2, <1>2
      <4>4. QED
        BY <4>1, <4>2, <4>3, <2>1, <1>2 DEF ApprovalInvariant, QueueIsAnswered
    <3>3. QED
      BY <3>1, <3>2
  <2>2. \A e \in Calls : queue'[e] \in Decision => queue'[e] \in answers'[e]
    BY <1>2, <1>3 DEF ApprovalInvariant, QueueIsAnswered
  <2>3. QED
    BY <2>1, <2>2 DEF QueueIsAnswered
<1>6. TableFollowsQueue'
  BY <1>2, <1>3 DEF ApprovalInvariant, TableFollowsQueue, Decide, disk
<1>7. NotYetAsked' /\ AlwaysIsYes'
  BY <1>1, <1>2 DEF ApprovalInvariant, NotYetAsked, AlwaysIsYes, Decide, disk
<1>8. ActsOnAnswer'
  BY <1>3 DEF ApprovalInvariant, ActsOnAnswer, Decide
<1>9. StandingIsGiven'
  <2>1. \A e \in Calls : queue[e] \in Decision => queue'[e] = queue[e]
    BY <1>2
  <2>2. QED
    BY <2>1 DEF ApprovalTypeOK, ApprovalInvariant, StandingIsGiven, Decide
<1>10. QED
  BY <1>5, <1>6, <1>7, <1>8, <1>9 DEF ApprovalInvariant

LEMMA ApprovalInvariantGrant ==
  ASSUME ApprovalTypeOK, ApprovalInvariant, NEW p \in People, GrantStanding(p)
  PROVE  ApprovalInvariant'
<1>1. hand[p] \in Deciding
  BY DEF ApprovalTypeOK, GrantStanding
<1> DEFINE c == hand[p].call
<1>2. c \in Calls /\ hand[p].decision \in Decision /\ queue[c] = hand[p].decision
  BY <1>1 DEF Deciding, ApprovalInvariant, QueueIsAnswered, GrantStanding
<1>3. /\ hand'[p].call = hand[p].call /\ hand'[p].decision = hand[p].decision
      /\ \A q \in People : q # p => hand'[q] = hand[q]
  BY <1>1 DEF ApprovalTypeOK, GrantStanding, Deciding
<1>4. QueueIsAnswered'
  BY <1>2, <1>3 DEF ApprovalInvariant, QueueIsAnswered, GrantStanding
<1>5. AlwaysIsYes'
  BY <1>2 DEF ApprovalInvariant, AlwaysIsYes, GrantStanding
<1>6. StandingIsGiven'
  <2>1. always \subseteq always'
    BY DEF GrantStanding
  <2>2. ASSUME NEW s \in standing', s \notin standing
        PROVE  c \in always' /\ s = <<Thread[RunOf[c]], Tool[c]>> /\ queue[c].yes
    <3>1. Grants(hand[p]) /\ s \in Scope(RunOf[c]) \X {Tool[c]}
      BY <2>2 DEF GrantStanding
    <3>2. hand[p].decision.yes /\ hand[p].always
      BY <3>1 DEF Grants
    <3>3. QED
      BY <3>1, <3>2, <1>2 DEF GrantStanding, Scope
  <2>3. QED
    BY <2>1, <2>2, <1>2 DEF ApprovalInvariant, StandingIsGiven, GrantStanding
<1>7. NotYetAsked' /\ TableFollowsQueue' /\ ActsOnAnswer'
  BY DEF ApprovalInvariant, NotYetAsked, TableFollowsQueue, ActsOnAnswer,
     GrantStanding, disk
<1>8. QED
  BY <1>4, <1>5, <1>6, <1>7 DEF ApprovalInvariant

LEMMA ApprovalInvariantResolve ==
  ASSUME ApprovalTypeOK, ApprovalInvariant, NEW p \in People, Resolve(p)
  PROVE  ApprovalInvariant'
<1>1. hand[p] \in Deciding
  BY DEF ApprovalTypeOK, Resolve
<1> DEFINE c == hand[p].call
<1> USE NothingAssumption
<1>2. /\ c \in Calls /\ hand[p].decision \in Decision
      /\ queue[c] = hand[p].decision
  BY <1>1 DEF Deciding, ApprovalInvariant, QueueIsAnswered, Resolve
<1>3. queue[c] \in answers[c]
  BY <1>2 DEF ApprovalInvariant, QueueIsAnswered
<1>4. \A e \in Calls : row'[e] # row[e] => e = c /\ row'[e] = queue[c]
  BY <1>2 DEF ApprovalTypeOK, Resolve
<1>5. TableFollowsQueue'
  BY <1>2, <1>3, <1>4 DEF ApprovalInvariant, TableFollowsQueue, Resolve
<1>6. NotYetAsked'
  BY <1>2, <1>4 DEF ApprovalInvariant, NotYetAsked, Resolve
<1>7. QueueIsAnswered'
  BY DEF ApprovalTypeOK, ApprovalInvariant, QueueIsAnswered, Resolve
<1>8. AlwaysIsYes' /\ ActsOnAnswer' /\ StandingIsGiven'
  BY DEF ApprovalInvariant, AlwaysIsYes, ActsOnAnswer, StandingIsGiven, Resolve
<1>9. QED
  BY <1>5, <1>6, <1>7, <1>8 DEF ApprovalInvariant

LEMMA ApprovalInvariantRestart ==
  ASSUME ApprovalTypeOK, ApprovalInvariant, Restart
  PROVE  ApprovalInvariant'
<1> USE NothingAssumption
<1>1. QueueIsAnswered'
  BY DEF ApprovalInvariant, QueueIsAnswered, Restart
<1>2. NotYetAsked'
  BY DEF ApprovalTypeOK, ApprovalInvariant, NotYetAsked, Restart, Restored, Outcomes,
     Looks, disk
<1>3. TableFollowsQueue'
  BY DEF ApprovalInvariant, TableFollowsQueue, Restart, Restored, disk
<1>4. AlwaysIsYes' /\ StandingIsGiven'
  BY DEF AlwaysIsYes, StandingIsGiven, Restart
<1>5. ActsOnAnswer'
  BY DEF ApprovalTypeOK, ApprovalInvariant, ActsOnAnswer, Restart, Outcomes
<1>6. QED
  BY <1>1, <1>2, <1>3, <1>4, <1>5 DEF ApprovalInvariant

LEMMA ApprovalInvariantStep ==
  ApprovalTypeOK /\ ApprovalInvariant /\ [ApprovalNext]_approvalVars => ApprovalInvariant'
<1> SUFFICES ASSUME ApprovalTypeOK, ApprovalInvariant, [ApprovalNext]_approvalVars
             PROVE ApprovalInvariant'
  OBVIOUS
<1>1. CASE UNCHANGED approvalVars
  BY <1>1 DEF ApprovalInvariant, QueueIsAnswered, NotYetAsked, TableFollowsQueue,
     AlwaysIsYes, ActsOnAnswer, StandingIsGiven, approvalVars, disk, run
<1>2. CASE ApprovalNext
  BY <1>2, ApprovalInvariantRun, ApprovalInvariantWait, ApprovalInvariantDecide,
     ApprovalInvariantGrant,
     ApprovalInvariantResolve, ApprovalInvariantRestart DEF ApprovalNext
<1>3. QED
  BY <1>1, <1>2

LEMMA ApprovalInvariantHolds == ApprovalSpec => []ApprovalInvariant
BY ApprovalInvariantInit, ApprovalInvariantStep, ApprovalTypeCorrect, PTL
   DEF ApprovalSpec

\* A call goes ahead, or is declined, only on an answer somebody gave about it.
THEOREM ActsOnlyOnAnswer == ApprovalSpec => []ActsOnAnswer
<1>1. ApprovalInvariant => ActsOnAnswer
  BY DEF ApprovalInvariant
<1>2. QED
  BY <1>1, ApprovalInvariantHolds, PTL

\* The queue and the table agree on every question both have decided.
THEOREM TwoRecordsAgree == ApprovalSpec => []RecordsAgree
<1>1. ApprovalInvariant => RecordsAgree
  BY NothingAssumption DEF ApprovalInvariant, TableFollowsQueue, RecordsAgree
<1>2. QED
  BY <1>1, ApprovalInvariantHolds, PTL

\* Every standing approval comes from a yes given with "always", to that tool in
\* that conversation.
THEOREM StandingComesFromAlways == ApprovalSpec => []StandingIsGiven
<1>1. ApprovalInvariant => StandingIsGiven
  BY DEF ApprovalInvariant
<1>2. QED
  BY <1>1, ApprovalInvariantHolds, PTL

\* A call acts on an answer given about it, and only an "always" somebody said
\* spares a question (AnswersAreHonoured).
THEOREM AnswersHonoured == ApprovalSpec => []AnswersAreHonoured
<1>1. ActsOnAnswer /\ StandingIsGiven => AnswersAreHonoured
  BY DEF AnswersAreHonoured
<1>. QED  BY <1>1, ActsOnlyOnAnswer, StandingComesFromAlways, PTL
=============================================================================
