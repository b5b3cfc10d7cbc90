--------------------------- MODULE Cancellations ---------------------------
(***************************************************************************)
(* Stopping a turn at any point in it: the token and the table of          *)
(* agent_runtime/cancellation.rs, the way drive_run() registers its turn,  *)
(* learns its run id, checks the token between stages and waits on it      *)
(* within one, and the guard that takes it out of the table                *)
(* (commands/agent.rs).                                                    *)
(*                                                                         *)
(* A turn goes through stages; each may wait for ever on something         *)
(* outside, and is left only by its own end or by the token.  The token is *)
(* set and its waiters woken in two steps, and both are done with the      *)
(* table's lock released.                                                  *)
(***************************************************************************)
EXTENDS Naturals, FiniteSets

CONSTANTS
  Turns,         \* calls of drive_run()
  Ids,           \* correlation ids and run ids
  Correlation,   \* the id the surface mints for a turn, or NoId
  RunId,         \* the turn's run
  Resumptions,   \* turns that continue a run, and know its id at once
  NoId,
  MaxRemembered, \* MAX_REMEMBERED_CANCELLATIONS, 256 in the code
  NoTurn

ASSUME TurnsAssumption ==
  /\ Correlation \in [Turns -> Ids \cup {NoId}]
  /\ RunId \in [Turns -> Ids]
  /\ Resumptions \subseteq Turns
  /\ MaxRemembered \in Nat
  /\ NoId \notin Ids /\ NoTurn \notin Turns

VARIABLES
  live,        \* State.live: the turn whose token each id reaches
  remembered,  \* State.remembered
  flag,        \* each turn's token
  named,       \* CancelGuard.ids of each turn
  pc,          \* where each turn is
  minted,      \* turns whose run id is settled
  woken,       \* turns whose future has been notified
  found,       \* turns a Stop has found and whose flag it has not set
  flagged,     \* turns a Stop has flagged and not yet notified
  asked,       \* history: turns a Stop named while they were to come or going on,
               \* and that was neither refused nor lost
  refused      \* history: Stops the table had no room to remember

table == <<live, remembered>>
stops == <<found, flagged, asked, refused>>
cancelVars == <<table, flag, named, pc, minted, woken, stops>>

\* The ids a turn registers at once, and all it will ever bear.
FirstIds(t) ==
  ({Correlation[t]} \cup (IF t \in Resumptions THEN {RunId[t]} ELSE {})) \ {NoId}

AllIds(t) == FirstIds(t) \cup {RunId[t]}

CancelInit ==
  /\ live = [i \in Ids |-> NoTurn]
  /\ remembered = {}
  /\ flag = [t \in Turns |-> FALSE]
  /\ named = [t \in Turns |-> {}]
  /\ pc = [t \in Turns |-> "to come"]
  /\ minted = {}
  /\ woken = {}
  /\ found = {} /\ flagged = {} /\ asked = {} /\ refused = {}

Over(t) == pc[t] = "over"

-----------------------------------------------------------------------------
(* The turn.                                                               *)

Goto(t, place) == pc' = [pc EXCEPT ![t] = place]

Bind(t, ids) == live' = [i \in Ids |-> IF i \in ids THEN t ELSE live[i]]

\* Mutant: an id that was stopped too early is not looked for.
RegisterUnlooked(t) ==
  /\ pc[t] = "to come"
  /\ Bind(t, FirstIds(t))
  /\ named' = [named EXCEPT ![t] = FirstIds(t)]
  /\ Goto(t, "checking")
  /\ UNCHANGED <<remembered, flag, minted, woken, stops>>

\* register(): an id stopped before this is no longer remembered, and the token
\* is set once the lock is released.
Register(t) ==
  /\ pc[t] = "to come"
  /\ Bind(t, FirstIds(t))
  /\ remembered' = remembered \ FirstIds(t)
  /\ named' = [named EXCEPT ![t] = FirstIds(t)]
  /\ Goto(t, IF FirstIds(t) \cap remembered = {} THEN "checking" ELSE "stopped early")
  /\ UNCHANGED <<flag, minted, woken, stops>>

\* token.cancel() after register() or also_known_as(): nothing of the turn is
\* waiting yet.
HeedEarlyStop(t) ==
  /\ pc[t] = "stopped early"
  /\ flag' = [flag EXCEPT ![t] = TRUE]
  /\ Goto(t, "checking")
  /\ UNCHANGED <<table, named, minted, woken, stops>>

\* cancel.check()? between two stages.
Check(t) ==
  /\ pc[t] = "checking"
  /\ Goto(t, IF flag[t] THEN "leaving" ELSE "staging")
  /\ UNCHANGED <<table, flag, named, minted, woken, stops>>

\* A stage does its own work, and comes to the next check or to its end.
StageEnds(t) ==
  /\ pc[t] \in {"staging", "looked", "listening", "asleep"}
  /\ \E place \in {"checking", "leaving"} : Goto(t, place)
  /\ woken' = woken \ {t}
  /\ UNCHANGED <<table, flag, named, minted, stops>>

\* The stage selects on cancelled(): a first look at the flag, then the interest,
\* then a second look.
Listen(t) ==
  /\ pc[t] = "staging"
  /\ Goto(t, IF flag[t] THEN "leaving" ELSE "looked")
  /\ UNCHANGED <<table, flag, named, minted, woken, stops>>

TakeInterest(t) ==
  /\ pc[t] = "looked"
  /\ Goto(t, "listening")
  /\ UNCHANGED <<table, flag, named, minted, woken, stops>>

\* Mutant: the flag is not looked at again once the interest is registered.
SleepAtOnce(t) ==
  /\ pc[t] = "listening"
  /\ Goto(t, "asleep")
  /\ UNCHANGED <<table, flag, named, minted, woken, stops>>

Sleep(t) ==
  /\ pc[t] = "listening"
  /\ Goto(t, IF flag[t] THEN "leaving" ELSE "asleep")
  /\ UNCHANGED <<table, flag, named, minted, woken, stops>>

Wake(t) ==
  /\ pc[t] = "asleep"
  /\ t \in woken
  /\ woken' = woken \ {t}
  /\ Goto(t, "leaving")
  /\ UNCHANGED <<table, flag, named, minted, stops>>

\* The run is given its id, or keeps the one it continues under.
Mint(t) ==
  /\ pc[t] = "staging"
  /\ t \notin minted
  /\ minted' = minted \cup {t}
  /\ Goto(t, "minted")
  /\ UNCHANGED <<table, flag, named, woken, stops>>

\* Mutant: the run id is never bound to the turn's token.
KnownOnlyToItself(t) ==
  /\ pc[t] = "minted"
  /\ named' = [named EXCEPT ![t] = @ \cup {RunId[t]}]
  /\ remembered' = remembered \ {RunId[t]}
  /\ Goto(t, IF RunId[t] \in remembered THEN "stopped early" ELSE "checking")
  /\ UNCHANGED <<live, flag, minted, woken, stops>>

\* also_known_as(): an id already stopped is not bound.
AlsoKnownAs(t) ==
  /\ pc[t] = "minted"
  /\ named' = [named EXCEPT ![t] = @ \cup {RunId[t]}]
  /\ IF RunId[t] \in remembered
       THEN /\ remembered' = remembered \ {RunId[t]}
            /\ Goto(t, "stopped early")
            /\ UNCHANGED live
       ELSE /\ Bind(t, {RunId[t]})
            /\ Goto(t, "checking")
            /\ UNCHANGED remembered
  /\ UNCHANGED <<flag, minted, woken, stops>>

\* CancelGuard::drop(): forget() whatever the ids now reach.
Leave(t) ==
  /\ pc[t] = "leaving"
  /\ live' = [i \in Ids |-> IF i \in named[t] THEN NoTurn ELSE live[i]]
  /\ remembered' = remembered \ named[t]
  /\ Goto(t, "over")
  /\ UNCHANGED <<flag, named, minted, woken, stops>>

-----------------------------------------------------------------------------
(* The person.                                                             *)

\* The turns a Stop under an id is meant for: those that bear it and are not over.
Meant(id) == {t \in Turns : id \in AllIds(t) /\ ~Over(t)}

\* A correlation id is known before its request; a run id once it is minted.
Known(id) ==
  \/ \E t \in Turns : Correlation[t] = id
  \/ \E t \in minted \cup Resumptions : RunId[t] = id

\* cancel(): the token is cloned under the lock, or the id remembered.
Stop(id) ==
  /\ Known(id)
  /\ \/ /\ live[id] # NoTurn
        /\ found' = found \cup {live[id]}
        /\ asked' = asked \cup Meant(id)
        /\ UNCHANGED <<remembered, refused>>
     \/ /\ live[id] = NoTurn
        /\ id \in remembered \/ Cardinality(remembered) < MaxRemembered
        /\ remembered' = remembered \cup {id}
        /\ asked' = asked \cup Meant(id)
        /\ UNCHANGED <<found, refused>>
     \/ /\ live[id] = NoTurn
        /\ Cardinality(remembered) >= MaxRemembered
        /\ refused' = refused \cup {id}
        /\ UNCHANGED <<remembered, found, asked>>
  /\ UNCHANGED <<live, flag, named, pc, minted, woken, flagged>>

\* token.cancel(): the flag first, then everything that listens.
SetFlag(t) ==
  /\ t \in found
  /\ found' = found \ {t}
  /\ flag' = [flag EXCEPT ![t] = TRUE]
  /\ flagged' = flagged \cup {t}
  /\ UNCHANGED <<table, named, pc, minted, woken, asked, refused>>

Notify(t) ==
  /\ t \in flagged
  /\ flagged' = flagged \ {t}
  /\ woken' = IF pc[t] \in {"listening", "asleep"} THEN woken \cup {t} ELSE woken
  /\ UNCHANGED <<table, flag, named, pc, minted, found, asked, refused>>

-----------------------------------------------------------------------------
\* What a turn does by itself once somebody has stopped it.
Heeds(t) ==
  \/ Register(t) \/ HeedEarlyStop(t) \/ Check(t)
  \/ TakeInterest(t) \/ Sleep(t) \/ Wake(t)
  \/ AlsoKnownAs(t) \/ Leave(t)

CancelNext ==
  \/ \E t \in Turns : Heeds(t) \/ StageEnds(t) \/ Listen(t) \/ Mint(t)
  \/ \E id \in Ids : Stop(id)
  \/ \E t \in Turns : SetFlag(t) \/ Notify(t)

CancelSpec == CancelInit /\ [][CancelNext]_cancelVars

\* A stage that does not listen comes to its end; one that listens may wait for ever.
Fairness ==
  \A t \in Turns :
    /\ WF_cancelVars(Heeds(t)) /\ WF_cancelVars(SetFlag(t)) /\ WF_cancelVars(Notify(t))
    /\ WF_cancelVars(pc[t] = "staging" /\ (StageEnds(t) \/ Listen(t) \/ Mint(t)))

CancelFairSpec == CancelSpec /\ Fairness

-----------------------------------------------------------------------------
(* Properties.                                                             *)

Places == {"to come", "stopped early", "checking", "staging", "looked",
           "listening", "asleep", "minted", "leaving", "over"}

CancelTypeOK ==
  /\ live \in [Ids -> Turns \cup {NoTurn}]
  /\ remembered \subseteq Ids
  /\ flag \in [Turns -> BOOLEAN]
  /\ named \in [Turns -> SUBSET Ids]
  /\ pc \in [Turns -> Places]
  /\ minted \subseteq Turns /\ woken \subseteq Turns
  /\ found \subseteq Turns /\ flagged \subseteq Turns /\ asked \subseteq Turns
  /\ refused \subseteq Ids

\* No two turns bear one id: each request mints its own, and a run has one driver.
IdsAreDistinct == \A s, t \in Turns : s # t => AllIds(s) \cap AllIds(t) = {}

\* A stop that was not refused is somewhere until its turn is over: remembered
\* under an id the turn has yet to claim, on its way to the token, or in it.
\* "A run cannot start by outrunning the person who stopped it"
\* (agent_runtime/cancellation.rs).
StopIsNotLost ==
  \A t \in asked :
    \/ Over(t) \/ flag[t] \/ t \in found \/ pc[t] = "stopped early"
    \/ remembered \cap (AllIds(t) \ named[t]) # {}

\* A turn stops only because somebody stopped it.
OnlyTheAskedStop == \A t \in Turns : flag[t] \/ t \in found => t \in asked

\* A turn that ended is out of the table: no id of it reaches anything
\* (CancelGuard).
OverIsForgotten ==
  \A t \in Turns : \A id \in Ids : Over(t) => live[id] # t

\* A turn that was stopped comes to its end, though the stage it is in may wait
\* for ever: no wake-up is lost between the flag and the wait
\* (CancelToken::cancelled()).
StoppedTurnEnds == \A t \in Turns : t \in asked /\ pc[t] # "to come" ~> Over(t)

\* "Either one cancels it" (agent_runtime/cancellation.rs): a turn that is going
\* on can be stopped by each id it was registered under.
EitherIdReaches ==
  \A t \in Turns :
    pc[t] \in {"staging", "looked", "listening", "asleep"} /\ ~flag[t] =>
      \A id \in named[t] : live[id] = t

-----------------------------------------------------------------------------
(* What the texts of the program say of these steps and the code does not  *)
(* keep.  No run checks these formulas: TLC finds a counterexample to each, *)
(* and README.md, section 6, says how it comes about.                       *)

\* "The set only grows when somebody stops a turn that never started"
\* (MAX_REMEMBERED_CANCELLATIONS): what is remembered awaits a turn to claim it.
RememberedAwaitsATurn ==
  \A id \in remembered : \E t \in Turns : id \in AllIds(t) \ named[t]
=============================================================================
