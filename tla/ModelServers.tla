---------------------------- MODULE ModelServers ----------------------------
(***************************************************************************)
(* The model servers of one session: the table of the llama-server         *)
(* processes it started (serving/mod.rs), admission, which stops some to   *)
(* make room for another (serving/admission.rs), and the scheduler that    *)
(* gives the card to workers (subagents/scheduling.rs).                    *)
(*                                                                         *)
(* A caller wants one model once: a turn, a page to be read, a worker.     *)
(* Whatever is not awaited under a lock is a step of its own.              *)
(***************************************************************************)
EXTENDS Naturals, FiniteSets, Sequences, FiniteSetsExt

CONSTANTS
  ServedModels,
  Callers,
  Wants,         \* the model each caller wants
  Looks,         \* callers that ask for a warm server before they admit one
  Workers,       \* callers that reserve their model with the scheduler
  Size,          \* memory a model takes
  Room,          \* memory of the card
  Headroom,      \* CO_RESIDENT_HEADROOM
  Slots,         \* REQUESTS_PER_MODEL
  MaxServers,    \* servers started
  MaxDeaths      \* servers that die by themselves

ASSUME ServersAssumption ==
  /\ ServedModels # {}
  /\ Wants \in [Callers -> ServedModels] /\ Size \in [ServedModels -> Nat]
  /\ Workers \subseteq Looks /\ Looks \subseteq Callers
  /\ {Room, Headroom, Slots, MaxServers, MaxDeaths} \subseteq Nat

Servers == 1 .. MaxServers
NoServer == 0

VARIABLES
  table,      \* each model's server
  state,      \* each server: unused, starting, up or ended
  of,         \* the model it serves
  ready,      \* its flag: it has answered a probe
  order,      \* the table's servers by last_used
  doing,         \* where each caller is
  mine,       \* the server a caller was given
  victims,    \* the models a caller has yet to stop to make room
  killing,    \* the server it has taken out of the table and is ending
  residency,  \* what the scheduler decided of a worker
  card,       \* the worker that has the card
  handed,     \* history: servers by the time they were last handed out
  foundDead,  \* history: servers a caller found dead
  deaths

servers == <<table, state, of, ready, order>>
schedule == <<residency, card>>
noted == <<handed, foundDead>>
serversVars == <<servers, doing, mine, victims, killing, schedule, noted, deaths>>

Live == {s \in Servers : state[s] \in {"starting", "up"}}
Listed(m) == table[m] # NoServer
Warm(m) == Listed(m) /\ ready[table[m]]

\* A sequence without s, which it has once or not at all, and with s at its end.
Without(seq, s) ==
  IF \A i \in 1 .. Len(seq) : seq[i] # s THEN seq
  ELSE LET k == CHOOSE i \in 1 .. Len(seq) : seq[i] = s
       IN  [i \in 1 .. Len(seq) - 1 |-> IF i < k THEN seq[i] ELSE seq[i + 1]]
Last(seq, s) == Append(Without(seq, s), s)

NowDoing(c, place) == doing' = [doing EXCEPT ![c] = place]

ServersInit ==
  /\ table = [m \in ServedModels |-> NoServer]
  /\ state = [s \in Servers |-> "unused"]
  /\ of \in [Servers -> {CHOOSE m \in ServedModels : TRUE}]
  /\ ready = [s \in Servers |-> FALSE]
  /\ order = <<>>
  /\ doing = [c \in Callers |-> IF c \in Workers THEN "idle" ELSE "asking"]
  /\ mine = [c \in Callers |-> NoServer]
  /\ victims = [c \in Callers |-> <<>>]
  /\ killing = [c \in Callers |-> NoServer]
  /\ residency = [c \in Callers |-> "none"] /\ card = {}
  /\ handed = <<>> /\ foundDead = {} /\ deaths = 0

-----------------------------------------------------------------------------
(* What the driver says is free.                                           *)

\* A server that is still loading may hold its memory already or not.
Measures == {up \in SUBSET Live : \A s \in Live : state[s] = "up" => s \in up}

\* measure_budget() and plan_for(): whether the model would be wholly on the card.
FitsBeside(held, need) == MapThenSumSet(LAMBDA s : Size[of[s]], held) + need <= Room

-----------------------------------------------------------------------------
(* The scheduler.                                                          *)

\* residency_of() and plan_residency().  A driver that does not report is one
\* of the answers.
Judge(c) ==
  /\ doing[c] = "idle" /\ c \in Workers
  /\ \E held \in Measures, measured \in BOOLEAN :
       residency' = [residency EXCEPT ![c] =
         IF Warm(Wants[c]) THEN "warm"
         ELSE IF \A m \in ServedModels : ~Listed(m) THEN "alongside"
         ELSE IF measured /\ FitsBeside(held, Size[Wants[c]] + Headroom) THEN "alongside"
         ELSE "serialise"]
  /\ NowDoing(c, "for slot")
  /\ UNCHANGED <<servers, mine, victims, killing, card, noted, deaths>>

Holding(m) == {c \in Workers : Wants[c] = m /\ doing[c] \notin {"idle", "for slot", "over"}}

\* reserve(): a request slot of the model, then the card if it is needed...
TakeSlot(c) ==
  /\ doing[c] = "for slot" /\ Cardinality(Holding(Wants[c])) < Slots
  /\ NowDoing(c, IF residency[c] = "serialise" THEN "for card" ELSE "asking")
  /\ UNCHANGED <<servers, mine, victims, killing, schedule, noted, deaths>>

\* Mutant: the guard of the lock is dropped as soon as it is taken.
TakeCardAndDrop(c) ==
  /\ doing[c] = "for card" /\ card = {}
  /\ NowDoing(c, "asking")
  /\ UNCHANGED <<servers, mine, victims, killing, schedule, noted, deaths>>

TakeCard(c) ==
  /\ doing[c] = "for card" /\ card = {}
  /\ card' = {c}
  /\ NowDoing(c, "asking")
  /\ UNCHANGED <<servers, mine, victims, killing, residency, noted, deaths>>

\* ... and a refusal once the wait is too long.
TooLong(c) ==
  /\ doing[c] \in {"for slot", "for card"}
  /\ NowDoing(c, "over")
  /\ UNCHANGED <<servers, mine, victims, killing, schedule, noted, deaths>>

-----------------------------------------------------------------------------
(* Admission.                                                              *)

\* warm_endpoint(): a server that has answered a probe is handed out at once.
AskWarm(c) ==
  /\ doing[c] = "asking"
  /\ IF c \in Looks /\ Warm(Wants[c])
       THEN /\ mine' = [mine EXCEPT ![c] = table[Wants[c]]]
            /\ order' = Last(order, table[Wants[c]])
            /\ handed' = Last(handed, table[Wants[c]])
            /\ NowDoing(c, "using")
       ELSE NowDoing(c, "admitting") /\ UNCHANGED <<mine, order, handed>>
  /\ UNCHANGED <<table, state, of, ready, victims, killing, schedule, foundDead, deaths>>

\* eviction_order(), less the model that is wanted.
Others(c) ==
  LET others == Without(order, table[Wants[c]])
  IN  [i \in 1 .. Len(others) |-> of[others[i]]]

\* admit(): room enough, or no figure to go by, and nothing is disturbed.
AdmitModel(c) ==
  /\ doing[c] = "admitting"
  /\ \E held \in Measures, measured \in BOOLEAN :
       IF ~measured \/ FitsBeside(held, Size[Wants[c]]) \/ Others(c) = <<>>
         THEN NowDoing(c, "spawning") /\ UNCHANGED victims
         ELSE /\ victims' = [victims EXCEPT ![c] = Others(c)]
              /\ NowDoing(c, "reclaiming")
  /\ UNCHANGED <<servers, mine, killing, schedule, noted, deaths>>

\* Mutant: the process is left to itself.
TakenOutOnly(c, m) ==
  /\ table' = [table EXCEPT ![m] = NoServer]
  /\ order' = Without(order, table[m])
  /\ UNCHANGED killing

\* stop(): the server leaves the table under its lock...
TakenOut(c, m) ==
  /\ killing' = [killing EXCEPT ![c] = table[m]]
  /\ table' = [table EXCEPT ![m] = NoServer]
  /\ order' = Without(order, table[m])

Reclaim(c) ==
  /\ doing[c] = "reclaiming" /\ victims[c] # <<>>
  /\ TakenOut(c, Head(victims[c]))
  /\ victims' = [victims EXCEPT ![c] = Tail(@)]
  /\ NowDoing(c, "ending")
  /\ UNCHANGED <<state, of, ready, mine, schedule, noted, deaths>>

\* ... and is killed after that.
Kill(c, next) ==
  /\ state' = IF killing[c] = NoServer THEN state ELSE [state EXCEPT ![killing[c]] = "ended"]
  /\ killing' = [killing EXCEPT ![c] = NoServer]
  /\ NowDoing(c, next)
  /\ UNCHANGED <<table, of, ready, order, mine, victims, schedule, noted, deaths>>

EndVictim(c) == doing[c] = "ending" /\ Kill(c, "measuring")

\* Until it fits, or there is nothing left to stop.
Measure(c) ==
  /\ doing[c] = "measuring"
  /\ \E held \in Measures :
       NowDoing(c, IF FitsBeside(held, Size[Wants[c]]) \/ victims[c] = <<>>
               THEN "spawning" ELSE "reclaiming")
  /\ UNCHANGED <<servers, mine, victims, killing, schedule, noted, deaths>>

-----------------------------------------------------------------------------
(* Starting a server and waiting for it.                                   *)

\* A new server for the caller's model, listed.
Launch(c) ==
  \E s \in Servers :
    /\ state[s] = "unused" /\ \A t \in Servers : t < s => state[t] # "unused"
    /\ state' = [state EXCEPT ![s] = "starting"]
    /\ of' = [of EXCEPT ![s] = Wants[c]]
    /\ table' = [table EXCEPT ![Wants[c]] = s]
    /\ order' = Append(order, s)
    /\ mine' = [mine EXCEPT ![c] = s]
    /\ handed' = Last(handed, s)
    /\ NowDoing(c, "given")
    /\ UNCHANGED <<ready, card>>

\* spawn_managed(): one that is listed is taken as it is, or one is started, or
\* it cannot be launched.
Spawn(c) ==
  /\ doing[c] = "spawning"
  /\ \/ /\ Listed(Wants[c])
        /\ mine' = [mine EXCEPT ![c] = table[Wants[c]]]
        /\ handed' = Last(handed, table[Wants[c]])
        /\ NowDoing(c, "given")
        /\ UNCHANGED <<servers, card>>
     \/ ~Listed(Wants[c]) /\ Launch(c)
     \/ /\ ~Listed(Wants[c])
        /\ card' = card \ {c}
        /\ NowDoing(c, "over")
        /\ UNCHANGED <<servers, mine, handed>>
  /\ UNCHANGED <<victims, killing, residency, foundDead, deaths>>

\* The flag a caller was given with the endpoint.
IsReady(c) == ready[mine[c]]

\* managed_endpoint(): one that has answered a probe is not asked again.
LookReady(c) ==
  /\ doing[c] = "given"
  /\ NowDoing(c, IF IsReady(c) THEN "using" ELSE "waiting")
  /\ UNCHANGED <<servers, mine, victims, killing, schedule, noted, deaths>>

\* Mutant: it is polled for as long as it takes.
PollForEver(c) ==
  /\ doing[c] = "waiting" /\ state[mine[c]] = "up"
  /\ ready' = [ready EXCEPT ![mine[c]] = TRUE] /\ NowDoing(c, "using")
  /\ UNCHANGED <<table, state, of, order, mine, victims, killing, schedule, noted, deaths>>

\* wait_until_ready(): a probe is answered, or READY_TIMEOUT passes without one.
Poll(c) ==
  /\ doing[c] = "waiting"
  /\ \/ /\ state[mine[c]] = "up"
        /\ ready' = [ready EXCEPT ![mine[c]] = TRUE] /\ NowDoing(c, "using")
     \/ /\ state[mine[c]] # "up"
        /\ NowDoing(c, "giving up")
        /\ UNCHANGED ready
  /\ UNCHANGED <<table, state, of, order, mine, victims, killing, schedule, noted, deaths>>

\* A server that never became ready is stopped, by its model.
GiveUp(c) ==
  /\ doing[c] = "giving up"
  /\ TakenOut(c, Wants[c])
  /\ NowDoing(c, "ending it")
  /\ UNCHANGED <<state, of, ready, mine, victims, schedule, noted, deaths>>

EndIt(c) == doing[c] = "ending it" /\ Kill(c, "leaving")

\* A lease is dropped with the call.
FailCall(c) ==
  /\ doing[c] = "leaving"
  /\ card' = card \ {c}
  /\ NowDoing(c, "over")
  /\ UNCHANGED <<servers, mine, victims, killing, residency, noted, deaths>>

\* The caller has what it came for, or its request fails.
Leave(c) ==
  /\ doing[c] = "using"
  /\ foundDead' = IF state[mine[c]] = "ended" THEN foundDead \cup {mine[c]} ELSE foundDead
  /\ card' = card \ {c}
  /\ NowDoing(c, "over")
  /\ UNCHANGED <<servers, mine, victims, killing, residency, handed, deaths>>

-----------------------------------------------------------------------------
(* The servers themselves.                                                 *)

ComesUp(s) ==
  /\ state[s] = "starting"
  /\ state' = [state EXCEPT ![s] = "up"]
  /\ UNCHANGED <<table, of, ready, order, doing, mine, victims, killing,
                 schedule, noted, deaths>>

\* A server ends by itself; nobody is told.
Dies(s) ==
  /\ s \in Live /\ deaths < MaxDeaths
  /\ deaths' = deaths + 1
  /\ state' = [state EXCEPT ![s] = "ended"]
  /\ UNCHANGED <<table, of, ready, order, doing, mine, victims, killing, schedule, noted>>

Does(c) ==
  \/ TakeSlot(c) \/ TakeCard(c) \/ TooLong(c) \/ AskWarm(c) \/ AdmitModel(c)
  \/ Reclaim(c) \/ EndVictim(c) \/ Measure(c) \/ Spawn(c) \/ LookReady(c)
  \/ Poll(c) \/ GiveUp(c) \/ EndIt(c) \/ FailCall(c)

ServersNext ==
  \/ \E c \in Callers : Judge(c) \/ Does(c) \/ Leave(c)
  \/ \E s \in Servers : ComesUp(s) \/ Dies(s)

ServersSpec == ServersInit /\ [][ServersNext]_serversVars

\* What a caller awaits answers or times out.  Nothing makes a server come up,
\* and nothing makes a caller finish with one.
ServersFairSpec == ServersSpec /\ \A c \in Callers : WF_serversVars(Does(c))

-----------------------------------------------------------------------------
(* Properties.                                                             *)

CallPlaces == {"idle", "for slot", "for card", "asking", "admitting", "reclaiming", "ending",
           "measuring", "spawning", "given", "waiting", "giving up", "ending it",
           "leaving", "using", "over"}

ServersTypeOK ==
  /\ table \in [ServedModels -> Servers \cup {NoServer}]
  /\ state \in [Servers -> {"unused", "starting", "up", "ended"}]
  /\ of \in [Servers -> ServedModels] /\ ready \in [Servers -> BOOLEAN]
  /\ order \in Seq(Servers) /\ handed \in Seq(Servers)
  /\ doing \in [Callers -> CallPlaces]
  /\ mine \in [Callers -> Servers \cup {NoServer}]
  /\ victims \in [Callers -> Seq(ServedModels)]
  /\ killing \in [Callers -> Servers \cup {NoServer}]
  /\ residency \in [Callers -> {"none", "warm", "alongside", "serialise"}]
  /\ card \subseteq Workers /\ foundDead \subseteq Servers /\ deaths \in Nat
  /\ {order[i] : i \in DOMAIN order} = {table[m] : m \in ServedModels} \ {NoServer}

\* Every server that runs is its model's in the table, or somebody is ending it:
\* no two callers start one model twice and none is left running unlisted.
RunningIsListed ==
  \A s \in Live : table[of[s]] = s \/ \E c \in Callers : killing[c] = s

\* An endpoint is handed out only of a server that has answered a probe itself:
\* a server started in place of another is waited for again.
HandedOutAnswered ==
  \A c \in Callers : doing[c] = "using" => ready[mine[c]] /\ state[mine[c]] \in {"up", "ended"}

\* The table, the processes and what callers hold agree, whoever starts, replaces
\* and ends servers meanwhile.
ServersAreAccountedFor == ServersTypeOK /\ RunningIsListed /\ HandedOutAnswered

\* Whoever asks for a model gets an endpoint, an error or a refusal.
\* A worker that waits for a slot and for the card gets both, or is refused.
EveryCallEnds ==
  \A c \in Callers : doing[c] \in {"asking", "for slot"} ~> doing[c] \in {"using", "over"}

\* Of two workers that both have to have the card, neither has the other's server
\* stopped under it (ModelLease).
CardHoldersTakeTurns ==
  [][\A c, d \in Workers :
        /\ c # d /\ residency[c] = "serialise" /\ residency[d] = "serialise"
        /\ doing[c] = "using" /\ killing'[d] = mine[c]
        => killing[d] = mine[c]]_serversVars

-----------------------------------------------------------------------------
(* What the texts of the program say of these steps and the code does not  *)
(* keep.  No run checks these formulas: TLC finds a counterexample to each, *)
(* and README.md, section 6, says how it comes about.                       *)

\* A server is stopped for never having become ready only if it never did
\* (managed_endpoint).
NotReadyIsStopped ==
  [][\A c \in Callers : doing[c] = "giving up" /\ killing'[c] \notin {NoServer, killing[c]}
        => ~ready[killing'[c]]]_serversVars

\* A server one caller found dead is not handed to the next (managed_endpoint:
\* "caught where it matters").
DeadIsReplaced ==
  [][\A c \in Callers : doing'[c] = "using" /\ doing[c] # "using" => mine'[c] \notin foundDead]_serversVars

\* The order servers are stopped in is the order they were last handed to a caller
\* in: "when this server was last handed to a caller" (Managed.last_used).
EvictionFollowsUse ==
  order = SelectSeq(handed, LAMBDA s : \E i \in DOMAIN order : order[i] = s)

\* While a worker holds its lease and is using its model, no other worker has the
\* server stopped: workers take turns on the card (scheduling.rs).
WorkersTakeTurns ==
  [][\A c, d \in Workers :
        c # d /\ doing[c] = "using" /\ killing'[d] = mine[c] => killing[d] = mine[c]]_serversVars
=============================================================================
