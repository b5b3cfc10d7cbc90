------------------------------ MODULE RunLease ------------------------------
(***************************************************************************)
(* Who may advance a run (agent_runtime/events/lease.rs), and how the      *)
(* commands use it (worker_id(), RunClaim and drive_run() in               *)
(* commands/agent.rs).                                                     *)
(*                                                                         *)
(* The owner of a lease is a process, not a driver: every drive_run() of   *)
(* one process presents the same worker id.  A driver claims once, before  *)
(* any work, and gives the claim back when it is dropped.  Nothing calls   *)
(* renew_claim(), and nothing a driver does in between presents its token. *)
(* A process that dies never comes back under its id.                      *)
(***************************************************************************)
EXTENDS Naturals

CONSTANTS
  Drivers,     \* activations of drive_run() for one run
  Processes,   \* processes, each with a worker id of its own
  HostOf,      \* which process a driver runs in
  Term,        \* DEFAULT_LEASE_SECONDS, 300 in the code
  MaxNow,      \* bound: the clock
  MaxClaims    \* bound: claims granted

ASSUME HostAssumption == HostOf \in [Drivers -> Processes]
ASSUME TermAssumption == Term \in Nat \ {0}
ASSUME BoundsAssumption == MaxNow \in Nat /\ MaxClaims \in Nat

VARIABLES
  leaseRow,  \* the run's row of run_leases, NoRow while there is none
  now,       \* the clock every process reads
  alive,     \* the processes still running
  driving,   \* the drivers between their claim and its release
  lease,     \* the lease each driver was given last
  claims,    \* how many claims have been granted
  doubled    \* history: the processes given a lease while they drove the run

leaseVars == <<leaseRow, now, alive, driving, lease, claims, doubled>>

Leases == [owner : Processes, token : Nat, expires : Nat]
NoRow == [token |-> 0]

LeaseInit ==
  /\ leaseRow = NoRow
  /\ now = 0
  /\ alive = Processes
  /\ driving = {}
  /\ lease \in [Drivers -> {NoRow}]
  /\ claims = 0
  /\ doubled = {}

Live(l) == l # NoRow /\ now < l.expires

\* Mutant: a live claim is not looked at.
HeldNever(d) == FALSE

\* A live claim of another process refuses this one.
Held(d) == Live(leaseRow) /\ leaseRow.owner # HostOf[d]

\* Incremented on every acquisition; a row that is not there counts as zero.
NextToken(d) == leaseRow.token + 1

DrivenBy(p) == {d \in driving : HostOf[d] = p}

\* acquire(), by drive_run() before any work.  The same owner's is a renewal.
Claim(d) ==
  /\ HostOf[d] \in alive
  /\ d \notin driving
  /\ claims < MaxClaims
  /\ ~Held(d)
  /\ leaseRow' = [owner |-> HostOf[d], token |-> NextToken(d), expires |-> now + Term]
  /\ lease' = [lease EXCEPT ![d] = leaseRow']
  /\ driving' = driving \cup {d}
  /\ claims' = claims + 1
  /\ doubled' = IF DrivenBy(HostOf[d]) = {} THEN doubled \ {HostOf[d]}
                                           ELSE doubled \cup {HostOf[d]}
  /\ UNCHANGED <<now, alive>>

\* Mutant: whoever ends clears the row.
NamesRowAlways(d) == leaseRow # NoRow

\* The row bears the owner and the token this driver presents.
NamesRow(d) ==
  leaseRow # NoRow /\ leaseRow.owner = HostOf[d] /\ leaseRow.token = lease[d].token

\* release(), from RunClaim's drop however the driver returns.
Release(d) ==
  /\ d \in driving
  /\ leaseRow' = IF NamesRow(d) THEN NoRow ELSE leaseRow
  /\ driving' = driving \ {d}
  /\ UNCHANGED <<now, alive, lease, claims, doubled>>

\* The row could not be deleted: logged, and it lapses on its own.
ReleaseFails(d) ==
  /\ d \in driving
  /\ driving' = driving \ {d}
  /\ UNCHANGED <<leaseRow, now, alive, lease, claims, doubled>>

\* A process dies and its drivers with it.  The row stays.
Crash(p) ==
  /\ p \in alive
  /\ alive' = alive \ {p}
  /\ driving' = {d \in driving : HostOf[d] # p}
  /\ UNCHANGED <<leaseRow, now, lease, claims, doubled>>

Tick ==
  /\ now < MaxNow
  /\ now' = now + 1
  /\ UNCHANGED <<leaseRow, alive, driving, lease, claims, doubled>>

LeaseNext ==
  \/ \E d \in Drivers : Claim(d) \/ Release(d) \/ ReleaseFails(d)
  \/ \E p \in Processes : Crash(p)
  \/ Tick

LeaseSpec == LeaseInit /\ [][LeaseNext]_leaseVars

-----------------------------------------------------------------------------
\* The row, the clock and what each driver holds are well formed.
LeaseTypeOK ==
  /\ leaseRow \in Leases \cup {NoRow}
  /\ now \in Nat
  /\ alive \subseteq Processes
  /\ driving \subseteq Drivers
  /\ lease \in [Drivers -> Leases \cup {NoRow}]
  /\ \A d \in driving : lease[d] # NoRow /\ HostOf[d] \in alive
  /\ claims \in Nat
  /\ doubled \subseteq Processes

\* "It stops two workers doing the same thing": of two drivers of one run, one
\* is past the term it was given.  The owner of a lease is a process, so this
\* ends, for that process and whoever meets it, where a process claimed the run
\* while it was driving it, and until its drivers have gone.  What other
\* processes do among themselves takes nothing from one that claimed once.
OneDriverWithinTerm ==
  \A d, e \in driving :
    d # e /\ Live(lease[d]) /\ Live(lease[e]) => {HostOf[d], HostOf[e]} \cap doubled # {}

\* "A straggler cannot release a lease somebody else now holds": a row goes
\* away only when the driver it was given to gives it up, or another of the
\* same process where that one claimed while it was driving.  No other process
\* clears it, however late and under whatever token.
ReleasedByHolder ==
  [][leaseRow # NoRow /\ leaseRow' = NoRow
       => \E d \in driving : /\ d \notin driving' /\ HostOf[d] = leaseRow.owner
                             /\ lease[d] = leaseRow \/ HostOf[d] \in doubled]_leaseVars

\* While the row is there its token only rises, so that a driver which was
\* superseded, by its own process too, no longer names the row.
TokenRises ==
  [][leaseRow # NoRow /\ leaseRow' # NoRow /\ leaseRow' # leaseRow
       => leaseRow'.token > leaseRow.token]_leaseVars
=============================================================================
