-------------------------- MODULE AtMostOnceEffect --------------------------
(***************************************************************************)
(* What the effect ledger promises about one side effect per key: a key is *)
(* permitted once, and its permit is spent by performing the effect or by  *)
(* being lost.  Nothing re-opens a key.  The promise about a key is waived  *)
(* when an attempt is let past without a record of it; the promise about    *)
(* every other key stands.                                                  *)
(***************************************************************************)
EXTENDS Naturals

CONSTANT Keys

VARIABLES
  phase,      \* [Keys -> {"open", "permitted", "spent", "waived"}]
  performed   \* [Keys -> Nat] how many times the effect took place

vars == <<phase, performed>>

Init ==
  /\ phase = [k \in Keys |-> "open"]
  /\ performed = [k \in Keys |-> 0]

Permit(k) ==
  /\ phase[k] = "open"
  /\ phase' = [phase EXCEPT ![k] = "permitted"]
  /\ UNCHANGED performed

\* The permit is spent; the effect took place, or the tool failed before it did.
Perform(k) ==
  /\ phase[k] = "permitted"
  /\ phase' = [phase EXCEPT ![k] = "spent"]
  /\ performed' \in {performed, [performed EXCEPT ![k] = @ + 1]}

\* The holders of these permits are gone, and took the permits with them.
Lose(ks) ==
  /\ \A k \in ks : phase[k] = "permitted"
  /\ phase' = [k \in Keys |-> IF k \in ks THEN "spent" ELSE phase[k]]
  /\ UNCHANGED performed

\* An attempt is let past unrecorded: nothing is promised of this key any more.
Waive(k) ==
  /\ phase[k] # "waived"
  /\ phase' = [phase EXCEPT ![k] = "waived"]
  /\ UNCHANGED performed

PerformWaived(k) ==
  /\ phase[k] = "waived"
  /\ performed' = [performed EXCEPT ![k] = @ + 1]
  /\ UNCHANGED phase

Next ==
  \/ \E k \in Keys : Permit(k) \/ Perform(k) \/ Waive(k) \/ PerformWaived(k)
  \/ \E ks \in SUBSET Keys : Lose(ks)

Spec == Init /\ [][Next]_vars
=============================================================================
