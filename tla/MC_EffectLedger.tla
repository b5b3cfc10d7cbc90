-------------------------- MODULE MC_EffectLedger --------------------------
(* Three attempts in one process at two calls under two keys; a runtime that *)
(* supplies its own keys may present one key for both calls.                *)
EXTENDS EffectLedger, TLC

CONSTANTS a1, a2, a3, p1, k1, k2, create, overwrite

MCHostOf == [a \in {a1, a2, a3} |-> p1]

\* Attempts of one process are interchangeable.
MCSymmetry == Permutations({a1, a2, a3})

MCPresents == {<<k1, create>>, <<k1, overwrite>>, <<k2, overwrite>>}
=============================================================================
