-------------------------- MODULE MC_MemoryOutbox --------------------------
(* Two publications, the first tried twice, and a correction.             *)
EXTENDS MemoryOutbox, TLC

CONSTANTS c1, c2, a1, a1b, a2, k1

MCWrites == (a1 :> c1) @@ (a1b :> c1) @@ (a2 :> c2) @@ (k1 :> Other)
=============================================================================
