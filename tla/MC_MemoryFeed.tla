--------------------------- MODULE MC_MemoryFeed ---------------------------
(* One claim and one re-derived from it, a correction, a record mirrored    *)
(* from the legacy store, one window.                                       *)
EXTENDS MemoryFeed

CONSTANTS c1, c2, a1, a2

MCInputOf == (c1 :> NoInput) @@ (c2 :> c1)
MCClaimOf == (a1 :> c1) @@ (a2 :> c2)
=============================================================================
