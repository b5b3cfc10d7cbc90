-------------------------- MODULE MC_ModelServers --------------------------
(***************************************************************************)
(* A chat model and a model that reads pages, of which the card has room   *)
(* for one: a turn, and two workers on one model each.                     *)
(***************************************************************************)
EXTENDS ModelServers, TLC

CONSTANTS chat, ocr, turn, worker, worker2

MCSize == [m \in ServedModels |-> 2]
MCWants == (worker :> chat) @@ (worker2 :> ocr) @@ (turn :> chat)
=============================================================================
