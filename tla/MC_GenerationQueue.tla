------------------------ MODULE MC_GenerationQueue ------------------------
(* Two requests to the gateway, one of them streamed, and a desktop chat.   *)
EXTENDS GenerationQueue

MCRequests == {"r1", "r2"}
MCStreamed == {"r1"}
MCChats == {"c"}
=============================================================================
