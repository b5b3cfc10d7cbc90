--------------------------- MODULE MC_ToolCalls ---------------------------
(* Two identical searches, a third, and the document the plan owes. *)
EXTENDS ToolCalls, TLC

CONSTANTS s1, s2, s3, w

MCSignature == s1 :> "search-a" @@ s2 :> "search-a" @@ s3 :> "search-b" @@ w :> "write"
MCToolOf == s1 :> "search" @@ s2 :> "search" @@ s3 :> "search" @@ w :> "create_docx"
=============================================================================
