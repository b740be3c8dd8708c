--------------------------- MODULE MCBlockDownload ---------------------------
(* An instance of BlockDownload for TLC: a peer that may do anything, and one *)
(* that answers in time, on a chain of two blocks.                            *)
EXTENDS BlockDownload, TLC

CONSTANTS any, timely, G, a1, a2

MCBlocks == {G, a1, a2}
MCPrev == a1 :> G @@ a2 :> a1
MCHeight == G :> 0 @@ a1 :> 1 @@ a2 :> 2
MCWork == G :> 1 @@ a1 :> 2 @@ a2 :> 3
MCChain == G :> {G} @@ a1 :> {G, a1} @@ a2 :> {G, a1, a2}
=============================================================================
