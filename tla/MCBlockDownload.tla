--------------------------- MODULE MCBlockDownload ---------------------------
(***************************************************************************)
(* The chain 1 <- 2 <- 3 of peer h; peer s is on the fork 1 <- 2 <- 4.     *)
(***************************************************************************)
EXTENDS BlockDownload

MCPeer == {"h", "s"}
MCPrompt == {"h"}
MCBlock == 1..4
MCParent == <<0, 1, 2, 2>>
MCTip == [p \in MCPeer |-> IF p = "h" THEN 3 ELSE 4]
=============================================================================
