---------------------------- MODULE MCCoinsCache -----------------------------
(* Model-checking instance of CoinsCache: two outpoints, so that one entry can
   be flushed, uncached or spent while another is not, and two coins, so that
   an overwrite changes something.                                          *)
EXTENDS CoinsCache
==============================================================================
