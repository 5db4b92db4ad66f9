-------------------------- MODULE MCChainSelection --------------------------
(* Two branches above block 1.  In the large tree the first is 2-3, heavy  *)
(* but with a block 3 that fails ContextualCheckBlock, the second is       *)
(* 4-5-6-7: a reorganization from 2 to it gives up work when it connects 4 *)
(* and ConnectBlock rejects 5.  The small tree is 2-3 and 4-5, of equal    *)
(* work, where ConnectBlock rejects 3.                                     *)
EXTENDS ChainSelection
MCLargeTree == 0..7
MCLargeParent == [b \in 1..7 |-> IF b = 4 THEN 1 ELSE b - 1]
MCLargeWork ==
  [b \in 0..7 |-> CASE b <= 1 -> b [] b \in {2, 3} -> b + 1 [] OTHER -> b - 2]
MCSmallTree == 0..5
MCSmallParent == [b \in 1..5 |-> IF b = 4 THEN 1 ELSE b - 1]
MCSmallWork == [b \in 0..5 |-> IF b <= 3 THEN b ELSE b - 2]
MCBlock3 == {3}
MCBlock5 == {5}
MCNoBlock == {}
MCOperated == 1..3
MCOneThread == {"t1"}
MCTwoThreads == {"t1", "t2"}
=============================================================================
