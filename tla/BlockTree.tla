----------------------------- MODULE BlockTree ------------------------------
(***************************************************************************)
(* The tree of block headers that mapBlockIndex spans: every CBlockIndex   *)
(* but that of the genesis block points to its parent with pprev.          *)
(***************************************************************************)
EXTENDS Integers

CONSTANTS Block,    \* every block there may be
          Genesis,
          Parent    \* pprev of every other block

ASSUME ParentAssumption ==
    Genesis \in Block /\ Parent \in [Block \ {Genesis} -> Block]

(* What a walk along pprev meets, b included; GetAncestor picks from it.    *)
Ancestors[b \in Block] ==
    {b} \cup IF b = Genesis THEN {} ELSE Ancestors[Parent[b]]
=============================================================================
