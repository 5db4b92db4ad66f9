------------------------------ MODULE CoinStore ------------------------------
(***************************************************************************)
(* What the layered coin caches promise: one map from outpoints to coins,  *)
(* changed by transactions that take effect as a whole or not at all, and  *)
(* a durable copy that only a flush changes.  CoinsCache.tla, translated   *)
(* from src/src/coins.cpp, is shown to implement this module.              *)
(***************************************************************************)
CONSTANTS COutPoint,   \* transaction outputs that can be named
          Coin,       \* what an unspent output holds
          Spent       \* the outpoint holds no coin

VARIABLES durable,    \* the map a restart finds
          committed,  \* the map as of the active tip
          working,    \* the map as the open transaction sees it
          open        \* a block is being connected or disconnected

vars == <<durable, committed, working, open>>

Store == [COutPoint -> Coin \cup {Spent}]

Init == /\ durable \in {s \in Store : \A o \in COutPoint : s[o] = Spent}
        /\ committed = durable
        /\ working = durable
        /\ open = FALSE

Begin == ~open /\ open' = TRUE /\ UNCHANGED <<durable, committed, working>>

Put(o, c) == /\ open
             /\ working' = [working EXCEPT ![o] = c]
             /\ UNCHANGED <<durable, committed, open>>

Commit == /\ open /\ open' = FALSE
          /\ committed' = working
          /\ UNCHANGED <<durable, working>>

Abort == /\ open /\ open' = FALSE
         /\ working' = committed
         /\ UNCHANGED <<durable, committed>>

Persist == /\ ~open
           /\ durable' = committed
           /\ UNCHANGED <<committed, working, open>>

Crash == /\ open' = FALSE
         /\ committed' = durable
         /\ working' = durable
         /\ UNCHANGED durable

Next == \/ Begin \/ Commit \/ Abort \/ Persist \/ Crash
        \/ \E o \in COutPoint, c \in Coin \cup {Spent} : Put(o, c)

Spec == Init /\ [][Next]_vars
==============================================================================
