--------------------------- MODULE ChainstateFlush ---------------------------
(***************************************************************************)
(* How the chain state reaches the disk and is found again after the       *)
(* process dies: FlushStateToDisk, CCoinsViewDB::BatchWrite with its       *)
(* partial batches, DumpCacheToDatabase, and ReplayBlocks at start-up.     *)
(*                                                                         *)
(* A block's transactions are abstracted to the outpoints it creates and   *)
(* spends (one created and spent within the block is in both sets) and the *)
(* assets it issues.  A crash loses memory; files and databases keep what  *)
(* was handed to them.  Pruning and -reindex are left out.                 *)
(***************************************************************************)
EXTENDS BlockTree

CONSTANTS nHeight,
          Outpoint, Creates, Spends, \* per block: outpoints created and spent
          Asset, Issues,            \* per block: assets issued
          Null,                     \* uint256()
          MaxCrashes                \* bound on the crashes of a behaviour

ASSUME HeightAssumption ==
    /\ nHeight \in [Block -> Nat]
    /\ \A b \in Block \ {Genesis} : nHeight[b] = nHeight[Parent[b]] + 1

ASSUME BlockAssumption ==
    /\ Creates \in [Block -> SUBSET Outpoint]
    /\ Spends \in [Block -> SUBSET Outpoint]
    /\ Issues \in [Block -> SUBSET Asset]
    /\ Creates[Genesis] = {} /\ Spends[Genesis] = {} /\ Issues[Genesis] = {}
    /\ Null \notin Block
    /\ MaxCrashes \in Nat

(* No two transactions of a chain have the same id.                         *)
ASSUME TxidAssumption ==
    \A b \in Block \ {Genesis} : \A x \in Ancestors[Parent[b]] : Creates[x] \cap Creates[b] = {}

VARIABLES pc,         \* where the main thread is; "down" between crash and restart
          tip,        \* best block of pcoinsTip
          index,      \* mapBlockIndex: "none", "data" or "undo" (HAVE_DATA, HAVE_UNDO)
          coins,      \* the UTXO set read through pcoinsTip
          pending,    \* outpoints whose cache entries are not yet in the database
          assetsAdd,  \* passets: setNewAssetsToAdd
          assetsDel,  \* passets: setNewAssetsToRemove
          indexDB,    \* block index database
          coinsDB,    \* coin database: the UTXO set
          best,       \* DB_BEST_BLOCK, or Null
          heads,      \* DB_HEAD_BLOCKS: <<>> or <<new tip, old tip>>
          assetsDB,   \* asset database
          crashes,    \* crashes so far
          torn        \* history: a crash cut a full flush short

mem == <<tip, index, coins, pending, assetsAdd, assetsDel>>
disk == <<indexDB, coinsDB, best, heads, assetsDB>>
vars == <<pc, mem, disk, crashes, torn>>

-----------------------------------------------------------------------------
(* UpdateCoins over a block; RollforwardBlock does the same.                *)
Connected(utxo, b) == (utxo \cup Creates[b]) \ Spends[b]

(* DisconnectBlock, in reverse order: also on a set it was never applied to. *)
Undone(utxo, b) == (utxo \cup Spends[b]) \ Creates[b]

Touched(b) == Creates[b] \cup Spends[b]

UtxoAt[b \in Block] == IF b = Genesis THEN {} ELSE Connected(UtxoAt[Parent[b]], b)

AssetsAt(b) == UNION {Issues[x] : x \in Ancestors[b]}

(* The blocks of b's branch above LastCommonAncestor(b, c).                 *)
Branch(b, c) == Ancestors[b] \ Ancestors[c]

(* The loops of ReplayBlocks.  Rollback along pprev from b until a block of
   new's branch, on whatever the database holds; then roll forward from the
   fork with old's branch to b.                                             *)
Rollback[b \in Block] ==
    [new \in Block |-> [utxo \in SUBSET Outpoint |->
        IF b \in Ancestors[new] THEN utxo ELSE Rollback[Parent[b]][new][Undone(utxo, b)]]]

Rollforward[b \in Block] ==
    [old \in Block |-> [utxo \in SUBSET Outpoint |->
        IF b \in Ancestors[old] THEN utxo
        ELSE Connected(Rollforward[Parent[b]][old][utxo], b)]]

(* What a lookup through passets finds.                                     *)
Assets == (assetsDB \cup assetsAdd) \ assetsDel

-----------------------------------------------------------------------------
Init == /\ pc = "run"
        /\ tip = Genesis
        /\ index = [b \in Block |-> IF b = Genesis THEN "data" ELSE "none"]
        /\ coins = {} /\ pending = {}
        /\ assetsAdd = {} /\ assetsDel = {}
        /\ indexDB = [b \in Block |-> "none"]
        /\ coinsDB = {} /\ best = Null /\ heads = <<>>
        /\ assetsDB = {}
        /\ crashes = 0
        /\ torn = FALSE

(* AcceptBlock stores a block whose parent is known.                        *)
AcceptBlock(b) ==
    /\ pc = "run"
    /\ b # Genesis /\ index[b] = "none" /\ index[Parent[b]] # "none"
    /\ index' = [index EXCEPT ![b] = "data"]
    /\ UNCHANGED <<pc, tip, coins, pending, assetsAdd, assetsDel, disk, crashes, torn>>

(* ConnectTip up to FlushStateToDisk, of a block that ConnectBlock accepts: the
   coins it spends are there (CheckTxInputs), and the assets it issues are not
   (ContextualCheckNewAsset).                                               *)
ConnectTip(b) ==
    /\ pc = "run"
    /\ b # Genesis /\ Parent[b] = tip /\ index[b] # "none"
    /\ Spends[b] \subseteq coins \cup Creates[b]
    /\ Issues[b] \cap Assets = {}
    /\ tip' = b
    /\ index' = [index EXCEPT ![b] = "undo"]
    /\ coins' = Connected(coins, b)
    /\ pending' = pending \cup Touched(b)
    /\ assetsAdd' = assetsAdd \cup Issues[b]
    /\ assetsDel' = assetsDel \ Issues[b]
    /\ UNCHANGED <<pc, disk, crashes, torn>>

(* DisconnectTip up to FlushStateToDisk.                                    *)
DisconnectTip ==
    /\ pc = "run"
    /\ tip # Genesis /\ index[tip] = "undo"
    /\ tip' = Parent[tip]
    /\ coins' = Undone(coins, tip)
    /\ pending' = pending \cup Touched(tip)
    /\ assetsAdd' = assetsAdd \ Issues[tip]
    /\ assetsDel' = assetsDel \cup Issues[tip]
    /\ UNCHANGED <<pc, index, disk, crashes, torn>>

-----------------------------------------------------------------------------
(* Variant: the coins are flushed without writing the block index first.    *)
WriteBlockIndexSkipped ==
    /\ pc = "run"
    /\ pc' = "coins"
    /\ UNCHANGED <<mem, disk, crashes, torn>>

(* FlushStateToDisk: WriteBatchSync of the dirty block index entries, then
   either nothing more (fPeriodicWrite) or the full flush.                  *)
WriteBlockIndex ==
    /\ pc = "run"
    /\ indexDB' = index
    /\ pc' \in {"run", "coins"}
    /\ UNCHANGED <<mem, coinsDB, best, heads, assetsDB, crashes, torn>>

(* The old tip BatchWrite records: the tip of the database or, while a flush
   of a replay is repeated, the one already recorded.                       *)
OldTip == IF best = Null /\ heads # <<>> THEN heads[2] ELSE best

(* Coins of S brought to their value in memory.                             *)
Stored(S) == (coinsDB \ S) \cup (coins \cap S)

(* Variant: a partial batch leaves the best block in place.                 *)
PartialBatchUnmarked ==
    /\ pc \in {"coins", "replay"}
    /\ \E S \in SUBSET pending \ {{}} : coinsDB' = Stored(S) /\ pending' = pending \ S
    /\ UNCHANGED <<pc, tip, index, coins, assetsAdd, assetsDel, indexDB, best, heads,
                   assetsDB, crashes, torn>>

(* Variant: the record of the best block is not erased.                     *)
PartialBatchKeepsBest ==
    /\ pc \in {"coins", "replay"}
    /\ \E S \in SUBSET pending \ {{}} : coinsDB' = Stored(S) /\ pending' = pending \ S
    /\ heads' = <<tip, OldTip>>
    /\ UNCHANGED <<pc, tip, index, coins, assetsAdd, assetsDel, indexDB, best, assetsDB,
                   crashes, torn>>

(* BatchWrite, when the batch outgrows -dbbatchsize: any part of the map so
   far, the first one marked as a transition from the old tip to the new.   *)
PartialBatch ==
    /\ pc \in {"coins", "replay"}
    /\ \E S \in SUBSET pending \ {{}} : coinsDB' = Stored(S) /\ pending' = pending \ S
    /\ heads' = <<tip, OldTip>>
    /\ best' = Null
    /\ UNCHANGED <<pc, tip, index, coins, assetsAdd, assetsDel, indexDB, assetsDB,
                   crashes, torn>>

(* BatchWrite, last batch.                                                  *)
FinalBatch ==
    /\ pc \in {"coins", "replay"}
    /\ coinsDB' = Stored(pending)
    /\ pending' = {}
    /\ heads' = <<>>
    /\ best' = tip
    /\ pc' = IF pc = "coins" THEN "assets" ELSE "run"
    /\ UNCHANGED <<tip, index, coins, assetsAdd, assetsDel, indexDB, assetsDB, crashes, torn>>

(* DumpCacheToDatabase: one database write per entry, removals first, and
   the sets are cleared only at the end.                                    *)
DumpErase(a) ==
    /\ pc = "assets"
    /\ a \in assetsDel \cap assetsDB
    /\ assetsDB' = assetsDB \ {a}
    /\ UNCHANGED <<pc, mem, indexDB, coinsDB, best, heads, crashes, torn>>

DumpWrite(a) ==
    /\ pc = "assets"
    /\ assetsDel \cap assetsDB = {}
    /\ a \in assetsAdd \ assetsDB
    /\ assetsDB' = assetsDB \cup {a}
    /\ UNCHANGED <<pc, mem, indexDB, coinsDB, best, heads, crashes, torn>>

(* Variant: the dirty sets are cleared but nothing was written.             *)
DumpDoneEarly ==
    /\ pc = "assets"
    /\ assetsAdd' = {} /\ assetsDel' = {}
    /\ pc' = "run"
    /\ UNCHANGED <<tip, index, coins, pending, disk, crashes, torn>>

DumpDone ==
    /\ pc = "assets"
    /\ assetsDel \cap assetsDB = {} /\ assetsAdd \subseteq assetsDB
    /\ assetsAdd' = {} /\ assetsDel' = {}
    /\ pc' = "run"
    /\ UNCHANGED <<tip, index, coins, pending, disk, crashes, torn>>

-----------------------------------------------------------------------------
(* The process dies.                                                        *)
Crash ==
    /\ pc # "down" /\ crashes < MaxCrashes
    /\ pc' = "down"
    /\ torn' = (torn \/ heads # <<>> \/ pc = "assets")
    /\ crashes' = crashes + 1
    /\ UNCHANGED <<mem, disk>>

LoadedIndex == [indexDB EXCEPT ![Genesis] = IF @ = "none" THEN "data" ELSE @]

(* AppInitMain: LoadBlockIndex and LoadGenesisBlock, passets empty, no head
   blocks to replay, LoadChainTip from the best block of the coin database.  *)
Restart ==
    /\ pc = "down" /\ heads = <<>>
    /\ index' = LoadedIndex
    /\ IF best = Null \/ index'[best] # "none"
       THEN /\ pc' = "run"
            /\ tip' = IF best = Null THEN Genesis ELSE best
       ELSE pc' = "failed" /\ tip' = tip
    /\ coins' = coinsDB
    /\ pending' = {}
    /\ assetsAdd' = {} /\ assetsDel' = {}
    /\ UNCHANGED <<disk, crashes, torn>>

(* Variant: ReplayBlocks only rolls forward.                                *)
RolledBackNot(old, new) == coinsDB

(* The coins of the database rolled back along the old branch.              *)
RolledBack(old, new) == Rollback[old][new][coinsDB]

(* Variant: ReplayBlocks leaves the best block at the old tip.              *)
ReplayedTipOld(old, new) == old

(* cache.SetBestBlock at the end of ReplayBlocks.                           *)
ReplayedTip(old, new) == new

(* AppInitMain when a flush was cut short: ReplayBlocks.  The asset caches
   are rolled back with the old branch but not rolled forward: the call of
   RollforwardBlock passes none.  Its own flush follows as PartialBatch and
   FinalBatch at pc = "replay".                                             *)
RestartReplay ==
    /\ pc = "down" /\ heads # <<>>
    /\ index' = LoadedIndex
    /\ LET new == heads[1]
           old == IF heads[2] = Null THEN Genesis ELSE heads[2]
           down == Branch(old, new)
           up == Branch(new, old)
           undo == assetsDB \cap UNION {Issues[x] : x \in down}
       IN IF /\ index'[new] # "none" /\ index'[old] # "none"
             /\ \A x \in down : index'[x] = "undo"
             /\ \A x \in up : index'[x] # "none"
          THEN /\ pc' = "replay"
               /\ tip' = ReplayedTip(old, new)
               /\ coins' = Rollforward[new][old][RolledBack(old, new)]
               /\ pending' = UNION {Touched(x) : x \in down \cup up}
               /\ assetsAdd' = {} /\ assetsDel' = undo
          ELSE pc' = "failed" /\ UNCHANGED <<tip, coins, pending, assetsAdd, assetsDel>>
    /\ UNCHANGED <<disk, crashes, torn>>

-----------------------------------------------------------------------------
Next == \/ \E b \in Block : AcceptBlock(b) \/ ConnectTip(b)
        \/ DisconnectTip
        \/ WriteBlockIndex \/ PartialBatch \/ FinalBatch
        \/ \E a \in Asset : DumpErase(a) \/ DumpWrite(a)
        \/ DumpDone
        \/ Crash \/ Restart \/ RestartReplay

(* A started flush and a restart are carried through: the flush runs to its end
   on the thread that holds cs_main, and the operator restarts the node.    *)
Progress == Restart \/ RestartReplay \/ FinalBatch \/ DumpDone
            \/ \E a \in Asset : DumpErase(a) \/ DumpWrite(a)

Spec == Init /\ [][Next]_vars /\ WF_vars(Progress)

-----------------------------------------------------------------------------
TypeOK == /\ pc \in {"run", "coins", "assets", "down", "replay", "failed"}
          /\ tip \in Block
          /\ index \in [Block -> {"none", "data", "undo"}]
          /\ coins \subseteq Outpoint /\ pending \subseteq Outpoint
          /\ assetsAdd \subseteq Asset /\ assetsDel \subseteq Asset
          /\ indexDB \in [Block -> {"none", "data", "undo"}]
          /\ coinsDB \subseteq Outpoint /\ assetsDB \subseteq Asset
          /\ best \in Block \cup {Null}
          /\ heads \in {<<>>} \cup (Block \X (Block \cup {Null}))
          /\ heads = <<>> \/ best = Null
          /\ crashes \in 0..MaxCrashes
          /\ torn \in BOOLEAN

(* Whenever the node runs, what it reads through pcoinsTip is the UTXO set of
   its active chain: after any connects, disconnects, flushes, and crashes in
   the middle of a flush or of the flush of a replay.                       *)
CoinsMatchTip ==
    pc \in {"run", "coins", "replay", "assets"} => coins = UtxoAt[tip]

(* With no head blocks recorded, the coin database is the UTXO set of its best
   block ("mark the database as consistent with hashBlock again").          *)
DatabaseMatchesBest ==
    heads = <<>> => coinsDB = IF best = Null THEN {} ELSE UtxoAt[best]

(* assert(old_heads[0] == hashBlock) in CCoinsViewDB::BatchWrite holds.     *)
ReplayFlushesSameTip ==
    pc \in {"coins", "replay"} /\ best = Null /\ heads # <<>> => heads[1] = tip

(* Unless a crash cut a full flush short, the assets the node finds are those
   its active chain issued.                                                 *)
AssetsMatchTipUnlessTorn ==
    pc = "run" /\ ~torn => Assets = AssetsAt(tip)

(* "We're already in a consistent state", says ReplayBlocks of a coin database
   without head blocks: the assets a running node finds are those its active
   chain issued.                                                            *)
AssetsMatchTip == pc = "run" => Assets = AssetsAt(tip)

(* However a flush was cut short, and again during the replay, the node gets
   back to running once the crashes stop.  So start-up never refuses: the block
   index names every block the coin database refers to, with the undo data and
   block data that ReplayBlocks needs.                                      *)
Recovers == []<>(pc = "run")
==============================================================================
