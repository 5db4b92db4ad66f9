--------------------------- MODULE AssetMetadata -----------------------------
(***************************************************************************)
(* Issued and reissued assets, with their metadata and verifier strings,   *)
(* in the layers of CAssetsCache (src/src/assets/assets.cpp): the cache of *)
(* one block, passets, the read caches, and the two databases.  AddCoins   *)
(* applies a block's transactions, DisconnectBlock undoes them with the    *)
(* asset undo data of the block.                                           *)
(*                                                                         *)
(* Assets are restricted ones, which have everything the others have and a *)
(* verifier string.  Left out: balances (-assetindex), owner tokens, the   *)
(* height and hash of the issuing block, -reindex, and the reissues a      *)
(* mempool holds.  Transactions that differ only in the coins they spend   *)
(* are one member of Tx.  Blocks are history: the code keeps them on disk. *)
(***************************************************************************)
EXTENDS Integers, Sequences

CONSTANTS Asset,
          Tx,                 \* the issues and reissues that exist
          None,               \* no such entry
          Keep,               \* a field a reissue leaves alone: -1 or ""
          MaxMoney,           \* MAX_MONEY
          MaxHeight, MaxTxs   \* bounds: blocks, and transactions in one

(* CNewAsset; units only ever grow.                                         *)
Meta == [amount : Int, units : Nat, ipfs : STRING, reissuable : BOOLEAN]

(* An issue or a reissue, with its verifier string.                         *)
TxFields == [kind : {"issue", "reissue"}, name : Asset, amount : Nat, units : Nat \cup {Keep},
             ipfs : STRING \cup {Keep}, verifier : STRING \cup {Keep}, reissuable : BOOLEAN]

(* CAssetCacheRestrictedVerifiers in a set to remove.                       *)
VerifierUndo == [verifier : STRING \cup {None}, undoingReissue : BOOLEAN]

ASSUME TxAssumption ==
    /\ Tx \subseteq TxFields
    /\ \A tx \in Tx : tx.kind = "issue" =>
          tx.units # Keep /\ tx.ipfs # Keep /\ tx.verifier # Keep
    /\ Keep # None /\ Keep \notin Nat /\ Keep \notin STRING
    /\ None \notin Meta /\ None \notin STRING /\ None \notin VerifierUndo
    /\ MaxMoney \in Nat /\ MaxHeight \in Nat /\ MaxTxs \in Nat

VARIABLES chain,     \* history: blocks, [txs, undo]
          passets,   \* the dirty sets and maps of the global cache
          metaLru,   \* passetsCache
          verLru,    \* passetsVerifierCache
          metaDB,    \* passetsdb: asset data
          verDB,     \* prestricteddb: verifier strings
          stale      \* history: assets whose issue was undone while the reissue
                     \* map had an entry, until a dump finds them gone

vars == <<chain, passets, metaLru, verLru, metaDB, verDB, stale>>

-----------------------------------------------------------------------------
Nothing == [n \in Asset |-> None]

(* A CAssetsCache: setNewAssetsToAdd and ...ToRemove, mapReissuedAssetData,
   setNewReissueToAdd and ...ToRemove, setNewRestrictedVerifierToAdd and
   ...ToRemove, the last with its fUndoingReissue.                          *)
Clean == [add |-> Nothing, rem |-> {}, reissued |-> Nothing,
          reAdd |-> {}, reRem |-> {}, verAdd |-> Nothing, verRem |-> Nothing]

Cache == [add : [Asset -> Meta \cup {None}], rem : SUBSET Asset,
          reissued : [Asset -> Meta \cup {None}], reAdd : SUBSET Tx, reRem : SUBSET Tx,
          verAdd : [Asset -> STRING \cup {None}], verRem : [Asset -> VerifierUndo \cup {None}]]

(* std::set::insert: an entry already there stays.                          *)
Inserted(f, n, v) == IF f[n] = None THEN [f EXCEPT ![n] = v] ELSE f

(* The first of two entries that is there.                                  *)
Or(x, y) == IF x # None THEN x ELSE y

(* CheckIfAssetExists: both removal sets are looked at before both sets of new
   assets, then the read cache and the database.                            *)
Exists(c, n) ==
    /\ n \notin c.rem /\ n \notin passets.rem
    /\ \/ c.add[n] # None \/ passets.add[n] # None
       \/ metaLru[n] # None \/ metaDB[n] # None

(* GetAssetMetaDataIfExists: the maps of reissued assets come first.        *)
MetaOf(c, n) ==
    IF Or(c.reissued[n], passets.reissued[n]) # None
    THEN Or(c.reissued[n], passets.reissued[n])
    ELSE IF n \in c.rem \cup passets.rem THEN None
    ELSE Or(Or(c.add[n], passets.add[n]), Or(metaLru[n], metaDB[n]))

(* GetAssetVerifierStringIfExists.                                          *)
VerifierOf(c, n) ==
    LET undo == Or(c.verRem[n], passets.verRem[n])
    IN IF undo # None
       THEN IF undo.undoingReissue THEN undo.verifier ELSE None
       ELSE Or(Or(c.verAdd[n], passets.verAdd[n]), Or(verLru[n], verDB[n]))

-----------------------------------------------------------------------------
(* CNewAsset of an issue.                                                   *)
NewMeta(tx) == [amount |-> tx.amount, units |-> tx.units,
                ipfs |-> tx.ipfs, reissuable |-> tx.reissuable]

(* AddNewAsset, which refuses a name that exists, and AddRestrictedVerifier,
   which AddCoins calls all the same.                                       *)
Issued(c, tx) ==
    LET d == IF Exists(c, tx.name) THEN c
             ELSE [c EXCEPT !.rem = @ \ {tx.name},
                            !.add = Inserted(@, tx.name, NewMeta(tx))]
    IN [d EXCEPT !.verRem[tx.name] = None,
                 !.verAdd = Inserted(@, tx.name, tx.verifier)]

Changed(new, old) == IF new = Keep THEN old ELSE new

ReissuedMeta(meta, tx) ==
    [amount |-> meta.amount + tx.amount, units |-> Changed(tx.units, meta.units),
     ipfs |-> Changed(tx.ipfs, meta.ipfs), reissuable |-> tx.reissuable]

(* AddReissueAsset, and AddRestrictedVerifier if the reissue names one.     *)
Reissued(c, tx) ==
    LET d == [c EXCEPT !.reissued[tx.name] = ReissuedMeta(MetaOf(c, tx.name), tx),
                       !.reRem = @ \ {tx},
                       !.reAdd = @ \cup {tx}]
    IN IF tx.verifier = Keep THEN d
       ELSE [d EXCEPT !.verRem[tx.name] = None,
                      !.verAdd = Inserted(@, tx.name, tx.verifier)]

(* CBlockAssetUndo: recorded only if the reissue changes one of the three.  *)
UndoOf(c, tx) ==
    IF tx.kind = "issue" \/ (tx.units = Keep /\ tx.ipfs = Keep /\ tx.verifier = Keep) THEN <<>>
    ELSE LET old == MetaOf(c, tx.name)
         IN <<[name |-> tx.name,
               units |-> IF tx.units = Keep THEN Keep ELSE old.units,
               ipfs |-> IF tx.ipfs = Keep THEN Keep ELSE old.ipfs,
               verifier |-> IF tx.verifier = Keep THEN Keep ELSE VerifierOf(c, tx.name)]>>

(* Variant: a new asset may have the name of an existing one.               *)
ValidAnyName(c, tx) ==
    IF tx.kind = "issue" THEN TRUE
    ELSE LET old == MetaOf(c, tx.name)
         IN /\ old # None
            /\ old.reissuable
            /\ old.amount + tx.amount <= MaxMoney
            /\ tx.units = Keep \/ tx.units >= old.units
            /\ tx.amount = 0 \/ tx.verifier # Keep \/ VerifierOf(c, tx.name) # None

(* ContextualCheckNewAsset and ContextualCheckReissueAsset.                 *)
Valid(c, tx) ==
    IF tx.kind = "issue" THEN ~Exists(c, tx.name)
    ELSE LET old == MetaOf(c, tx.name)
         IN /\ old # None
            /\ old.reissuable
            /\ old.amount + tx.amount <= MaxMoney
            /\ tx.units = Keep \/ tx.units >= old.units
            /\ tx.amount = 0 \/ tx.verifier # Keep \/ VerifierOf(c, tx.name) # None

(* One transaction of ConnectBlock: CheckTxAssets, then AddCoins.           *)
ConnectTx(s, tx) ==
    IF ~s.valid \/ ~Valid(s.cache, tx) THEN [s EXCEPT !.valid = FALSE]
    ELSE [valid |-> TRUE,
          cache |-> IF tx.kind = "issue" THEN Issued(s.cache, tx) ELSE Reissued(s.cache, tx),
          undo |-> s.undo \o UndoOf(s.cache, tx)]

(* The transactions of a block in order, on an empty cache.                 *)
Connected(txs) ==
    LET state[i \in 0..Len(txs)] ==
          IF i = 0 THEN [valid |-> TRUE, cache |-> Clean, undo |-> <<>>]
          ELSE ConnectTx(state[i - 1], txs[i])
    IN state[Len(txs)]

-----------------------------------------------------------------------------
(* Variant: the issue is undone and its verifier string stays.              *)
UndoneIssueKeepsVerifier(c, tx) ==
    IF Exists(c, tx.name)
    THEN [c EXCEPT !.add[tx.name] = None, !.rem = @ \cup {tx.name}] ELSE c

(* RemoveNewAsset if ContainsAsset, then RemoveRestrictedVerifier.          *)
UndoneIssue(c, tx) ==
    LET d == IF Exists(c, tx.name)
             THEN [c EXCEPT !.add[tx.name] = None, !.rem = @ \cup {tx.name}] ELSE c
    IN [d EXCEPT !.verAdd[tx.name] = None,
                 !.verRem = Inserted(@, tx.name, [verifier |-> tx.verifier,
                                                  undoingReissue |-> FALSE])]

(* The first undo entry of the block that names the asset.                  *)
ItemOf(undo, n) ==
    LET of == {i \in DOMAIN undo : undo[i].name = n}
    IN IF of = {} THEN [name |-> n, units |-> Keep, ipfs |-> Keep, verifier |-> Keep]
       ELSE undo[CHOOSE i \in of : \A j \in of : i <= j]

(* RemoveReissueAsset if ContainsAsset.                                     *)
UndoneReissue(c, tx, undo) ==
    LET old == MetaOf(c, tx.name)
        item == ItemOf(undo, tx.name)
        d == [c EXCEPT !.reissued[tx.name] =
                          [amount |-> old.amount - tx.amount, reissuable |-> TRUE,
                           units |-> Changed(item.units, old.units),
                           ipfs |-> Changed(item.ipfs, old.ipfs)],
                       !.reAdd = @ \ {tx},
                       !.reRem = @ \cup {tx}]
    IN IF ~Exists(c, tx.name) THEN c
       ELSE IF item.verifier = Keep THEN d
       ELSE [d EXCEPT !.verAdd[tx.name] = None,
                      !.verRem = Inserted(@, tx.name, [verifier |-> item.verifier,
                                                       undoingReissue |-> TRUE])]

UndoTx(c, tx, undo) ==
    IF tx.kind = "issue" THEN UndoneIssue(c, tx) ELSE UndoneReissue(c, tx, undo)

(* The transactions of a block, the last one first.                         *)
Undone(b) ==
    LET cache[i \in 0..Len(b.txs)] ==
          IF i = 0 THEN Clean ELSE UndoTx(cache[i - 1], b.txs[Len(b.txs) + 1 - i], b.undo)
    IN cache[Len(b.txs)]

(* Variant: a new asset does not cancel a removal that passets still holds. *)
FlushedKeepsRemoval(c, p) ==
    [add |-> [n \in Asset |-> IF n \in c.rem THEN None ELSE Or(p.add[n], c.add[n])],
     rem |-> p.rem \cup c.rem,
     reissued |-> [n \in Asset |-> Or(c.reissued[n], p.reissued[n])],
     reAdd |-> (p.reAdd \cup c.reAdd) \ c.reRem,
     reRem |-> (p.reRem \ c.reAdd) \cup c.reRem,
     verAdd |-> [n \in Asset |-> IF c.verRem[n] # None THEN None ELSE Or(c.verAdd[n], p.verAdd[n])],
     verRem |-> [n \in Asset |-> IF c.verAdd[n] # None THEN c.verRem[n]
                                 ELSE Or(c.verRem[n], p.verRem[n])]]

(* Flush of a block's cache into passets.                                   *)
Flushed(c, p) ==
    [add |-> [n \in Asset |-> IF n \in c.rem THEN None ELSE Or(p.add[n], c.add[n])],
     rem |-> {n \in p.rem : c.add[n] = None} \cup c.rem,
     reissued |-> [n \in Asset |-> Or(c.reissued[n], p.reissued[n])],
     reAdd |-> (p.reAdd \cup c.reAdd) \ c.reRem,
     reRem |-> (p.reRem \ c.reAdd) \cup c.reRem,
     verAdd |-> [n \in Asset |-> IF c.verRem[n] # None THEN None ELSE Or(c.verAdd[n], p.verAdd[n])],
     verRem |-> [n \in Asset |-> IF c.verAdd[n] # None THEN c.verRem[n]
                                 ELSE Or(c.verRem[n], p.verRem[n])]]

-----------------------------------------------------------------------------
(* The places of the transactions of the active chain.                      *)
Places == UNION {{<<h, i>> : i \in DOMAIN chain[h].txs} : h \in DOMAIN chain}

TxAt(p) == chain[p[1]].txs[p[2]]

Named(n) == \E p \in Places : TxAt(p).name = n

Init == /\ chain = <<>>
        /\ passets = Clean
        /\ metaLru = Nothing /\ verLru = Nothing
        /\ metaDB = Nothing /\ verDB = Nothing
        /\ stale = {}

Mined == {TxAt(p) : p \in Places}

Blocks == UNION {[1..k -> Tx \ Mined] : k \in 1..MaxTxs}

(* ConnectTip, for a block that ConnectBlock accepts.  A transaction is in the
   chain at most once.                                                      *)
ConnectTip(txs) ==
    /\ Len(chain) < MaxHeight
    /\ \A i, j \in DOMAIN txs : txs[i] = txs[j] => i = j
    /\ LET s == Connected(txs)
       IN /\ s.valid
          /\ passets' = Flushed(s.cache, passets)
          /\ chain' = Append(chain, [txs |-> txs, undo |-> s.undo])
    /\ UNCHANGED <<metaLru, verLru, metaDB, verDB, stale>>

DisconnectTip ==
    /\ chain # <<>>
    /\ passets' = Flushed(Undone(chain[Len(chain)]), passets)
    /\ chain' = SubSeq(chain, 1, Len(chain) - 1)
    /\ stale' = stale \cup {n \in passets'.rem : passets'.reissued[n] # None}
    /\ UNCHANGED <<metaLru, verLru, metaDB, verDB>>

(* A look-up served by the database fills a read cache; any look-up may find
   that the entry has been evicted since.                                   *)
ReadMeta(n) ==
    /\ metaLru' = [metaLru EXCEPT ![n] = IF @ = None THEN metaDB[n] ELSE None]
    /\ metaLru' # metaLru
    /\ UNCHANGED <<chain, passets, verLru, metaDB, verDB, stale>>

ReadVerifier(n) ==
    /\ verLru' = [verLru EXCEPT ![n] = IF @ = None THEN verDB[n] ELSE None]
    /\ verLru' # verLru
    /\ UNCHANGED <<chain, passets, metaLru, metaDB, verDB, stale>>

(* The assets whose reissue entry DumpCacheToDatabase writes: those with a new
   reissue, and those with an undone one unless their issue is undone too.  *)
Rewritten == {n \in Asset : /\ passets.reissued[n] # None
                            /\ \/ \E tx \in passets.reAdd : tx.name = n
                               \/ n \notin passets.rem /\ \E tx \in passets.reRem : tx.name = n}

(* Variant: a written reissue leaves the asset in passetsCache.             *)
DumpedMetaLruStale(n) ==
    IF n \in passets.rem THEN None ELSE Or(passets.add[n], metaLru[n])

(* What DumpCacheToDatabase does to passetsCache.                           *)
DumpedMetaLru(n) ==
    IF n \in Rewritten \/ n \in passets.rem THEN None ELSE Or(passets.add[n], metaLru[n])

DumpedVerifier(n) ==
    LET undo == passets.verRem[n]
    IN IF undo # None THEN (IF undo.undoingReissue THEN undo.verifier ELSE None)
       ELSE Or(passets.verAdd[n], IF n \in passets.rem THEN None ELSE verDB[n])

(* DumpCacheToDatabase, all writes succeeding.                              *)
DumpCacheToDatabase ==
    /\ passets # Clean
    /\ metaDB' = [n \in Asset |->
                    IF n \in Rewritten THEN passets.reissued[n]
                    ELSE Or(passets.add[n], IF n \in passets.rem THEN None ELSE metaDB[n])]
    /\ metaLru' = [n \in Asset |-> DumpedMetaLru(n)]
    /\ verDB' = [n \in Asset |-> DumpedVerifier(n)]
    /\ verLru' = [n \in Asset |-> IF passets.verAdd[n] # None \/ passets.verRem[n] # None
                                  THEN None ELSE verLru[n]]
    /\ passets' = Clean
    /\ stale' = {n \in stale : n \notin passets.rem \/ n \in Rewritten \/ Named(n)}
    /\ UNCHANGED chain

Next == \/ \E txs \in Blocks : ConnectTip(txs)
        \/ DisconnectTip
        \/ \E n \in Asset : ReadMeta(n) \/ ReadVerifier(n)
        \/ DumpCacheToDatabase

Spec == Init /\ [][Next]_vars

(* No two transactions of a block are of one asset.  Blocks put together from a
   mempool are such: it takes no issue of a name that a pooled issue has
   (ContextualCheckNewAsset with fCheckMempool), no reissue of an asset that is
   not in the chain, and one reissue of an asset at a time (mapReissuedAssets).
   ConnectBlock accepts others.                                             *)
OnePerAsset(txs) == \A i, j \in DOMAIN txs : txs[i].name = txs[j].name => i = j

MempoolNext == \/ \E txs \in Blocks : OnePerAsset(txs) /\ ConnectTip(txs)
               \/ DisconnectTip
               \/ \E n \in Asset : ReadMeta(n) \/ ReadVerifier(n)
               \/ DumpCacheToDatabase

MempoolSpec == Init /\ [][MempoolNext]_vars

-----------------------------------------------------------------------------
(* What is said of an asset: its metadata and its verifier string.          *)
Said == [meta : Meta \cup {None}, verifier : STRING \cup {None}]

(* What a transaction makes of what is said of n.                           *)
SaidAfter(tx, n, said) ==
    IF tx.name # n THEN said
    ELSE [meta |-> IF tx.kind = "issue" THEN NewMeta(tx)
                   ELSE IF said.meta = None THEN None ELSE ReissuedMeta(said.meta, tx),
          verifier |-> Changed(tx.verifier, said.verifier)]

SaidByBlock(txs, n, said) ==
    LET after[i \in 0..Len(txs)] ==
          IF i = 0 THEN said ELSE SaidAfter(txs[i], n, after[i - 1])
    IN after[Len(txs)]

(* What the blocks of a chain say of n, up to each height.                  *)
SaidUpTo(blocks, n) ==
    LET after[h \in 0..Len(blocks)] ==
          IF h = 0 THEN [meta |-> None, verifier |-> None]
          ELSE SaidByBlock(blocks[h].txs, n, after[h - 1])
    IN after

ChainMeta(n) == SaidUpTo(chain, n)[Len(chain)].meta

ChainVerifier(n) == SaidUpTo(chain, n)[Len(chain)].verifier

UndoItem == [name : Asset, units : Nat \cup {Keep}, ipfs : STRING \cup {Keep},
             verifier : STRING \cup {Keep, None}]

TypeOK ==
    /\ chain \in Seq([txs : Seq(Tx), undo : Seq(UndoItem)]) /\ Len(chain) <= MaxHeight
    /\ passets \in Cache /\ \A n \in passets.rem : passets.add[n] = None
    /\ metaDB \in [Asset -> Meta \cup {None}] /\ metaLru \in [Asset -> Meta \cup {None}]
    /\ verDB \in [Asset -> STRING \cup {None}] /\ verLru \in [Asset -> STRING \cup {None}]
    /\ stale \subseteq Asset

(* An asset exists for CheckIfAssetExists exactly if the active chain issued it,
   after any reorganisation; the assets in stale are excepted.  So no name is
   issued twice on the active chain, stale or not.                          *)
ExistsMatchesChain ==
    \A n \in Asset :
        LET issues == {p \in Places : TxAt(p).name = n /\ TxAt(p).kind = "issue"}
        IN /\ \A p, q \in issues : p = q
           /\ n \notin stale => (Exists(passets, n) <=> issues # {})

(* The metadata a look-up returns is what the active chain's issue and reissues
   make it, after any reorganisation and whenever the caches were dumped,
   but for the assets in stale.                                             *)
MetaMatchesChainUnlessStale ==
    \A n \in Asset \ stale : MetaOf(passets, n) = ChainMeta(n)

(* The same without exception: DumpCacheToDatabase expects that "the removal of
   the issue should remove all data pertaining the to asset".               *)
MetaMatchesChain == \A n \in Asset : MetaOf(passets, n) = ChainMeta(n)

(* The verifier string a look-up returns is the last one on the active chain;
   again the assets in stale are excepted.                                  *)
VerifierMatchesChain == \A n \in Asset \ stale : VerifierOf(passets, n) = ChainVerifier(n)
==============================================================================
