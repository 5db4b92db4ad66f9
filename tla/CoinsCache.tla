----------------------------- MODULE CoinsCache ------------------------------
(***************************************************************************)
(* The two caches above the coin database (src/src/coins.cpp): pcoinsTip,  *)
(* and the CCoinsViewCache that ConnectTip and DisconnectTip open on top   *)
(* of it for the length of one block.  Every step is one call on a view,   *)
(* made with cs_main held; the calls a block makes arrive in any order     *)
(* that respects what ConnectBlock and DisconnectBlock check first.        *)
(*                                                                         *)
(* A batch written to the database is one step here; batches cut short by  *)
(* a crash are the subject of ChainstateFlush.tla.                         *)
(***************************************************************************)
EXTENDS FiniteSets

CONSTANTS COutPoint,  \* COutPoint
          Coin,      \* contents of an unspent Coin
          Spent,     \* Coin::IsSpent()
          NoEntry    \* cacheCoins.find() == end()

Flag == {"DIRTY", "FRESH"}

(* Of the four sets of flags, FRESH alone has no use: a flush skips entries
   that are not DIRTY.                                                      *)
CCoinsCacheEntry ==
    [coin : Coin \cup {Spent}, flags : {f \in SUBSET Flag : "FRESH" \in f => "DIRTY" \in f}]

ASSUME SpentAssumption == Spent \notin Coin
ASSUME NoEntryAssumption == NoEntry \notin CCoinsCacheEntry

VARIABLES pcoinsdbview,  \* outpoint -> coin, Spent where there is no key
          pcoinsTip,     \* its cacheCoins
          view,    \* cacheCoins of the view opened for one block
          open,    \* that view exists
          thrown   \* a std::logic_error left AddCoin or BatchWrite

coinsVars == <<pcoinsdbview, pcoinsTip, view, open, thrown>>

Empty == [o \in COutPoint |-> NoEntry]

-----------------------------------------------------------------------------
(* The calls, as functions of one cache entry.                              *)

(* FetchCoin: a coin of the parent is copied up with no flag.  GetCoin of a
   parent fails on a spent coin, so nothing is copied up then.              *)
Fetched(e, below) ==
    IF e # NoEntry \/ below = Spent THEN e ELSE [coin |-> below, flags |-> {}]

CoinOf(e, below) == IF e = NoEntry THEN below ELSE e.coin

FlagsOf(e) == IF e = NoEntry THEN {} ELSE e.flags

(* Variant: fresh whenever the caller rules out an overwrite.               *)
AddedAlwaysFresh(e, c, possible_overwrite) ==
    [coin |-> c, flags |-> FlagsOf(e) \cup {"DIRTY"} \cup
                           (IF possible_overwrite THEN {} ELSE {"FRESH"})]

(* Variant: DIRTY is set only where FRESH is not.                           *)
AddedFreshOrDirty(e, c, possible_overwrite) ==
    [coin |-> c, flags |-> FlagsOf(e) \cup
        (IF possible_overwrite \/ "DIRTY" \in FlagsOf(e) THEN {"DIRTY"} ELSE {"FRESH"})]

(* AddCoin: FRESH only if no overwrite is possible and the entry the cache
   already has was not DIRTY.  It does not look at the parent.              *)
Added(e, c, possible_overwrite) ==
    [coin |-> c, flags |-> FlagsOf(e) \cup {"DIRTY"} \cup
        (IF possible_overwrite \/ "DIRTY" \in FlagsOf(e) THEN {} ELSE {"FRESH"})]

AddThrows(e, possible_overwrite) ==
    ~possible_overwrite /\ CoinOf(e, Spent) # Spent

(* SpendCoin after FetchCoin found an entry.                                *)
SpentEntry(e) ==
    IF "FRESH" \in e.flags THEN NoEntry
    ELSE [coin |-> Spent, flags |-> e.flags \cup {"DIRTY"}]

(* Variant: the FRESH flag of the child is copied onto an existing entry.   *)
MergedKeepsFresh(child, parent) ==
    IF "DIRTY" \notin FlagsOf(child) THEN parent
    ELSE IF parent = NoEntry
         THEN IF "FRESH" \in child.flags /\ child.coin = Spent THEN NoEntry
              ELSE [coin |-> child.coin, flags |-> child.flags]
         ELSE IF "FRESH" \in parent.flags /\ child.coin = Spent THEN NoEntry
              ELSE [coin |-> child.coin, flags |-> parent.flags \cup child.flags]

(* CCoinsViewCache::BatchWrite for one entry of the child.                  *)
Merged(child, parent) ==
    IF "DIRTY" \notin FlagsOf(child) THEN parent
    ELSE IF parent = NoEntry
         THEN IF "FRESH" \in child.flags /\ child.coin = Spent THEN NoEntry
              ELSE [coin |-> child.coin, flags |-> {"DIRTY"} \cup (child.flags \cap {"FRESH"})]
         ELSE IF "FRESH" \in parent.flags /\ child.coin = Spent THEN NoEntry
              ELSE [coin |-> child.coin, flags |-> parent.flags \cup {"DIRTY"}]

MergeThrows(child, parent) ==
    /\ {"DIRTY", "FRESH"} \subseteq FlagsOf(child)
    /\ CoinOf(parent, Spent) # Spent

(* Variant: spent entries are not erased from the database.                 *)
WrittenKeepsSpent(e, below) ==
    IF "DIRTY" \in FlagsOf(e) /\ e.coin # Spent THEN e.coin ELSE below

(* CCoinsViewDB::BatchWrite for one entry: erase if spent, else write.      *)
Written(e, below) == IF "DIRTY" \in FlagsOf(e) THEN e.coin ELSE below

-----------------------------------------------------------------------------
TipCoin(o) == CoinOf(pcoinsTip[o], pcoinsdbview[o])

ViewCoin(o) == CoinOf(view[o], TipCoin(o))

(* FetchCoin on the view asks the tip, whose own FetchCoin caches too.      *)
TipAfterFetch(o) ==
    IF view[o] = NoEntry THEN [pcoinsTip EXCEPT ![o] = Fetched(pcoinsTip[o], pcoinsdbview[o])]
    ELSE pcoinsTip

ViewAfterFetch(o) == Fetched(view[o], TipCoin(o))

CoinsInit == /\ pcoinsdbview = [o \in COutPoint |-> Spent]
             /\ pcoinsTip = Empty
             /\ view = Empty
             /\ open = FALSE
             /\ thrown = FALSE

Begin == /\ ~open /\ ~thrown
         /\ open' = TRUE
         /\ UNCHANGED <<pcoinsdbview, pcoinsTip, view, thrown>>

(* HaveCoin and AccessCoin on the block's view.                             *)
Fetch(o) == /\ open /\ ~thrown
            /\ pcoinsTip' = TipAfterFetch(o)
            /\ view' = [view EXCEPT ![o] = ViewAfterFetch(o)]
            /\ UNCHANGED <<pcoinsdbview, open, thrown>>

(* AddCoins(check = false) for a transaction that is not a coinbase: its id is
   the hash of inputs that are unspent, so no coin of that id exists.       *)
AddNew(o, c) ==
    /\ open /\ ~thrown
    /\ ViewCoin(o) = Spent
    /\ thrown' = AddThrows(view[o], FALSE)
    /\ view' = IF thrown' THEN view ELSE [view EXCEPT ![o] = Added(view[o], c, FALSE)]
    /\ UNCHANGED <<pcoinsdbview, pcoinsTip, open>>

(* AddCoins for a coinbase: an overwrite is always taken to be possible.    *)
AddCoinbase(o, c) ==
    /\ open /\ ~thrown
    /\ view' = [view EXCEPT ![o] = Added(view[o], c, TRUE)]
    /\ UNCHANGED <<pcoinsdbview, pcoinsTip, open, thrown>>

(* ApplyTxInUndo, and AddCoins(check = true) of RollforwardBlock: HaveCoin
   first, and its answer is the possible_overwrite argument.                *)
ApplyTxInUndo(o, c) ==
    /\ open /\ ~thrown
    /\ pcoinsTip' = TipAfterFetch(o)
    /\ LET e == ViewAfterFetch(o)
           have == CoinOf(e, Spent) # Spent
       IN /\ thrown' = AddThrows(e, have)
          /\ view' = [view EXCEPT ![o] = IF thrown' THEN e ELSE Added(e, c, have)]
    /\ UNCHANGED <<pcoinsdbview, open>>

(* SpendCoin: false, with nothing changed, when no entry is found.          *)
SpendCoin(o) ==
    /\ open /\ ~thrown
    /\ pcoinsTip' = TipAfterFetch(o)
    /\ LET e == ViewAfterFetch(o)
       IN view' = [view EXCEPT ![o] = IF e = NoEntry THEN e ELSE SpentEntry(e)]
    /\ UNCHANGED <<pcoinsdbview, open, thrown>>

(* view.Flush() at the end of ConnectTip and DisconnectTip.                 *)
FlushView ==
    /\ open /\ ~thrown
    /\ thrown' = \E o \in COutPoint : MergeThrows(view[o], pcoinsTip[o])
    /\ pcoinsTip' = IF thrown' THEN pcoinsTip ELSE [o \in COutPoint |-> Merged(view[o], pcoinsTip[o])]
    /\ view' = IF thrown' THEN view ELSE Empty
    /\ open' = thrown'
    /\ UNCHANGED pcoinsdbview

(* The view goes out of scope unflushed: ConnectBlock or DisconnectBlock
   failed, or the caller was TestBlockValidity.                             *)
DropView == /\ open /\ ~thrown
            /\ view' = Empty
            /\ open' = FALSE
            /\ UNCHANGED <<pcoinsdbview, pcoinsTip, thrown>>

(* Reads of pcoinsTip between blocks, by the mempool, RPC and the miner.    *)
TipFetch(o) == /\ ~open /\ ~thrown
               /\ pcoinsTip' = [pcoinsTip EXCEPT ![o] = Fetched(pcoinsTip[o], pcoinsdbview[o])]
               /\ UNCHANGED <<pcoinsdbview, view, open, thrown>>

(* Uncache, called for what a rejected transaction fetched.                 *)
Uncache(o) == /\ ~open /\ ~thrown
              /\ pcoinsTip[o] # NoEntry /\ pcoinsTip[o].flags = {}
              /\ pcoinsTip' = [pcoinsTip EXCEPT ![o] = NoEntry]
              /\ UNCHANGED <<pcoinsdbview, view, open, thrown>>

(* pcoinsTip->Flush() in FlushStateToDisk.                                  *)
FlushTip == /\ ~open /\ ~thrown
            /\ pcoinsdbview' = [o \in COutPoint |-> Written(pcoinsTip[o], pcoinsdbview[o])]
            /\ pcoinsTip' = Empty
            /\ UNCHANGED <<view, open, thrown>>

(* The process dies; the database keeps what was flushed.                   *)
CoinsCrash == /\ pcoinsTip' = Empty
              /\ view' = Empty
              /\ open' = FALSE
              /\ thrown' = FALSE
              /\ UNCHANGED pcoinsdbview

CoinsNext == \/ Begin \/ FlushView \/ DropView \/ FlushTip \/ CoinsCrash
             \/ \E o \in COutPoint : Fetch(o) \/ SpendCoin(o) \/ TipFetch(o) \/ Uncache(o)
             \/ \E o \in COutPoint, c \in Coin :
                   AddNew(o, c) \/ AddCoinbase(o, c) \/ ApplyTxInUndo(o, c)

CoinsSpec == CoinsInit /\ [][CoinsNext]_coinsVars

-----------------------------------------------------------------------------
CoinsTypeOK == /\ pcoinsdbview \in [COutPoint -> Coin \cup {Spent}]
               /\ pcoinsTip \in [COutPoint -> CCoinsCacheEntry \cup {NoEntry}]
               /\ view \in [COutPoint -> CCoinsCacheEntry \cup {NoEntry}]
               /\ open \in BOOLEAN
               /\ thrown \in BOOLEAN

(* An entry agrees with the layer below it unless it says otherwise: without
   DIRTY it repeats the parent's coin, so Uncache and a flush may forget it;
   with FRESH the parent holds no coin, so spending it may forget it too, and
   the entry itself is an unspent coin.                                     *)
Coherent(e, below) ==
    /\ "DIRTY" \notin FlagsOf(e) => CoinOf(e, below) = below
    /\ "FRESH" \in FlagsOf(e) => e.coin # Spent /\ below = Spent

(* Both caches are coherent with what lies below them (coins.h describes the
   flags; AddCoin, SpendCoin, BatchWrite and Uncache rely on this).         *)
CachesCoherent == \A o \in COutPoint : /\ Coherent(pcoinsTip[o], pcoinsdbview[o])
                                       /\ Coherent(view[o], TipCoin(o))

(* Neither "Adding new coin that replaces non-pruned entry" (AddCoin) nor
   "FRESH flag misapplied" (BatchWrite) is ever thrown.                     *)
NoLogicError == ~thrown

(* A closed view leaves nothing behind.                                     *)
ClosedViewEmpty == ~open => view = Empty

Inv == CoinsTypeOK /\ CachesCoherent /\ NoLogicError /\ ClosedViewEmpty

(* The caches implement one map with transactions: reading through the tip
   gives the committed map, reading through the block's view the working one,
   whatever was fetched, uncached, flushed or lost in a crash.              *)
Abstract == INSTANCE CoinStore WITH
    durable <- pcoinsdbview,
    committed <- [o \in COutPoint |-> TipCoin(o)],
    working <- [o \in COutPoint |-> ViewCoin(o)]

ImplementsCoinStore == Abstract!Spec
==============================================================================
