------------------------- MODULE LayeredCacheProofs --------------------------
(***************************************************************************)
(* Proofs about the two caches that layers of overrides keep above a       *)
(* database: the coin caches (module CoinsCache) and the tags and freezes  *)
(* of addresses (module RestrictedTags).                                   *)
(*                                                                         *)
(* For every set of outpoints and coins: the coin caches stay coherent, no *)
(* logic_error is thrown, and they implement CoinStore.tla.  For any names *)
(* and addresses, any length of the chain and any number of outputs in a   *)
(* block: the answers about tags and freezes are those of the chain.       *)
(***************************************************************************)
EXTENDS CoinsCache, RestrictedTags, TLAPS

-----------------------------------------------------------------------------
(* The coin caches.                                                         *)

(* What each call makes of one entry: its type, its coin and its coherence. *)

Slot == CCoinsCacheEntry \cup {NoEntry}
Content == Coin \cup {Spent}

(* FetchCoin changes what no one reads: a coherent entry keeps its coin.    *)
LEMMA FetchedFacts ==
    ASSUME NEW e \in Slot, NEW below \in Content, Coherent(e, below)
    PROVE  /\ Fetched(e, below) \in Slot
           /\ Coherent(Fetched(e, below), below)
           /\ CoinOf(Fetched(e, below), below) = CoinOf(e, below)
           /\ Fetched(e, below) = NoEntry => below = Spent
  BY NoEntryAssumption DEF Slot, Content, Fetched, Coherent, CoinOf, FlagsOf, CCoinsCacheEntry, Flag

(* AddCoin stores the coin; its FRESH flag is right when the caller was right
   that there was nothing to overwrite.                                     *)
LEMMA AddedFacts ==
    ASSUME NEW e \in Slot, NEW below \in Content, NEW c \in Coin,
           NEW overwrite \in BOOLEAN, Coherent(e, below),
           overwrite \/ CoinOf(e, below) = Spent
    PROVE  /\ Added(e, c, overwrite) \in CCoinsCacheEntry
           /\ Coherent(Added(e, c, overwrite), below)
           /\ Added(e, c, overwrite).coin = c
  BY NoEntryAssumption, SpentAssumption
  DEF Slot, Content, Added, Coherent, CoinOf, FlagsOf, CCoinsCacheEntry, Flag

(* SpendCoin leaves no coin to read, even where it forgets the entry.       *)
LEMMA SpentFacts ==
    ASSUME NEW e \in CCoinsCacheEntry, NEW below \in Content, Coherent(e, below)
    PROVE  /\ SpentEntry(e) \in Slot
           /\ Coherent(SpentEntry(e), below)
           /\ CoinOf(SpentEntry(e), below) = Spent
  BY NoEntryAssumption DEF Slot, Content, SpentEntry, Coherent, CoinOf, FlagsOf, CCoinsCacheEntry, Flag

(* BatchWrite into a cache: no FRESH flag is misapplied, and the parent then
   reads as the child did.                                                  *)
LEMMA MergedFacts ==
    ASSUME NEW child \in Slot, NEW parent \in Slot, NEW below \in Content,
           Coherent(parent, below), Coherent(child, CoinOf(parent, below))
    PROVE  /\ ~MergeThrows(child, parent)
           /\ Merged(child, parent) \in Slot
           /\ Coherent(Merged(child, parent), below)
           /\ CoinOf(Merged(child, parent), below) = CoinOf(child, CoinOf(parent, below))
  BY NoEntryAssumption
  DEF Slot, Content, Merged, MergeThrows, Coherent, CoinOf, FlagsOf, CCoinsCacheEntry, Flag

(* BatchWrite into the database: what was read through the cache is stored. *)
LEMMA WrittenFacts ==
    ASSUME NEW e \in Slot, NEW below \in Content, Coherent(e, below)
    PROVE  Written(e, below) \in Content /\ Written(e, below) = CoinOf(e, below)
  BY NoEntryAssumption DEF Slot, Content, Written, Coherent, CoinOf, FlagsOf, CCoinsCacheEntry, Flag

(* No entry is coherent with anything, and reads as what lies below.        *)
LEMMA NoEntryFacts ==
    ASSUME NEW below PROVE Coherent(NoEntry, below) /\ CoinOf(NoEntry, below) = below
  BY DEF Coherent, CoinOf, FlagsOf

-----------------------------------------------------------------------------
(* Each action, on the invariant and on what can be read.                   *)

SameTip == \A p \in COutPoint : TipCoin(p)' = TipCoin(p)
SameView == \A p \in COutPoint : ViewCoin(p)' = ViewCoin(p)

(* Reading a layer is well typed.                                           *)
LEMMA LookupType ==
    ASSUME Inv, NEW o \in COutPoint
    PROVE  /\ pcoinsTip[o] \in Slot /\ view[o] \in Slot /\ pcoinsdbview[o] \in Content
           /\ TipCoin(o) \in Content /\ ViewCoin(o) \in Content
           /\ Coherent(pcoinsTip[o], pcoinsdbview[o]) /\ Coherent(view[o], TipCoin(o))
  BY DEF Inv, CoinsTypeOK, CachesCoherent, Slot, Content, TipCoin, ViewCoin, CoinOf, CCoinsCacheEntry

(* FetchCoin through the view: neither layer reads differently afterwards.  *)
LEMMA TipFetchFacts ==
    ASSUME Inv, NEW o \in COutPoint, pcoinsTip' = TipAfterFetch(o), pcoinsdbview' = pcoinsdbview
    PROVE  /\ pcoinsTip' \in [COutPoint -> Slot]
           /\ SameTip
           /\ \A p \in COutPoint : Coherent(pcoinsTip'[p], pcoinsdbview[p])
           /\ ViewAfterFetch(o) \in Slot
           /\ Coherent(ViewAfterFetch(o), TipCoin(o))
           /\ CoinOf(ViewAfterFetch(o), TipCoin(o)) = ViewCoin(o)
           /\ ViewAfterFetch(o) = NoEntry => TipCoin(o) = Spent
  <1>1. pcoinsTip \in [COutPoint -> Slot]
    BY DEF Inv, CoinsTypeOK, Slot
  <1>2. /\ Fetched(pcoinsTip[o], pcoinsdbview[o]) \in Slot
        /\ Coherent(Fetched(pcoinsTip[o], pcoinsdbview[o]), pcoinsdbview[o])
        /\ CoinOf(Fetched(pcoinsTip[o], pcoinsdbview[o]), pcoinsdbview[o]) = TipCoin(o)
    BY LookupType, FetchedFacts DEF TipCoin
  <1>3. pcoinsTip' \in [COutPoint -> Slot]
    BY <1>1, <1>2 DEF TipAfterFetch
  <1>4. \A p \in COutPoint : pcoinsTip'[p] = pcoinsTip[p] \/ (p = o /\ pcoinsTip'[p] = Fetched(pcoinsTip[o], pcoinsdbview[o]))
    BY <1>1 DEF TipAfterFetch
  <1>5. SameTip
    BY <1>2, <1>4 DEF SameTip, TipCoin
  <1>6. \A p \in COutPoint : Coherent(pcoinsTip'[p], pcoinsdbview[p])
    BY <1>2, <1>4, LookupType
  <1>7. QED
    BY <1>3, <1>5, <1>6, LookupType, FetchedFacts DEF ViewAfterFetch, ViewCoin

(* A step that replaces one entry of the view by a coherent one.            *)
LEMMA OneEntry ==
    ASSUME Inv, NEW o \in COutPoint, NEW e \in Slot,
           pcoinsdbview' = pcoinsdbview, pcoinsTip' \in [COutPoint -> Slot], SameTip,
           \A p \in COutPoint : Coherent(pcoinsTip'[p], pcoinsdbview[p]),
           view' = [view EXCEPT ![o] = e], Coherent(e, TipCoin(o)),
           open, UNCHANGED open, thrown' = FALSE
    PROVE  /\ Inv'
           /\ \A p \in COutPoint : ViewCoin(p)' = IF p = o THEN CoinOf(e, TipCoin(o)) ELSE ViewCoin(p)
  <1>1. view \in [COutPoint -> Slot]
    BY DEF Inv, CoinsTypeOK, Slot
  <1>2. view' \in [COutPoint -> Slot]
    BY <1>1
  <1>3. \A p \in COutPoint : view'[p] = IF p = o THEN e ELSE view[p]
    BY <1>1
  <1>4. \A p \in COutPoint : Coherent(view'[p], TipCoin(p)')
    BY <1>3, LookupType DEF SameTip
  <1>5. CachesCoherent'
    BY <1>4 DEF CachesCoherent
  <1>6. CoinsTypeOK'
    <2>1. pcoinsdbview' \in [COutPoint -> Coin \cup {Spent}] /\ open' \in BOOLEAN /\ thrown' \in BOOLEAN
      BY DEF Inv, CoinsTypeOK, NoLogicError
    <2>2. QED
      BY <1>2, <2>1 DEF CoinsTypeOK, Slot
  <1>7. Inv'
    BY <1>5, <1>6 DEF Inv, NoLogicError, ClosedViewEmpty
  <1>8. \A p \in COutPoint : ViewCoin(p)' = CoinOf(view'[p], TipCoin(p))
    BY DEF ViewCoin, SameTip
  <1>9. QED
    BY <1>3, <1>7, <1>8 DEF ViewCoin

(* HaveCoin and AccessCoin on the view.                                     *)
LEMMA FetchStep ==
    ASSUME Inv, NEW o \in COutPoint, Fetch(o)
    PROVE  Inv' /\ SameTip /\ SameView
  <1>1. pcoinsdbview' = pcoinsdbview /\ pcoinsTip' = TipAfterFetch(o) /\ thrown' = FALSE
    BY DEF Fetch, Inv, CoinsTypeOK
  <1>2. QED
    BY <1>1, TipFetchFacts, OneEntry DEF Fetch, SameView

(* AddCoins for a new transaction.                                          *)
LEMMA AddNewStep ==
    ASSUME Inv, NEW o \in COutPoint, NEW c \in Coin, AddNew(o, c)
    PROVE  /\ Inv' /\ SameTip
           /\ \A p \in COutPoint : ViewCoin(p)' = IF p = o THEN c ELSE ViewCoin(p)
  <1>1. ~AddThrows(view[o], FALSE)
    BY DEF AddNew, AddThrows, ViewCoin, CoinOf
  <1>2. /\ Added(view[o], c, FALSE) \in CCoinsCacheEntry
        /\ Coherent(Added(view[o], c, FALSE), TipCoin(o))
        /\ Added(view[o], c, FALSE).coin = c
    BY LookupType, AddedFacts DEF AddNew, ViewCoin
  <1>3. /\ thrown' = FALSE /\ pcoinsdbview' = pcoinsdbview /\ pcoinsTip' = pcoinsTip /\ open /\ UNCHANGED open
        /\ view' = [view EXCEPT ![o] = Added(view[o], c, FALSE)]
    BY <1>1 DEF AddNew, AddThrows
  <1>4. SameTip /\ pcoinsTip' \in [COutPoint -> Slot] /\ \A p \in COutPoint : Coherent(pcoinsTip'[p], pcoinsdbview[p])
    BY <1>3, LookupType DEF SameTip, TipCoin, Inv, CoinsTypeOK, Slot
  <1>5. CoinOf(Added(view[o], c, FALSE), TipCoin(o)) = c
    BY <1>2, NoEntryAssumption DEF CoinOf
  <1>6. QED
    BY <1>2, <1>3, <1>4, <1>5, OneEntry DEF Slot

(* AddCoins for a coinbase.                                                 *)
LEMMA AddCoinbaseStep ==
    ASSUME Inv, NEW o \in COutPoint, NEW c \in Coin, AddCoinbase(o, c)
    PROVE  /\ Inv' /\ SameTip
           /\ \A p \in COutPoint : ViewCoin(p)' = IF p = o THEN c ELSE ViewCoin(p)
  <1>1. /\ Added(view[o], c, TRUE) \in CCoinsCacheEntry
        /\ Coherent(Added(view[o], c, TRUE), TipCoin(o))
        /\ Added(view[o], c, TRUE).coin = c
    BY LookupType, AddedFacts
  <1>2. /\ thrown' = FALSE /\ pcoinsdbview' = pcoinsdbview /\ pcoinsTip' = pcoinsTip /\ open /\ UNCHANGED open
        /\ view' = [view EXCEPT ![o] = Added(view[o], c, TRUE)]
    BY DEF AddCoinbase, Inv, CoinsTypeOK
  <1>3. SameTip /\ pcoinsTip' \in [COutPoint -> Slot] /\ \A p \in COutPoint : Coherent(pcoinsTip'[p], pcoinsdbview[p])
    BY <1>2, LookupType DEF SameTip, TipCoin, Inv, CoinsTypeOK, Slot
  <1>4. CoinOf(Added(view[o], c, TRUE), TipCoin(o)) = c
    BY <1>1, NoEntryAssumption DEF CoinOf
  <1>5. QED
    BY <1>1, <1>2, <1>3, <1>4, OneEntry DEF Slot

(* ApplyTxInUndo: the view is asked first, so no coin is replaced unawares. *)
LEMMA CoinsUndoStep ==
    ASSUME Inv, NEW o \in COutPoint, NEW c \in Coin, ApplyTxInUndo(o, c)
    PROVE  /\ Inv' /\ SameTip
           /\ \A p \in COutPoint : ViewCoin(p)' = IF p = o THEN c ELSE ViewCoin(p)
  <1> DEFINE e == ViewAfterFetch(o)
             have == CoinOf(e, Spent) # Spent
             new == Added(e, c, have)
  <1>1. /\ pcoinsTip' \in [COutPoint -> Slot] /\ SameTip
        /\ \A p \in COutPoint : Coherent(pcoinsTip'[p], pcoinsdbview[p])
        /\ e \in Slot /\ Coherent(e, TipCoin(o))
        /\ e = NoEntry => TipCoin(o) = Spent
    BY TipFetchFacts DEF ApplyTxInUndo
  <1>2. have \in BOOLEAN /\ (have \/ CoinOf(e, TipCoin(o)) = Spent)
    BY <1>1 DEF CoinOf
  <1>3. new \in CCoinsCacheEntry /\ Coherent(new, TipCoin(o)) /\ new.coin = c
    BY <1>1, <1>2, LookupType, AddedFacts
  <1>4. ~AddThrows(e, have)
    BY DEF AddThrows
  <1>5. /\ thrown' = FALSE /\ pcoinsdbview' = pcoinsdbview /\ open /\ UNCHANGED open
        /\ view' = [view EXCEPT ![o] = new]
    BY <1>4 DEF ApplyTxInUndo, AddThrows
  <1>6. CoinOf(new, TipCoin(o)) = c
    BY <1>3, NoEntryAssumption DEF CoinOf
  <1> HIDE DEF e, have, new
  <1>7. QED
    BY <1>1, <1>3, <1>5, <1>6, OneEntry DEF Slot

(* SpendCoin.                                                               *)
LEMMA SpendStep ==
    ASSUME Inv, NEW o \in COutPoint, SpendCoin(o)
    PROVE  /\ Inv' /\ SameTip
           /\ \A p \in COutPoint : ViewCoin(p)' = IF p = o THEN Spent ELSE ViewCoin(p)
  <1> DEFINE e == ViewAfterFetch(o)
             new == IF e = NoEntry THEN e ELSE SpentEntry(e)
  <1>1. /\ pcoinsTip' \in [COutPoint -> Slot] /\ SameTip
        /\ \A p \in COutPoint : Coherent(pcoinsTip'[p], pcoinsdbview[p])
        /\ e \in Slot /\ Coherent(e, TipCoin(o))
        /\ e = NoEntry => TipCoin(o) = Spent
    BY TipFetchFacts DEF SpendCoin
  <1>2. new \in Slot /\ Coherent(new, TipCoin(o)) /\ CoinOf(new, TipCoin(o)) = Spent
    BY <1>1, LookupType, SpentFacts, NoEntryFacts DEF Slot
  <1>3. /\ thrown' = FALSE /\ pcoinsdbview' = pcoinsdbview /\ open /\ UNCHANGED open
        /\ view' = [view EXCEPT ![o] = new]
    BY DEF SpendCoin, Inv, CoinsTypeOK
  <1> HIDE DEF e, new
  <1>4. QED
    BY <1>1, <1>2, <1>3, OneEntry

(* view.Flush(): the tip then reads as the view did.                        *)
LEMMA FlushViewStep ==
    ASSUME Inv, FlushView
    PROVE  Inv' /\ ~open' /\ (\A p \in COutPoint : TipCoin(p)' = ViewCoin(p)) /\ SameView
  <1>1. \A p \in COutPoint : /\ ~MergeThrows(view[p], pcoinsTip[p])
                            /\ Merged(view[p], pcoinsTip[p]) \in Slot
                            /\ Coherent(Merged(view[p], pcoinsTip[p]), pcoinsdbview[p])
                            /\ CoinOf(Merged(view[p], pcoinsTip[p]), pcoinsdbview[p]) = ViewCoin(p)
    BY LookupType, MergedFacts DEF TipCoin, ViewCoin
  <1>2. /\ thrown' = FALSE /\ open' = FALSE /\ pcoinsdbview' = pcoinsdbview /\ view' = Empty
        /\ pcoinsTip' = [o \in COutPoint |-> Merged(view[o], pcoinsTip[o])]
    BY <1>1 DEF FlushView
  <1>3. \A p \in COutPoint : TipCoin(p)' = ViewCoin(p)
    BY <1>1, <1>2 DEF TipCoin
  <1>4. \A p \in COutPoint : ViewCoin(p)' = TipCoin(p)'
    BY <1>2, NoEntryFacts DEF ViewCoin, Empty
  <1>5. CoinsTypeOK'
    BY <1>1, <1>2 DEF Inv, CoinsTypeOK, Slot, Empty
  <1>6. CachesCoherent'
    BY <1>1, <1>2, NoEntryFacts DEF CachesCoherent, Empty
  <1>7. QED
    BY <1>2, <1>3, <1>4, <1>5, <1>6 DEF SameView, Inv, NoLogicError, ClosedViewEmpty

(* The view is dropped: the tip reads as before, and the view as the tip.   *)
LEMMA DropViewStep ==
    ASSUME Inv, DropView
    PROVE  Inv' /\ SameTip /\ \A p \in COutPoint : ViewCoin(p)' = TipCoin(p)
  <1>1. pcoinsdbview' = pcoinsdbview /\ pcoinsTip' = pcoinsTip /\ view' = Empty /\ open' = FALSE /\ thrown' = FALSE
    BY DEF DropView, Inv, CoinsTypeOK
  <1>2. SameTip /\ \A p \in COutPoint : ViewCoin(p)' = TipCoin(p)
    BY <1>1, NoEntryFacts DEF SameTip, TipCoin, ViewCoin, Empty
  <1>3. CoinsTypeOK' /\ CachesCoherent'
    BY <1>1, NoEntryFacts DEF Inv, CoinsTypeOK, CachesCoherent, TipCoin, Empty
  <1>4. QED
    BY <1>1, <1>2, <1>3 DEF Inv, NoLogicError, ClosedViewEmpty

(* A closed view reads as the tip.                                          *)
LEMMA ClosedViewReadsTip ==
    ASSUME Inv, ~open, NEW p \in COutPoint
    PROVE  ViewCoin(p) = TipCoin(p)
  BY NoEntryFacts DEF Inv, ClosedViewEmpty, ViewCoin, Empty

(* A step between blocks that leaves every coin of the tip readable.        *)
LEMMA TipStep ==
    ASSUME Inv, ~open, SameTip, pcoinsdbview' \in [COutPoint -> Content], pcoinsTip' \in [COutPoint -> Slot],
           \A p \in COutPoint : Coherent(pcoinsTip'[p], pcoinsdbview'[p]), UNCHANGED <<view, open, thrown>>
    PROVE  Inv' /\ SameView
  <1>1. view = Empty /\ open' = open /\ thrown' = thrown /\ view' = view
    BY DEF Inv, ClosedViewEmpty
  <1>2. CachesCoherent'
    BY <1>1, NoEntryFacts DEF CachesCoherent, Empty
  <1>3. CoinsTypeOK'
    BY <1>1 DEF Inv, CoinsTypeOK, Slot, Content
  <1>4. Inv'
    BY <1>1, <1>2, <1>3 DEF Inv, NoLogicError, ClosedViewEmpty
  <1>5. QED
    BY <1>1, <1>4, NoEntryFacts DEF SameView, SameTip, ViewCoin, Empty

(* Reads of pcoinsTip between blocks.                                       *)
LEMMA TipFetchStep ==
    ASSUME Inv, NEW o \in COutPoint, TipFetch(o)
    PROVE  Inv' /\ SameTip /\ SameView
  <1>1. ~open /\ view[o] = NoEntry
    BY DEF TipFetch, Inv, ClosedViewEmpty, Empty
  <1>2. pcoinsTip' = TipAfterFetch(o) /\ pcoinsdbview' = pcoinsdbview
    BY <1>1 DEF TipFetch, TipAfterFetch
  <1>3. pcoinsTip' \in [COutPoint -> Slot] /\ SameTip /\ \A p \in COutPoint : Coherent(pcoinsTip'[p], pcoinsdbview[p])
    BY <1>2, TipFetchFacts
  <1>4. QED
    BY <1>1, <1>2, <1>3, TipStep DEF TipFetch, Inv, CoinsTypeOK, Content

(* Uncache.                                                                 *)
LEMMA UncacheStep ==
    ASSUME Inv, NEW o \in COutPoint, Uncache(o)
    PROVE  Inv' /\ SameTip /\ SameView
  <1>1. pcoinsTip \in [COutPoint -> Slot] /\ pcoinsdbview' = pcoinsdbview /\ ~open
    BY DEF Uncache, Inv, CoinsTypeOK, Slot
  <1>2. \A p \in COutPoint : pcoinsTip'[p] = IF p = o THEN NoEntry ELSE pcoinsTip[p]
    BY <1>1 DEF Uncache
  <1>3. TipCoin(o) = pcoinsdbview[o]
    BY LookupType DEF Uncache, Coherent, TipCoin, FlagsOf
  <1>4. SameTip
    BY <1>1, <1>2, <1>3, NoEntryFacts DEF SameTip, TipCoin
  <1>5. pcoinsTip' \in [COutPoint -> Slot]
    BY <1>1 DEF Uncache, Slot
  <1>6. \A p \in COutPoint : Coherent(pcoinsTip'[p], pcoinsdbview[p])
    BY <1>2, LookupType, NoEntryFacts
  <1>7. QED
    BY <1>1, <1>4, <1>5, <1>6, TipStep DEF Uncache, Inv, CoinsTypeOK, Content

(* pcoinsTip->Flush(): the database then holds what the tip read.           *)
LEMMA FlushTipStep ==
    ASSUME Inv, FlushTip
    PROVE  Inv' /\ SameTip /\ SameView /\ \A p \in COutPoint : pcoinsdbview'[p] = TipCoin(p)
  <1>1. \A p \in COutPoint : Written(pcoinsTip[p], pcoinsdbview[p]) \in Content /\ Written(pcoinsTip[p], pcoinsdbview[p]) = TipCoin(p)
    BY LookupType, WrittenFacts DEF TipCoin
  <1>2. /\ pcoinsdbview' = [o \in COutPoint |-> Written(pcoinsTip[o], pcoinsdbview[o])]
        /\ pcoinsTip' = Empty /\ ~open /\ UNCHANGED <<view, open, thrown>>
    BY DEF FlushTip
  <1>3. pcoinsdbview' \in [COutPoint -> Content] /\ pcoinsTip' \in [COutPoint -> Slot]
    BY <1>1, <1>2 DEF Empty, Slot
  <1>4. \A p \in COutPoint : pcoinsdbview'[p] = TipCoin(p)
    BY <1>1, <1>2
  <1>5. SameTip
    BY <1>2, <1>4, NoEntryFacts DEF SameTip, TipCoin, Empty
  <1>6. \A p \in COutPoint : Coherent(pcoinsTip'[p], pcoinsdbview'[p])
    BY <1>2, NoEntryFacts DEF Empty
  <1>7. QED
    BY <1>2, <1>3, <1>4, <1>5, <1>6, TipStep

(* A crash: every layer reads as the database.                              *)
LEMMA CoinsCrashStep ==
    ASSUME Inv, CoinsCrash
    PROVE  Inv' /\ \A p \in COutPoint : TipCoin(p)' = pcoinsdbview[p] /\ ViewCoin(p)' = pcoinsdbview[p]
  <1>1. pcoinsdbview' = pcoinsdbview /\ pcoinsTip' = Empty /\ view' = Empty /\ open' = FALSE /\ thrown' = FALSE
    BY DEF CoinsCrash
  <1>2. CoinsTypeOK' /\ CachesCoherent'
    BY <1>1, NoEntryFacts DEF Inv, CoinsTypeOK, CachesCoherent, Empty
  <1>3. QED
    BY <1>1, <1>2, NoEntryFacts DEF Inv, NoLogicError, ClosedViewEmpty, TipCoin, ViewCoin, Empty

(* Opening a view.                                                          *)
LEMMA BeginStep ==
    ASSUME Inv, Begin
    PROVE  Inv' /\ SameTip /\ SameView
  <1>1. open' = TRUE /\ pcoinsdbview' = pcoinsdbview /\ pcoinsTip' = pcoinsTip /\ view' = view /\ thrown' = thrown
    BY DEF Begin
  <1>2. SameTip /\ SameView
    BY <1>1 DEF SameTip, SameView, TipCoin, ViewCoin
  <1>3. CoinsTypeOK' /\ CachesCoherent'
    BY <1>1 DEF Inv, CoinsTypeOK, CachesCoherent, TipCoin
  <1>4. QED
    BY <1>1, <1>2, <1>3 DEF Inv, NoLogicError, ClosedViewEmpty

-----------------------------------------------------------------------------
(* Empty caches over an empty database satisfy the invariant.               *)
LEMMA InitInv == CoinsInit => Inv
  BY NoEntryFacts
  DEF CoinsInit, Inv, CoinsTypeOK, CachesCoherent, NoLogicError, ClosedViewEmpty, Empty, TipCoin

(* Every call on a view preserves the invariant.                            *)
LEMMA NextInv == Inv /\ [CoinsNext]_coinsVars => Inv'
  <1> SUFFICES ASSUME Inv, [CoinsNext]_coinsVars PROVE Inv'
    OBVIOUS
  <1>1. CASE Begin \/ FlushView \/ DropView \/ FlushTip \/ CoinsCrash
    BY <1>1, BeginStep, FlushViewStep, DropViewStep, FlushTipStep, CoinsCrashStep
  <1>2. ASSUME NEW o \in COutPoint, Fetch(o) \/ SpendCoin(o) \/ TipFetch(o) \/ Uncache(o)
        PROVE  Inv'
    BY <1>2, FetchStep, SpendStep, TipFetchStep, UncacheStep
  <1>3. ASSUME NEW o \in COutPoint, NEW c \in Coin,
               AddNew(o, c) \/ AddCoinbase(o, c) \/ ApplyTxInUndo(o, c)
        PROVE  Inv'
    BY <1>3, AddNewStep, AddCoinbaseStep, CoinsUndoStep
  <1>4. CASE UNCHANGED coinsVars
    BY <1>4 DEF coinsVars, Inv, CoinsTypeOK, CachesCoherent, NoLogicError, ClosedViewEmpty, TipCoin
  <1>5. QED
    BY <1>1, <1>2, <1>3, <1>4 DEF CoinsNext

(* The inductive invariant holds in every reachable state.                  *)
THEOREM CoinsInvariance == CoinsSpec => []Inv
  BY InitInv, NextInv, PTL DEF CoinsSpec

(* Each variable keeps its type, for every set of outpoints and coins.      *)
THEOREM CoinsTypeCorrect == CoinsSpec => []CoinsTypeOK
  BY CoinsInvariance, PTL DEF Inv

(* What AddCoin, SpendCoin, BatchWrite and Uncache rely on is always so.    *)
THEOREM Coherence == CoinsSpec => []CachesCoherent
  BY CoinsInvariance, PTL DEF Inv

(* Neither logic_error of coins.cpp is ever thrown.                         *)
THEOREM NoThrow == CoinsSpec => []NoLogicError
  BY CoinsInvariance, PTL DEF Inv

-----------------------------------------------------------------------------
Committed == [o \in COutPoint |-> TipCoin(o)]
Working == [o \in COutPoint |-> ViewCoin(o)]

(* An unchanged reading is an unchanged map.                                *)
LEMMA SameMaps ==
    /\ SameTip => UNCHANGED Committed
    /\ SameView => UNCHANGED Working
  BY DEF SameTip, SameView, Committed, Working

(* Storing or spending one coin is a Put of the abstract map.               *)
LEMMA PutStep ==
    ASSUME NEW o \in COutPoint, NEW c \in Content, open, UNCHANGED <<pcoinsdbview, open>>, SameTip,
           \A p \in COutPoint : ViewCoin(p)' = IF p = o THEN c ELSE ViewCoin(p)
    PROVE  Abstract!Next
  <1>1. Working' = [Working EXCEPT ![o] = c]
    BY DEF Working
  <1>2. Abstract!Put(o, c)
    BY <1>1, SameMaps DEF Abstract!Put, Committed, Working
  <1>3. QED
    BY <1>2 DEF Abstract!Next, Content

(* Every step of the caches is a step of the abstract map, or leaves it.    *)
LEMMA NextRefines == Inv /\ [CoinsNext]_coinsVars => [Abstract!Next]_(Abstract!vars)
  <1> SUFFICES ASSUME Inv, [CoinsNext]_coinsVars
               PROVE  Abstract!Next \/ UNCHANGED <<pcoinsdbview, Committed, Working, open>>
    BY DEF Abstract!vars, Committed, Working
  <1>1. CASE Begin
    BY <1>1, BeginStep, SameMaps DEF Begin, Abstract!Next, Abstract!Begin, Committed, Working
  <1>2. CASE FlushView
    <2>1. Committed' = Working /\ UNCHANGED Working
      BY <1>2, FlushViewStep, SameMaps DEF Committed, Working
    <2>2. open' = FALSE
      BY <1>2, FlushViewStep DEF FlushView
    <2>3. QED
      BY <1>2, <2>1, <2>2 DEF FlushView, Abstract!Next, Abstract!Commit, Committed, Working
  <1>3. CASE DropView
    <2>1. Working' = Committed /\ UNCHANGED Committed
      BY <1>3, DropViewStep, SameMaps DEF Committed, Working
    <2>2. QED
      BY <1>3, <2>1 DEF DropView, Abstract!Next, Abstract!Abort, Committed, Working
  <1>4. CASE FlushTip
    <2>1. pcoinsdbview' = Committed
      BY <1>4, FlushTipStep DEF Committed, FlushTip
    <2>2. QED
      BY <1>4, <2>1, FlushTipStep, SameMaps
      DEF FlushTip, Abstract!Next, Abstract!Persist, Committed, Working
  <1>5. CASE CoinsCrash
    <2>1. Committed' = pcoinsdbview /\ Working' = pcoinsdbview
      BY <1>5, CoinsCrashStep DEF Committed, Working, Inv, CoinsTypeOK
    <2>2. QED
      BY <1>5, <2>1 DEF CoinsCrash, Abstract!Next, Abstract!Crash, Committed, Working
  <1>6. ASSUME NEW o \in COutPoint, Fetch(o) \/ TipFetch(o) \/ Uncache(o)
        PROVE  UNCHANGED <<pcoinsdbview, Committed, Working, open>>
    BY <1>6, FetchStep, TipFetchStep, UncacheStep, SameMaps DEF Fetch, TipFetch, Uncache
  <1>7. ASSUME NEW o \in COutPoint, SpendCoin(o)
        PROVE  Abstract!Next
    BY <1>7, SpendStep, PutStep DEF SpendCoin, Content
  <1>8. ASSUME NEW o \in COutPoint, NEW c \in Coin,
               AddNew(o, c) \/ AddCoinbase(o, c) \/ ApplyTxInUndo(o, c)
        PROVE  Abstract!Next
    <2>1. open /\ UNCHANGED <<pcoinsdbview, open>>
      BY <1>8 DEF AddNew, AddCoinbase, ApplyTxInUndo
    <2>2. SameTip /\ \A p \in COutPoint : ViewCoin(p)' = IF p = o THEN c ELSE ViewCoin(p)
      BY <1>8, AddNewStep, AddCoinbaseStep, CoinsUndoStep
    <2>3. QED
      BY <2>1, <2>2, PutStep DEF Content
  <1>9. CASE UNCHANGED coinsVars
    BY <1>9 DEF coinsVars, Committed, Working, TipCoin, ViewCoin
  <1>10. QED
    BY <1>1, <1>2, <1>3, <1>4, <1>5, <1>6, <1>7, <1>8, <1>9 DEF CoinsNext

(* The initial caches are the initial map.                                  *)
LEMMA InitRefines == CoinsInit => Abstract!Init
  <1> SUFFICES ASSUME CoinsInit PROVE Abstract!Init
    OBVIOUS
  <1>1. Committed = pcoinsdbview /\ Working = pcoinsdbview
    BY NoEntryFacts DEF CoinsInit, Committed, Working, TipCoin, ViewCoin, Empty
  <1>2. pcoinsdbview \in {s \in Abstract!Store : \A o \in COutPoint : s[o] = Spent}
    BY DEF CoinsInit, Abstract!Store
  <1>3. QED
    BY <1>1, <1>2 DEF CoinsInit, Abstract!Init, Committed, Working

(* The caches of coins.cpp implement one transactional map.                 *)
THEOREM Refinement == CoinsSpec => ImplementsCoinStore
  BY CoinsInvariance, InitRefines, NextRefines, PTL DEF CoinsSpec, ImplementsCoinStore, Abstract!Spec

-----------------------------------------------------------------------------
(* Tags and freezes.                                                        *)

(* The natural numbers are a tree with one branch: induction and recursion
   over them are those of module BlockTreeProofs.                           *)
Pred == [n \in Nat \ {0} |-> n - 1]
Number == [n \in Nat |-> n]
Nats == INSTANCE BlockTreeProofs WITH Block <- Nat, Genesis <- 0, Parent <- Pred

-----------------------------------------------------------------------------
LEMMA NatTree ==
  /\ Pred \in [Nat \ {0} -> Nat] /\ 0 \in Nat
  /\ Nats!IsRank(Number)
  BY DEF Pred, Number, Nats!IsRank

-----------------------------------------------------------------------------
(* The caches.                                                              *)

(* The sub-qualifiers of a root qualifier.                                  *)
SubsOf(r) == {s \in Sub : ParentOf[s] = r[1]}

(* The root maps of a cache only relate a qualifier to its own.             *)
RootsRight(c) ==
    \A r \in RootKey : c.rootAdd[r] \subseteq SubsOf(r) /\ c.rootRem[r] \subseteq SubsOf(r)

LEMMA KeyFacts ==
  /\ \A k \in Key : k[1] \in Sub => <<ParentOf[k[1]], k[2]>> \in RootKey
  /\ \A k \in PlainKey : k \in Key /\ (k \in RootKey => SubsOf(k) = {})
<1>1. ASSUME NEW k \in Key, k[1] \in Sub PROVE <<ParentOf[k[1]], k[2]>> \in RootKey
  <2>1. k \in TagKey
    BY <1>1, NamesAssumption DEF Key
  <2> QED
    BY <1>1, <2>1, NamesAssumption DEF TagKey, RootKey
<1>2. \A k \in PlainKey : k \in Key /\ (k \in RootKey => SubsOf(k) = {})
  BY DEF PlainKey, SubsOf
<1> QED
  BY <1>1, <1>2

LEMMA CleanFacts ==
  /\ Clean \in Cache /\ RootsRight(Clean)
  /\ \A k \in Key : Clean.add[k] = "none" /\ Clean.rem[k] = "none"
  BY DEF Clean, Cache, Entry, RootsRight

(* The bookkeeping of sub-qualifiers touches the root maps only.            *)
LEMMA WithSubFacts ==
  ASSUME NEW c \in Cache, RootsRight(c), NEW k \in Key, NEW present \in BOOLEAN
  PROVE  LET d == WithSub(c, k, present)
         IN d \in Cache /\ RootsRight(d) /\ d.add = c.add /\ d.rem = c.rem
<1>1. CASE k[1] \notin Sub
  BY <1>1 DEF WithSub
<1>2. CASE k[1] \in Sub
  <2> DEFINE r == <<ParentOf[k[1]], k[2]>>
             newAdd == IF present THEN c.rootAdd[r] \cup {k[1]} ELSE c.rootAdd[r] \ {k[1]}
             newRem == IF present THEN c.rootRem[r] \ {k[1]} ELSE c.rootRem[r] \cup {k[1]}
             d == [c EXCEPT !.rootAdd = [c.rootAdd EXCEPT ![r] = newAdd],
                            !.rootRem = [c.rootRem EXCEPT ![r] = newRem]]
  <2>1. r \in RootKey /\ k[1] \in SubsOf(r)
    BY <1>2, KeyFacts DEF SubsOf
  <2>2. WithSub(c, k, present) = d
    BY <1>2 DEF WithSub
  <2>3. newAdd \subseteq SubsOf(r) /\ newRem \subseteq SubsOf(r)
    BY <2>1 DEF RootsRight
  <2>4. \A q \in RootKey : SubsOf(q) \subseteq Sub
    BY DEF SubsOf
  <2> HIDE DEF r, newAdd, newRem
  <2>5. /\ d.add = c.add /\ d.rem = c.rem
        /\ d.rootAdd = [c.rootAdd EXCEPT ![r] = newAdd]
        /\ d.rootRem = [c.rootRem EXCEPT ![r] = newRem]
    BY DEF Cache
  <2>6. d \in Cache
    BY <2>1, <2>3, <2>4 DEF Cache
  <2>7. RootsRight(d)
    BY <2>1, <2>3, <2>5 DEF Cache, RootsRight
  <2> QED
    BY <2>2, <2>5, <2>6, <2>7
<1> QED
  BY <1>1, <1>2

LEMMA AddChangeFacts ==
  ASSUME NEW c \in Cache, RootsRight(c), NEW change \in Change
  PROVE  LET d == AddChange(c, change)
         IN /\ d \in Cache /\ RootsRight(d)
            /\ d.add = [c.add EXCEPT ![change.key] = Recorded(change)]
            /\ d.rem = [c.rem EXCEPT ![change.key] = "none"]
<1> DEFINE e == [c EXCEPT !.add = [c.add EXCEPT ![change.key] = Recorded(change)],
                          !.rem = [c.rem EXCEPT ![change.key] = "none"]]
<1>1. change.key \in Key /\ change.on \in BOOLEAN /\ Recorded(change) \in Entry /\ "none" \in Entry
  BY DEF Change, Recorded, Entry
<1>2. AddChange(c, change) = WithSub(e, change.key, change.on)
  BY DEF AddChange
<1>3. /\ e.add = [c.add EXCEPT ![change.key] = Recorded(change)]
      /\ e.rem = [c.rem EXCEPT ![change.key] = "none"]
      /\ e.rootAdd = c.rootAdd /\ e.rootRem = c.rootRem
  BY DEF Cache
<1>4. e \in Cache
  BY <1>1 DEF Cache
<1>5. RootsRight(e)
  BY <1>3 DEF RootsRight
<1> HIDE DEF e
<1> QED
  BY <1>1, <1>2, <1>3, <1>4, <1>5, WithSubFacts

LEMMA RemoveChangeFacts ==
  ASSUME NEW c \in Cache, RootsRight(c), NEW change \in Change
  PROVE  LET d == RemoveChange(c, change)
         IN /\ d \in Cache /\ RootsRight(d)
            /\ d.rem = [c.rem EXCEPT ![change.key] = Recorded(change)]
            /\ d.add = [c.add EXCEPT ![change.key] = "none"]
<1> DEFINE e == [c EXCEPT !.rem = [c.rem EXCEPT ![change.key] = Recorded(change)],
                          !.add = [c.add EXCEPT ![change.key] = "none"]]
           present == ~change.on
<1>1. /\ change.key \in Key /\ present \in BOOLEAN
      /\ Recorded(change) \in Entry /\ "none" \in Entry
  BY DEF Change, Recorded, Entry
<1>2. RemoveChange(c, change) = WithSub(e, change.key, present)
  BY DEF RemoveChange
<1>3. /\ e.rem = [c.rem EXCEPT ![change.key] = Recorded(change)]
      /\ e.add = [c.add EXCEPT ![change.key] = "none"]
      /\ e.rootAdd = c.rootAdd /\ e.rootRem = c.rootRem
  BY DEF Cache
<1>4. e \in Cache
  BY <1>1 DEF Cache
<1>5. RootsRight(e)
  BY <1>3 DEF RootsRight
<1> HIDE DEF e, present
<1> QED
  BY <1>1, <1>2, <1>3, <1>4, <1>5, WithSubFacts

LEMMA BlockFacts ==
  ASSUME NEW block \in Blocks
  PROVE  /\ Len(block) \in Nat /\ DOMAIN block = 1..Len(block)
         /\ \A j \in 1..Len(block) : block[j] \in Change
         /\ \A j \in 1..Len(block) : Len(block) + 1 - j \in 1..Len(block)
<1>1. PICK n \in 1..MaxChanges : block \in [1..n -> Change]
  BY DEF Blocks
<1>2. n \in Nat /\ DOMAIN block = 1..n /\ Len(block) = n
  BY <1>1, NamesAssumption
<1> QED
  BY <1>1, <1>2

(* The loop of ConnectBlock over the null data of a block, round by round.  *)
LEMMA AppliedLoop ==
  ASSUME NEW block \in Blocks
  PROVE  \E f : /\ Applied(block) = f[Len(block)]
                /\ f[0] = Clean
                /\ \A n \in 1..Len(block) : f[n] = AddChange(f[n - 1], block[n])
<1> DEFINE Def(f) == [n \in 0..Len(block) |->
                        IF n = 0 THEN Clean ELSE AddChange(f[n - 1], block[n])]
           V == {c \in Cache : RootsRight(c)}
           step == [p \in Nat \X V |-> IF p[1] \in 1..Len(block)
                                       THEN AddChange(p[2], block[p[1]]) ELSE p[2]]
<1>1. Len(block) \in Nat /\ \A n \in 1..Len(block) : block[n] \in Change
  BY BlockFacts
<1>2. Clean \in V
  BY CleanFacts
<1>3. step \in [Nat \X V -> V]
  <2>1. ASSUME NEW p \in Nat \X V, p[1] \in 1..Len(block)
        PROVE  AddChange(p[2], block[p[1]]) \in V
    <3>1. p[2] \in Cache /\ RootsRight(p[2]) /\ block[p[1]] \in Change
      BY <1>1, <2>1
    <3> QED
      BY <3>1, AddChangeFacts
  <2>2. ASSUME NEW p \in Nat \X V PROVE step[p] \in V
    <3>1. p[2] \in V
      OBVIOUS
    <3> HIDE DEF V
    <3> QED
      BY <2>1, <3>1
  <2> HIDE DEF V
  <2> QED
    BY <2>2
<1>4. PICK g \in [0..Len(block) -> V] : Nats!IsLoop(g, Clean, step, Len(block))
  <2> HIDE DEF step, V
  <2> QED
    BY <1>1, <1>2, <1>3, NatTree, Nats!LoopExists, Zenon
<1>6. g = Def(g)
  <2>1. ASSUME NEW n \in 1..Len(block) PROVE g[n] = AddChange(g[n - 1], block[n])
    <3>1. n \in Nat /\ n - 1 \in 0..Len(block) /\ n # 0 /\ n \in 0..Len(block)
      BY <1>1
    <3>2. g[n - 1] \in V
      BY <3>1
    <3> HIDE DEF V
    <3>3. step[<<n, g[n - 1]>>] = AddChange(g[n - 1], block[n])
      BY <3>1, <3>2
    <3> HIDE DEF step
    <3>4. g[n] = step[<<n, g[n - 1]>>]
      BY <1>4, <3>1 DEF Nats!IsLoop
    <3> QED
      BY <3>3, <3>4
  <2>2. g[0] = Clean
    BY <1>1, <1>4 DEF Nats!IsLoop
  <2>3. g = [n \in 0..Len(block) |-> g[n]]
    BY <1>4
  <2>4. \A n \in 0..Len(block) : n = 0 \/ n \in 1..Len(block)
    BY <1>1
  <2> HIDE DEF step, V
  <2>5. \A n \in 0..Len(block) : g[n] = Def(g)[n]
    BY <2>1, <2>2, <2>4
  <2> QED
    BY <2>3, <2>5
<1> DEFINE F == CHOOSE f : f = Def(f)
<1>7. F = Def(F)
  <2> HIDE DEF Def
  <2> QED
    BY <1>6, Zenon
<1>8. Applied(block) = F[Len(block)]
  BY DEF Applied
<1> HIDE DEF F
<1>9. F[0] = Clean /\ \A n \in 1..Len(block) : F[n] = AddChange(F[n - 1], block[n])
  <2> HIDE DEF V, step
  <2>1. 0 \in 0..Len(block) /\ \A n \in 1..Len(block) : n \in 0..Len(block) /\ n # 0
    BY <1>1
  <2> QED
    BY <1>7, <2>1
<1> QED
  BY <1>8, <1>9, Zenon

(* What the loop leaves in the cache: of each key, a change of the block that
   names it.                                                                *)
LEMMA AppliedFacts ==
  ASSUME NEW block \in Blocks
  PROVE  LET c == Applied(block)
         IN /\ c \in Cache /\ RootsRight(c)
            /\ \A k \in Key :
                 /\ c.rem[k] = "none"
                 /\ Naming(block, k) = {} => c.add[k] = "none"
                 /\ Naming(block, k) # {} =>
                      \E j \in Naming(block, k) : c.add[k] = Recorded(block[j])
<1>1. Len(block) \in Nat /\ \A n \in 1..Len(block) : block[n] \in Change
  BY BlockFacts
<1>2. PICK f : /\ Applied(block) = f[Len(block)]
               /\ f[0] = Clean
               /\ \A n \in 1..Len(block) : f[n] = AddChange(f[n - 1], block[n])
  BY AppliedLoop
<1> DEFINE Seen(n, k) == {m \in 1..n : block[m].key = k}
           Good(n) == /\ f[n] \in Cache /\ RootsRight(f[n])
                      /\ \A k \in Key :
                           /\ f[n].rem[k] = "none"
                           /\ Seen(n, k) = {} => f[n].add[k] = "none"
                           /\ Seen(n, k) # {} =>
                                \E m \in Seen(n, k) : f[n].add[k] = Recorded(block[m])
           S == {n \in 0..Len(block) : Good(n)}
<1>3. 0 \in S
  BY <1>1, <1>2, CleanFacts
<1>4. ASSUME NEW n \in 1..Len(block), n - 1 \in S PROVE n \in S
  <2> SUFFICES Good(n)
    BY <1>1
  <2>2. Good(n - 1)
    BY <1>4, Zenon
  <2> DEFINE ch == block[n]
  <2>3. ch \in Change /\ ch.key \in Key
    BY <1>1 DEF Change
  <2>4. f[n] = AddChange(f[n - 1], ch)
    BY <1>2
  <2>5. /\ f[n] \in Cache /\ RootsRight(f[n])
        /\ f[n].add = [f[n - 1].add EXCEPT ![ch.key] = Recorded(ch)]
        /\ f[n].rem = [f[n - 1].rem EXCEPT ![ch.key] = "none"]
    <3> HIDE DEF ch, S
    <3> QED
      BY <2>2, <2>3, <2>4, AddChangeFacts
  <2>6. f[n - 1].add \in [Key -> Entry] /\ f[n - 1].rem \in [Key -> Entry]
    BY <2>2 DEF Cache
  <2>7. ASSUME NEW k \in Key
        PROVE  /\ f[n].rem[k] = "none"
               /\ Seen(n, k) = {} => f[n].add[k] = "none"
               /\ Seen(n, k) # {} =>
                    \E m \in Seen(n, k) : f[n].add[k] = Recorded(block[m])
    <3>1. /\ Seen(n - 1, k) \subseteq Seen(n, k)
          /\ \A m \in Seen(n, k) : m \in Seen(n - 1, k) \/ m = n
          /\ n \in Seen(n, k) <=> ch.key = k
      <4> HIDE DEF Good, S
      <4> QED
        BY <1>1
    <3>2. /\ f[n - 1].rem[k] = "none"
          /\ Seen(n - 1, k) = {} => f[n - 1].add[k] = "none"
          /\ Seen(n - 1, k) # {} =>
               \E m \in Seen(n - 1, k) : f[n - 1].add[k] = Recorded(block[m])
      BY <2>2, Zenon
    <3> HIDE DEF Seen, Good, S
    <3>3. CASE ch.key = k
      <4>1. f[n].rem[k] = "none" /\ f[n].add[k] = Recorded(ch) /\ n \in Seen(n, k)
        BY <2>5, <2>6, <3>1, <3>3
      <4> QED
        BY <4>1
    <3>4. CASE ch.key # k
      <4>1. f[n].rem[k] = f[n - 1].rem[k] /\ f[n].add[k] = f[n - 1].add[k]
        BY <2>3, <2>5, <2>6, <3>4
      <4>2. Seen(n, k) = Seen(n - 1, k)
        BY <3>1, <3>4
      <4> QED
        BY <3>2, <4>1, <4>2
    <3> QED
      BY <3>3, <3>4
  <2> HIDE DEF Seen, S
  <2> QED
    BY <2>5, <2>7
<1>5. Good(Len(block))
  <2>1. Len(block) \in S
    <3>1. Len(block) \in Nat /\ Len(block) \in 0..Len(block)
      BY <1>1
    <3> HIDE DEF S
    <3>2. \A n \in 0..Len(block) : n \in S
      BY <1>3, <1>4, <3>1, NatTree, Nats!LoopInduction, Zenon
    <3> QED
      BY <3>1, <3>2, Zenon
  <2> QED
    BY <1>1, <2>1
<1>6. ASSUME NEW k \in Key
      PROVE  /\ Naming(block, k) = {} <=> Seen(Len(block), k) = {}
             /\ \A m \in Seen(Len(block), k) : m \in Naming(block, k)
  BY <1>1, BlockFacts DEF Naming
<1> HIDE DEF Seen, S
<1> QED
  BY <1>2, <1>5, <1>6

(* The loop of DisconnectBlock over them, round by round.                   *)
LEMMA RevertedLoop ==
  ASSUME NEW block \in Blocks
  PROVE  \E f : /\ Reverted(block) = f[Len(block)]
                /\ f[0] = Clean
                /\ \A n \in 1..Len(block) : f[n] = RemoveChange(f[n - 1], block[Len(block) + 1 - n])
<1> DEFINE Def(f) == [n \in 0..Len(block) |->
                        IF n = 0 THEN Clean ELSE RemoveChange(f[n - 1], block[Len(block) + 1 - n])]
           V == {c \in Cache : RootsRight(c)}
           step == [p \in Nat \X V |-> IF p[1] \in 1..Len(block)
                                       THEN RemoveChange(p[2], block[Len(block) + 1 - p[1]]) ELSE p[2]]
<1>1. Len(block) \in Nat /\ \A n \in 1..Len(block) : block[Len(block) + 1 - n] \in Change
  BY BlockFacts
<1>2. Clean \in V
  BY CleanFacts
<1>3. step \in [Nat \X V -> V]
  <2>1. ASSUME NEW p \in Nat \X V, p[1] \in 1..Len(block)
        PROVE  RemoveChange(p[2], block[Len(block) + 1 - p[1]]) \in V
    <3>1. p[2] \in Cache /\ RootsRight(p[2]) /\ block[Len(block) + 1 - p[1]] \in Change
      BY <1>1, <2>1
    <3> QED
      BY <3>1, RemoveChangeFacts
  <2>2. ASSUME NEW p \in Nat \X V PROVE step[p] \in V
    <3>1. p[2] \in V
      OBVIOUS
    <3> HIDE DEF V
    <3> QED
      BY <2>1, <3>1
  <2> HIDE DEF V
  <2> QED
    BY <2>2
<1>4. PICK g \in [0..Len(block) -> V] : Nats!IsLoop(g, Clean, step, Len(block))
  <2> HIDE DEF step, V
  <2> QED
    BY <1>1, <1>2, <1>3, NatTree, Nats!LoopExists, Zenon
<1>6. g = Def(g)
  <2>1. ASSUME NEW n \in 1..Len(block) PROVE g[n] = RemoveChange(g[n - 1], block[Len(block) + 1 - n])
    <3>1. n \in Nat /\ n - 1 \in 0..Len(block) /\ n # 0 /\ n \in 0..Len(block)
      BY <1>1
    <3>2. g[n - 1] \in V
      BY <3>1
    <3> HIDE DEF V
    <3>3. step[<<n, g[n - 1]>>] = RemoveChange(g[n - 1], block[Len(block) + 1 - n])
      BY <3>1, <3>2
    <3> HIDE DEF step
    <3>4. g[n] = step[<<n, g[n - 1]>>]
      BY <1>4, <3>1 DEF Nats!IsLoop
    <3> QED
      BY <3>3, <3>4
  <2>2. g[0] = Clean
    BY <1>1, <1>4 DEF Nats!IsLoop
  <2>3. g = [n \in 0..Len(block) |-> g[n]]
    BY <1>4
  <2>4. \A n \in 0..Len(block) : n = 0 \/ n \in 1..Len(block)
    BY <1>1
  <2> HIDE DEF step, V
  <2>5. \A n \in 0..Len(block) : g[n] = Def(g)[n]
    BY <2>1, <2>2, <2>4
  <2> QED
    BY <2>3, <2>5
<1> DEFINE F == CHOOSE f : f = Def(f)
<1>7. F = Def(F)
  <2> HIDE DEF Def
  <2> QED
    BY <1>6, Zenon
<1>8. Reverted(block) = F[Len(block)]
  BY DEF Reverted
<1> HIDE DEF F
<1>9. F[0] = Clean /\ \A n \in 1..Len(block) : F[n] = RemoveChange(F[n - 1], block[Len(block) + 1 - n])
  <2> HIDE DEF V, step
  <2>1. 0 \in 0..Len(block) /\ \A n \in 1..Len(block) : n \in 0..Len(block) /\ n # 0
    BY <1>1
  <2> QED
    BY <1>7, <2>1
<1> QED
  BY <1>8, <1>9, Zenon

(* What the loop leaves in the cache: of each key, a change of the block that
   names it.                                                                *)
LEMMA RevertedFacts ==
  ASSUME NEW block \in Blocks
  PROVE  LET c == Reverted(block)
         IN /\ c \in Cache /\ RootsRight(c)
            /\ \A k \in Key :
                 /\ c.add[k] = "none"
                 /\ Naming(block, k) = {} => c.rem[k] = "none"
                 /\ Naming(block, k) # {} =>
                      \E j \in Naming(block, k) : c.rem[k] = Recorded(block[j])
<1>1. Len(block) \in Nat /\ \A n \in 1..Len(block) : block[Len(block) + 1 - n] \in Change
  BY BlockFacts
<1>2. PICK f : /\ Reverted(block) = f[Len(block)]
               /\ f[0] = Clean
               /\ \A n \in 1..Len(block) : f[n] = RemoveChange(f[n - 1], block[Len(block) + 1 - n])
  BY RevertedLoop
<1> DEFINE Seen(n, k) == {m \in 1..n : block[Len(block) + 1 - m].key = k}
           Good(n) == /\ f[n] \in Cache /\ RootsRight(f[n])
                      /\ \A k \in Key :
                           /\ f[n].add[k] = "none"
                           /\ Seen(n, k) = {} => f[n].rem[k] = "none"
                           /\ Seen(n, k) # {} =>
                                \E m \in Seen(n, k) : f[n].rem[k] = Recorded(block[Len(block) + 1 - m])
           S == {n \in 0..Len(block) : Good(n)}
<1>3. 0 \in S
  BY <1>1, <1>2, CleanFacts
<1>4. ASSUME NEW n \in 1..Len(block), n - 1 \in S PROVE n \in S
  <2> SUFFICES Good(n)
    BY <1>1
  <2>2. Good(n - 1)
    BY <1>4, Zenon
  <2> DEFINE ch == block[Len(block) + 1 - n]
  <2>3. ch \in Change /\ ch.key \in Key
    BY <1>1 DEF Change
  <2>4. f[n] = RemoveChange(f[n - 1], ch)
    BY <1>2
  <2>5. /\ f[n] \in Cache /\ RootsRight(f[n])
        /\ f[n].rem = [f[n - 1].rem EXCEPT ![ch.key] = Recorded(ch)]
        /\ f[n].add = [f[n - 1].add EXCEPT ![ch.key] = "none"]
    <3> HIDE DEF ch, S
    <3> QED
      BY <2>2, <2>3, <2>4, RemoveChangeFacts
  <2>6. f[n - 1].rem \in [Key -> Entry] /\ f[n - 1].add \in [Key -> Entry]
    BY <2>2 DEF Cache
  <2>7. ASSUME NEW k \in Key
        PROVE  /\ f[n].add[k] = "none"
               /\ Seen(n, k) = {} => f[n].rem[k] = "none"
               /\ Seen(n, k) # {} =>
                    \E m \in Seen(n, k) : f[n].rem[k] = Recorded(block[Len(block) + 1 - m])
    <3>1. /\ Seen(n - 1, k) \subseteq Seen(n, k)
          /\ \A m \in Seen(n, k) : m \in Seen(n - 1, k) \/ m = n
          /\ n \in Seen(n, k) <=> ch.key = k
      <4> HIDE DEF Good, S
      <4> QED
        BY <1>1
    <3>2. /\ f[n - 1].add[k] = "none"
          /\ Seen(n - 1, k) = {} => f[n - 1].rem[k] = "none"
          /\ Seen(n - 1, k) # {} =>
               \E m \in Seen(n - 1, k) : f[n - 1].rem[k] = Recorded(block[Len(block) + 1 - m])
      BY <2>2, Zenon
    <3> HIDE DEF Seen, Good, S
    <3>3. CASE ch.key = k
      <4>1. f[n].add[k] = "none" /\ f[n].rem[k] = Recorded(ch) /\ n \in Seen(n, k)
        BY <2>5, <2>6, <3>1, <3>3
      <4> QED
        BY <4>1
    <3>4. CASE ch.key # k
      <4>1. f[n].add[k] = f[n - 1].add[k] /\ f[n].rem[k] = f[n - 1].rem[k]
        BY <2>3, <2>5, <2>6, <3>4
      <4>2. Seen(n, k) = Seen(n - 1, k)
        BY <3>1, <3>4
      <4> QED
        BY <3>2, <4>1, <4>2
    <3> QED
      BY <3>3, <3>4
  <2> HIDE DEF Seen, S
  <2> QED
    BY <2>5, <2>7
<1>5. Good(Len(block))
  <2>1. Len(block) \in S
    <3>1. Len(block) \in Nat /\ Len(block) \in 0..Len(block)
      BY <1>1
    <3> HIDE DEF S
    <3>2. \A n \in 0..Len(block) : n \in S
      BY <1>3, <1>4, <3>1, NatTree, Nats!LoopInduction, Zenon
    <3> QED
      BY <3>1, <3>2, Zenon
  <2> QED
    BY <1>1, <2>1
<1>6. ASSUME NEW k \in Key
      PROVE  /\ Naming(block, k) = {} <=> Seen(Len(block), k) = {}
             /\ \A m \in Seen(Len(block), k) : Len(block) + 1 - m \in Naming(block, k)
  <2>1. \A m \in Seen(Len(block), k) : Len(block) + 1 - m \in Naming(block, k)
    BY <1>1, BlockFacts DEF Naming
  <2>2. ASSUME NEW j \in Naming(block, k) PROVE Len(block) + 1 - j \in Seen(Len(block), k)
    <3>1. j \in 1..Len(block) /\ Len(block) + 1 - (Len(block) + 1 - j) = j
      BY <1>1, BlockFacts DEF Naming
    <3> QED
      BY <1>1, <3>1, BlockFacts DEF Naming
  <2> HIDE DEF Seen
  <2> QED
    BY <2>1, <2>2
<1> HIDE DEF Seen, S
<1> QED
  BY <1>2, <1>5, <1>6

LEMMA FlushedFacts ==
  ASSUME NEW c \in Cache, NEW p \in Cache, RootsRight(c), RootsRight(p)
  PROVE  LET f == Flushed(c, p)
         IN /\ f \in Cache /\ RootsRight(f)
            /\ \A k \in Key :
                 /\ f.add[k] = IF c.rem[k] # "none" THEN "none"
                               ELSE IF c.add[k] # "none" THEN c.add[k] ELSE p.add[k]
                 /\ f.rem[k] = IF c.rem[k] # "none" THEN c.rem[k]
                               ELSE IF c.add[k] # "none" THEN "none" ELSE p.rem[k]
<1> DEFINE newAdd == [k \in Key |-> IF c.rem[k] # "none" THEN "none"
                                    ELSE IF c.add[k] # "none" THEN c.add[k] ELSE p.add[k]]
           newRem == [k \in Key |-> IF c.rem[k] # "none" THEN c.rem[k]
                                    ELSE IF c.add[k] # "none" THEN "none" ELSE p.rem[k]]
           newRoot == [r \in RootKey |-> p.rootAdd[r] \cup c.rootAdd[r] \cup c.rootRem[r]]
           f == [p EXCEPT !.add = newAdd, !.rem = newRem, !.rootAdd = newRoot]
<1>1. Flushed(c, p) = f
  BY DEF Flushed
<1>2. newAdd \in [Key -> Entry] /\ newRem \in [Key -> Entry]
  BY DEF Cache, Entry
<1>3. newRoot \in [RootKey -> SUBSET Sub]
  BY DEF Cache
<1>4. \A r \in RootKey : newRoot[r] \subseteq SubsOf(r)
  BY DEF RootsRight
<1>5. /\ \A k \in Key : newAdd[k] = IF c.rem[k] # "none" THEN "none"
                                    ELSE IF c.add[k] # "none" THEN c.add[k] ELSE p.add[k]
      /\ \A k \in Key : newRem[k] = IF c.rem[k] # "none" THEN c.rem[k]
                                    ELSE IF c.add[k] # "none" THEN "none" ELSE p.rem[k]
  OBVIOUS
<1> HIDE DEF newAdd, newRem, newRoot
<1>6. f.add = newAdd /\ f.rem = newRem /\ f.rootAdd = newRoot /\ f.rootRem = p.rootRem
  BY DEF Cache
<1>7. f \in Cache
  BY <1>2, <1>3 DEF Cache
<1>8. RootsRight(f)
  BY <1>4, <1>6 DEF RootsRight
<1> HIDE DEF f
<1> QED
  BY <1>1, <1>5, <1>6, <1>7, <1>8

-----------------------------------------------------------------------------
(* What the chain says of a key.                                            *)

LEMMA OnUpToSame ==
  ASSUME NEW b, NEW c, NEW h \in Nat, NEW k, \A i \in 1..h : b[i] = c[i]
  PROVE  OnUpTo(b, h, k) <=> OnUpTo(c, h, k)
<1>1. \A i \in 1..h : \A l \in (i + 1)..h : b[l] = c[l]
  OBVIOUS
<1> QED
  BY <1>1 DEF OnUpTo

(* Some change of a block that names a key is the last one.                 *)
LEMMA LastNaming ==
  ASSUME NEW block \in Blocks, NEW k, Naming(block, k) # {}
  PROVE  \E j \in Naming(block, k) : \A m \in Naming(block, k) : m <= j
<1>1. Len(block) \in Nat /\ \A j \in Naming(block, k) : j \in 1..Len(block)
  BY BlockFacts DEF Naming
<1> DEFINE T == {Len(block) - j : j \in Naming(block, k)}
<1>2. T \in SUBSET Nat /\ T # {}
  BY <1>1
<1>3. PICK x \in T : \A y \in T : x <= y
  <2> HIDE DEF T
  <2> QED
    BY <1>2, NatTree, Nats!LeastNumber
<1>4. PICK j \in Naming(block, k) : x = Len(block) - j
  BY <1>3
<1>5. ASSUME NEW m \in Naming(block, k) PROVE m <= j
  <2>1. Len(block) - j <= Len(block) - m
    BY <1>3, <1>4
  <2> QED
    BY <1>1, <2>1
<1> QED
  BY <1>5

(* The changes of a block that name the same key do the same.               *)
Uniform(block) ==
    \A j, m \in DOMAIN block : block[j].key = block[m].key => block[j].on = block[m].on

(* A further block decides the keys it names and leaves the others.         *)
LEMMA OnUpToNext ==
  ASSUME NEW blocks, NEW h \in Nat, NEW k,
         blocks[h + 1].changes \in Blocks, Uniform(blocks[h + 1].changes)
  PROVE  /\ Naming(blocks[h + 1].changes, k) = {} =>
               (OnUpTo(blocks, h + 1, k) <=> OnUpTo(blocks, h, k))
         /\ \A j \in Naming(blocks[h + 1].changes, k) :
               OnUpTo(blocks, h + 1, k) <=> blocks[h + 1].changes[j].on
<1> DEFINE last == blocks[h + 1].changes
<1>1. /\ h + 1 \in 1..(h + 1) /\ \A l \in ((h + 1) + 1)..(h + 1) : FALSE
      /\ \A i \in 1..(h + 1) : i = h + 1 \/ (i \in 1..h /\ h + 1 \in (i + 1)..(h + 1))
      /\ \A i \in 1..h : i \in 1..(h + 1) /\ \A l \in (i + 1)..(h + 1) : l = h + 1 \/ l \in (i + 1)..h
      /\ \A i \in 1..h : \A l \in (i + 1)..h : l \in (i + 1)..(h + 1)
  OBVIOUS
<1>2. CASE Naming(last, k) = {}
  <2>1. OnUpTo(blocks, h + 1, k) => OnUpTo(blocks, h, k)
    BY <1>1, <1>2 DEF OnUpTo
  <2>2. OnUpTo(blocks, h, k) => OnUpTo(blocks, h + 1, k)
    BY <1>1, <1>2 DEF OnUpTo
  <2> QED
    BY <1>2, <2>1, <2>2
<1>3. CASE Naming(last, k) # {}
  <2>1. PICK top \in Naming(last, k) : \A m \in Naming(last, k) : m <= top
    BY <1>3, LastNaming
  <2>2. \A j \in Naming(last, k) : last[j].on = last[top].on
    BY <2>1 DEF Naming, Uniform
  <2>3. last[top].on => OnUpTo(blocks, h + 1, k)
    BY <1>1, <2>1 DEF OnUpTo
  <2>4. OnUpTo(blocks, h + 1, k) => \E j \in Naming(last, k) : last[j].on
    BY <1>1, <1>3 DEF OnUpTo
  <2>5. last[top].on \in BOOLEAN
    BY <2>1, BlockFacts DEF Naming, Change
  <2> QED
    BY <1>3, <2>2, <2>3, <2>4, <2>5
<1> QED
  BY <1>2, <1>3

-----------------------------------------------------------------------------
(* Every change of the chain was a change of the status it found: for a key
   with sub-qualifiers, at least no tag was given twice.  The answers recorded
   with a block are those of the chain below it.                            *)
BlocksInv(blocks) ==
    \A i \in 1..Len(blocks) :
        /\ Uniform(blocks[i].changes)
        /\ \A k \in PlainKey : k \in blocks[i].before <=> OnUpTo(blocks, i - 1, k)
        /\ \A k \in Key : \A j \in Naming(blocks[i].changes, k) :
             /\ blocks[i].changes[j].on => ~OnUpTo(blocks, i - 1, k)
             /\ k \in PlainKey /\ ~blocks[i].changes[j].on => OnUpTo(blocks, i - 1, k)

(* What the dirty sets and the database say of a key.                       *)
KeyInv(k) ==
    /\ passets.add[k] = "on" => OnChain(k)
    /\ passets.add[k] = "off" => ~OnChain(k)
    /\ passets.rem[k] = "on" => ~OnChain(k)
    /\ passets.rem[k] = "off" /\ k \in PlainKey => OnChain(k)
    /\ passets.add[k] = "none" /\ passets.rem[k] = "none" =>
         /\ OnChain(k) => k \in db
         /\ k \in PlainKey /\ k \in db => OnChain(k)

IInv == /\ TypeOK
        /\ BlocksInv(chain)
        /\ RootsRight(passets)
        /\ ReadCacheInDatabase
        /\ \A k \in Key : KeyInv(k)

-----------------------------------------------------------------------------
(* Consensus asks and gets the status of the chain.                         *)
LEMMA AnswersRight == IInv => AnswersMatchChain
<1> SUFFICES ASSUME IInv PROVE AnswersMatchChain
  OBVIOUS
<1>1. ASSUME NEW k \in Key
      PROVE  /\ passets.add[k] \in {"none", "on", "off"} /\ passets.rem[k] \in {"none", "on", "off"}
             /\ passets.add[k] = "none" \/ passets.rem[k] = "none"
             /\ k \in lru => k \in db
             /\ KeyInv(k)
  BY DEF IInv, TypeOK, Cache, Entry, ReadCacheInDatabase
<1>2. ASSUME NEW k \in PlainKey PROVE Answer(k) <=> OnChain(k)
  <2>1. k \in Key
    BY KeyFacts
  <2>2. ~HasSubInMap(k)
    BY KeyFacts DEF IInv, RootsRight, HasSubInMap
  <2>3. ~(k \in RootKey /\ HasSubInDB(k))
    BY KeyFacts DEF HasSubInDB, SubsOf
  <2> QED
    BY <1>1, <2>1, <2>2, <2>3 DEF Answer, KeyInv
<1>3. ASSUME NEW k \in RootKey, OnChain(k) PROVE Answer(k)
  <2>1. k \in Key
    BY DEF RootKey, Key, TagKey
  <2> QED
    BY <1>1, <1>3, <2>1 DEF Answer, KeyInv
<1>4. \A k \in PlainKey : Answer(k) = OnChain(k)
  BY <1>2, Zenon DEF Answer, OnChain, OnUpTo
<1> QED
  BY <1>3, <1>4 DEF AnswersMatchChain

LEMMA ChainFacts ==
  ASSUME TypeOK
  PROVE  /\ Len(chain) \in Nat /\ chain \in Seq([changes : Blocks, before : SUBSET Key])
         /\ \A i \in 1..Len(chain) : chain[i].changes \in Blocks
<1> DEFINE R == [changes : Blocks, before : SUBSET Key]
<1>1. chain \in Seq(R)
  BY DEF TypeOK
<1>2. \A b \in R : b.changes \in Blocks
  OBVIOUS
<1> HIDE DEF R
<1>3. Len(chain) \in Nat /\ \A i \in 1..Len(chain) : chain[i] \in R
  BY <1>1
<1> QED
  BY <1>1, <1>2, <1>3 DEF R

(* The chain without its last block.                                        *)
LEMMA PrefixFacts ==
  ASSUME TypeOK, chain # <<>>, NEW c, c = SubSeq(chain, 1, Len(chain) - 1)
  PROVE  /\ Len(c) = Len(chain) - 1 /\ \A i \in 1..(Len(chain) - 1) : c[i] = chain[i]
         /\ c \in Seq([changes : Blocks, before : SUBSET Key])
<1> DEFINE R == [changes : Blocks, before : SUBSET Key]
<1>1. chain \in Seq(R)
  BY DEF TypeOK
<1> HIDE DEF R
<1>2. PICK h \in Nat : Len(chain) = h + 1 /\ c = SubSeq(chain, 1, h)
  BY <1>1
<1>3. c \in Seq(R) /\ Len(c) = h /\ \A i \in 1..h : c[i] = chain[i]
  BY <1>1, <1>2
<1>4. Len(chain) - 1 = h
  BY <1>2
<1> QED
  BY <1>3, <1>4 DEF R

LEMMA InitIInv == Init => IInv
<1> SUFFICES ASSUME Init PROVE IInv
  OBVIOUS
<1>1. TypeOK
  BY CleanFacts, NamesAssumption DEF Init, TypeOK
<1>2. BlocksInv(chain)
  BY DEF Init, BlocksInv
<1>3. RootsRight(passets) /\ ReadCacheInDatabase
  BY CleanFacts DEF Init, ReadCacheInDatabase
<1>4. ASSUME NEW k \in Key PROVE KeyInv(k)
  BY CleanFacts DEF Init, KeyInv, OnChain, OnUpTo
<1> QED
  BY <1>1, <1>2, <1>3, <1>4 DEF IInv

LEMMA ConnectTipStep ==
  ASSUME IInv, NEW block \in Blocks, ConnectTip(block)
  PROVE  IInv'
<1> DEFINE h == Len(chain)
           new == [changes |-> block, before |-> Answers]
<1>1. /\ h < MaxHeight /\ \A j \in DOMAIN block : Verify(block[j])
      /\ passets' = Flushed(Applied(block), passets)
      /\ chain' = Append(chain, new) /\ db' = db
      /\ lru' \in SUBSET (lru \cup ReadFromDB({block[i].key : i \in DOMAIN block}))
  BY DEF ConnectTip, Caches
<1>2. /\ h \in Nat /\ chain \in Seq([changes : Blocks, before : SUBSET Key])
      /\ \A i \in 1..h : chain[i].changes \in Blocks
      /\ MaxHeight \in Nat
  BY NamesAssumption, ChainFacts DEF IInv
<1>3. /\ new \in [changes : Blocks, before : SUBSET Key] /\ new.changes = block
  BY DEF Answers
<1>4. /\ Len(chain') = h + 1 /\ chain'[h + 1] = new
      /\ \A i \in 1..h : chain'[i] = chain[i]
      /\ chain' \in Seq([changes : Blocks, before : SUBSET Key])
  <2> HIDE DEF new
  <2> QED
    BY <1>1, <1>2, <1>3
<1>5. /\ Applied(block) \in Cache /\ RootsRight(Applied(block))
      /\ passets \in Cache /\ RootsRight(passets)
  BY AppliedFacts DEF IInv, TypeOK
<1>6. ASSUME NEW k \in Key
      PROVE  /\ Naming(block, k) = {} => passets'.add[k] = passets.add[k]
                                         /\ passets'.rem[k] = passets.rem[k]
             /\ Naming(block, k) # {} =>
                  /\ passets'.rem[k] = "none"
                  /\ \E j \in Naming(block, k) : passets'.add[k] = Recorded(block[j])
  <2>1. /\ Applied(block).rem[k] = "none"
        /\ Naming(block, k) = {} => Applied(block).add[k] = "none"
        /\ Naming(block, k) # {} =>
             \E j \in Naming(block, k) : Applied(block).add[k] = Recorded(block[j])
    BY AppliedFacts
  <2>2. \A j \in Naming(block, k) : Recorded(block[j]) # "none"
    BY DEF Recorded
  <2>3. /\ passets'.add[k] = IF Applied(block).rem[k] # "none" THEN "none"
                             ELSE IF Applied(block).add[k] # "none" THEN Applied(block).add[k]
                             ELSE passets.add[k]
        /\ passets'.rem[k] = IF Applied(block).rem[k] # "none" THEN Applied(block).rem[k]
                             ELSE IF Applied(block).add[k] # "none" THEN "none"
                             ELSE passets.rem[k]
    BY <1>1, <1>5, FlushedFacts
  <2> QED
    BY <2>1, <2>2, <2>3
<1>7. passets' \in Cache /\ RootsRight(passets')
  BY <1>1, <1>5, FlushedFacts
<1>8. \A j \in DOMAIN block : /\ block[j].key \in Key /\ block[j].on \in BOOLEAN
                              /\ block[j].on <=> ~Answer(block[j].key)
  <2>1. \A j \in DOMAIN block : block[j].key \in Key /\ block[j].on \in BOOLEAN
    BY BlockFacts DEF Change
  <2>2. \A j \in DOMAIN block : block[j].on # Answer(block[j].key)
    BY <1>1 DEF Verify
  <2>3. \A k : Answer(k) \in BOOLEAN
    BY Zenon DEF Answer
  <2> QED
    BY <2>1, <2>2, <2>3
<1>9. Uniform(block)
  BY <1>8 DEF Uniform
<1>10. ASSUME NEW k \in Key, NEW j \in Naming(block, k)
       PROVE  /\ block[j].on => ~OnChain(k)
              /\ k \in PlainKey /\ ~block[j].on => OnChain(k)
  <2>1. j \in DOMAIN block /\ block[j].key = k
    BY DEF Naming
  <2>2. k \in RootKey \/ k \in PlainKey
    BY NamesAssumption DEF PlainKey, Key, TagKey, RootKey
  <2>3. /\ k \in PlainKey => Answer(k) = OnChain(k)
        /\ k \in RootKey /\ OnChain(k) => Answer(k)
    BY AnswersRight DEF AnswersMatchChain
  <2> QED
    BY <1>8, <2>1, <2>2, <2>3
<1>11. \A i \in 0..h : \A k : OnUpTo(chain', i, k) <=> OnUpTo(chain, i, k)
  BY <1>2, <1>4, OnUpToSame
<1>12. ASSUME NEW k \in Key
       PROVE  /\ Naming(block, k) = {} => (OnChain(k)' <=> OnChain(k))
              /\ \A j \in Naming(block, k) : OnChain(k)' <=> block[j].on
  <2>1. chain'[h + 1].changes = block
    BY <1>3, <1>4
  <2>2. /\ Naming(block, k) = {} => (OnUpTo(chain', h + 1, k) <=> OnUpTo(chain', h, k))
        /\ \A j \in Naming(block, k) : OnUpTo(chain', h + 1, k) <=> block[j].on
    BY <1>2, <1>9, <2>1, OnUpToNext
  <2> QED
    BY <1>2, <1>4, <1>11, <2>2 DEF OnChain
<1>13. TypeOK'
  <2>1. lru' \subseteq Key /\ db' \subseteq Key
    BY <1>1 DEF IInv, TypeOK, ReadFromDB
  <2>2. \A k \in Key : passets'.add[k] = "none" \/ passets'.rem[k] = "none"
    BY <1>6 DEF IInv, TypeOK
  <2>3. Len(chain') <= MaxHeight
    BY <1>1, <1>2, <1>4
  <2> QED
    BY <1>4, <1>7, <2>1, <2>2, <2>3 DEF TypeOK
<1>14. BlocksInv(chain)'
  <2> SUFFICES ASSUME NEW i \in 1..(h + 1)
               PROVE  /\ Uniform(chain'[i].changes)
                      /\ \A k \in PlainKey : k \in chain'[i].before <=> OnUpTo(chain', i - 1, k)
                      /\ \A k \in Key : \A j \in Naming(chain'[i].changes, k) :
                           /\ chain'[i].changes[j].on => ~OnUpTo(chain', i - 1, k)
                           /\ k \in PlainKey /\ ~chain'[i].changes[j].on => OnUpTo(chain', i - 1, k)
    BY <1>4 DEF BlocksInv
  <2>1. CASE i \in 1..h
    <3>1. chain'[i] = chain[i] /\ \A k : OnUpTo(chain', i - 1, k) <=> OnUpTo(chain, i - 1, k)
      BY <1>2, <1>4, <1>11, <2>1
    <3> QED
      BY <2>1, <3>1 DEF IInv, BlocksInv
  <2>2. CASE i = h + 1
    <3>1. chain'[i].changes = block /\ chain'[i].before = Answers
      BY <1>3, <1>4, <2>2
    <3>2. \A k : OnUpTo(chain', i - 1, k) <=> OnChain(k)
      BY <1>2, <1>11, <2>2 DEF OnChain
    <3>3. \A k \in PlainKey : k \in Answers <=> OnChain(k)
      BY AnswersRight, KeyFacts DEF AnswersMatchChain, Answers
    <3> QED
      BY <1>9, <1>10, <3>1, <3>2, <3>3
  <2> QED
    BY <1>2, <2>1, <2>2
<1>15. ReadCacheInDatabase'
  BY <1>1 DEF IInv, ReadCacheInDatabase, ReadFromDB
<1>16. ASSUME NEW k \in Key PROVE KeyInv(k)'
  <2>1. CASE Naming(block, k) = {}
    BY <1>1, <1>6, <1>12, <2>1 DEF IInv, KeyInv
  <2>2. CASE Naming(block, k) # {}
    <3>1. PICK j \in Naming(block, k) : passets'.add[k] = Recorded(block[j])
      BY <1>6, <2>2
    <3>2. passets'.rem[k] = "none" /\ (OnChain(k)' <=> block[j].on)
      BY <1>6, <1>12, <2>2
    <3> QED
      BY <3>1, <3>2 DEF KeyInv, Recorded
  <2> QED
    BY <2>1, <2>2
<1> QED
  BY <1>7, <1>13, <1>14, <1>15, <1>16 DEF IInv

LEMMA DisconnectTipStep ==
  ASSUME IInv, DisconnectTip
  PROVE  IInv'
<1> DEFINE h == Len(chain) - 1
           last == chain[Len(chain)].changes
<1>1. /\ chain # <<>> /\ passets' = Flushed(Reverted(last), passets)
      /\ chain' = SubSeq(chain, 1, h) /\ lru' = lru /\ db' = db
  BY DEF DisconnectTip
<1>2. /\ Len(chain) \in Nat /\ chain \in Seq([changes : Blocks, before : SUBSET Key])
      /\ \A i \in 1..Len(chain) : chain[i].changes \in Blocks
      /\ Len(chain) <= MaxHeight /\ MaxHeight \in Nat
  BY NamesAssumption, ChainFacts DEF IInv, TypeOK
<1>3. h \in Nat /\ Len(chain) = h + 1 /\ Len(chain) \in 1..Len(chain)
  BY <1>1, <1>2
<1>4. /\ Len(chain') = h /\ \A i \in 1..h : chain'[i] = chain[i]
      /\ chain' \in Seq([changes : Blocks, before : SUBSET Key])
  BY <1>1, PrefixFacts DEF IInv
<1>5. last \in Blocks /\ Uniform(last)
  BY <1>2, <1>3 DEF IInv, BlocksInv
<1>6. /\ Reverted(last) \in Cache /\ RootsRight(Reverted(last))
      /\ passets \in Cache /\ RootsRight(passets)
  BY <1>5, RevertedFacts DEF IInv, TypeOK
<1>7. ASSUME NEW k \in Key
      PROVE  /\ Naming(last, k) = {} => passets'.add[k] = passets.add[k]
                                        /\ passets'.rem[k] = passets.rem[k]
             /\ Naming(last, k) # {} =>
                  /\ passets'.add[k] = "none"
                  /\ \E j \in Naming(last, k) : passets'.rem[k] = Recorded(last[j])
  <2>1. /\ Reverted(last).add[k] = "none"
        /\ Naming(last, k) = {} => Reverted(last).rem[k] = "none"
        /\ Naming(last, k) # {} =>
             \E j \in Naming(last, k) : Reverted(last).rem[k] = Recorded(last[j])
    BY <1>5, RevertedFacts
  <2>2. \A j \in Naming(last, k) : Recorded(last[j]) # "none"
    BY DEF Recorded
  <2>3. /\ passets'.add[k] = IF Reverted(last).rem[k] # "none" THEN "none"
                             ELSE IF Reverted(last).add[k] # "none" THEN Reverted(last).add[k]
                             ELSE passets.add[k]
        /\ passets'.rem[k] = IF Reverted(last).rem[k] # "none" THEN Reverted(last).rem[k]
                             ELSE IF Reverted(last).add[k] # "none" THEN "none"
                             ELSE passets.rem[k]
    BY <1>1, <1>6, FlushedFacts
  <2> QED
    BY <2>1, <2>2, <2>3
<1>8. passets' \in Cache /\ RootsRight(passets')
  BY <1>1, <1>6, FlushedFacts
<1>9. \A i \in 0..h : \A k : OnUpTo(chain', i, k) <=> OnUpTo(chain, i, k)
  BY <1>3, <1>4, OnUpToSame
<1>10. ASSUME NEW k \in Key
       PROVE  /\ OnChain(k)' <=> OnUpTo(chain, h, k)
              /\ Naming(last, k) = {} => (OnChain(k)' <=> OnChain(k))
  <2>1. OnChain(k)' <=> OnUpTo(chain, h, k)
    BY <1>3, <1>4, <1>9 DEF OnChain
  <2>2. Naming(last, k) = {} => (OnUpTo(chain, h + 1, k) <=> OnUpTo(chain, h, k))
    BY <1>3, <1>5, OnUpToNext
  <2> QED
    BY <1>3, <2>1, <2>2 DEF OnChain
<1>11. TypeOK'
  <2>1. \A k \in Key : passets'.add[k] = "none" \/ passets'.rem[k] = "none"
    BY <1>7 DEF IInv, TypeOK
  <2>2. Len(chain') <= MaxHeight
    BY <1>2, <1>3, <1>4
  <2> QED
    BY <1>1, <1>4, <1>8, <2>1, <2>2 DEF IInv, TypeOK
<1>12. BlocksInv(chain)'
  <2> SUFFICES ASSUME NEW i \in 1..h
               PROVE  /\ Uniform(chain'[i].changes)
                      /\ \A k \in PlainKey : k \in chain'[i].before <=> OnUpTo(chain', i - 1, k)
                      /\ \A k \in Key : \A j \in Naming(chain'[i].changes, k) :
                           /\ chain'[i].changes[j].on => ~OnUpTo(chain', i - 1, k)
                           /\ k \in PlainKey /\ ~chain'[i].changes[j].on => OnUpTo(chain', i - 1, k)
    BY <1>4 DEF BlocksInv
  <2>1. /\ chain'[i] = chain[i] /\ i \in 1..Len(chain)
        /\ \A k : OnUpTo(chain', i - 1, k) <=> OnUpTo(chain, i - 1, k)
    BY <1>3, <1>4, <1>9
  <2> QED
    BY <2>1 DEF IInv, BlocksInv
<1>13. ReadCacheInDatabase'
  BY <1>1 DEF IInv, ReadCacheInDatabase
<1>14. ASSUME NEW k \in Key PROVE KeyInv(k)'
  <2>1. CASE Naming(last, k) = {}
    BY <1>1, <1>7, <1>10, <2>1 DEF IInv, KeyInv
  <2>2. CASE Naming(last, k) # {}
    <3>1. PICK j \in Naming(last, k) : passets'.rem[k] = Recorded(last[j])
      BY <1>7, <2>2
    <3>2. /\ last[j].on => ~OnUpTo(chain, h, k)
          /\ k \in PlainKey /\ ~last[j].on => OnUpTo(chain, h, k)
      BY <1>3 DEF IInv, BlocksInv
    <3>3. passets'.add[k] = "none"
      BY <1>7, <2>2
    <3> QED
      BY <1>10, <3>1, <3>2, <3>3 DEF KeyInv, Recorded
  <2> QED
    BY <2>1, <2>2
<1> QED
  BY <1>8, <1>11, <1>12, <1>13, <1>14 DEF IInv

LEMMA CheckStep ==
  ASSUME IInv, NEW k \in Key, Check(k)
  PROVE  IInv'
<1>1. /\ lru' \subseteq lru \cup ReadFromDB({k})
      /\ chain' = chain /\ passets' = passets /\ db' = db
  BY DEF Check, Caches
<1>2. TypeOK' /\ ReadCacheInDatabase'
  BY <1>1 DEF IInv, TypeOK, ReadCacheInDatabase, ReadFromDB
<1>3. BlocksInv(chain)' /\ RootsRight(passets)'
  BY <1>1 DEF IInv
<1>4. \A x \in Key : KeyInv(x)'
  BY <1>1 DEF IInv, KeyInv, OnChain
<1> QED
  BY <1>2, <1>3, <1>4 DEF IInv

LEMMA DumpStep ==
  ASSUME IInv, DumpCacheToDatabase
  PROVE  IInv'
<1>1. /\ db' = (db \cup Present) \ Absent /\ lru' \subseteq (lru \cup Present) \ Absent
      /\ passets' = Clean /\ chain' = chain
  BY DEF DumpCacheToDatabase, Caches
<1>2. TypeOK' /\ ReadCacheInDatabase'
  BY <1>1, CleanFacts DEF IInv, TypeOK, ReadCacheInDatabase, Present
<1>3. BlocksInv(chain)' /\ RootsRight(passets)'
  BY <1>1, CleanFacts DEF IInv
<1>4. ASSUME NEW k \in Key PROVE KeyInv(k)'
  <2>1. /\ passets.add[k] \in {"none", "on", "off"} /\ passets.rem[k] \in {"none", "on", "off"}
        /\ passets.add[k] = "none" \/ passets.rem[k] = "none"
        /\ KeyInv(k)
    BY DEF IInv, TypeOK, Cache, Entry
  <2>2. passets'.add[k] = "none" /\ passets'.rem[k] = "none" /\ (OnChain(k)' <=> OnChain(k))
    BY <1>1, CleanFacts DEF OnChain
  <2>3. OnChain(k) => k \in db'
    BY <1>1, <2>1 DEF KeyInv, Present, Absent
  <2>4. k \in PlainKey /\ k \in db' => OnChain(k)
    BY <1>1, <2>1 DEF KeyInv, Present, Absent
  <2> QED
    BY <2>2, <2>3, <2>4 DEF KeyInv
<1> QED
  BY <1>2, <1>3, <1>4 DEF IInv

LEMMA UnchangedStep ==
  ASSUME IInv, UNCHANGED vars
  PROVE  IInv'
<1>1. chain' = chain /\ passets' = passets /\ lru' = lru /\ db' = db
  BY DEF vars
<1>2. TypeOK' /\ ReadCacheInDatabase' /\ BlocksInv(chain)' /\ RootsRight(passets)'
  BY <1>1 DEF IInv, TypeOK, ReadCacheInDatabase
<1>3. \A k \in Key : KeyInv(k)'
  BY <1>1 DEF IInv, KeyInv, OnChain
<1> QED
  BY <1>2, <1>3 DEF IInv

LEMMA IInvStep == IInv /\ [Next]_vars => IInv'
<1> SUFFICES ASSUME IInv, [Next]_vars PROVE IInv'
  OBVIOUS
<1>1. CASE \E block \in Blocks : ConnectTip(block)
  BY <1>1, ConnectTipStep
<1>2. CASE DisconnectTip
  BY <1>2, DisconnectTipStep
<1>3. CASE \E k \in Key : Check(k)
  BY <1>3, CheckStep
<1>4. CASE DumpCacheToDatabase
  BY <1>4, DumpStep
<1>5. CASE UNCHANGED vars
  BY <1>5, UnchangedStep
<1> QED
  BY <1>1, <1>2, <1>3, <1>4, <1>5, Zenon DEF Next

-----------------------------------------------------------------------------
(* The inductive invariant holds in every reachable state.                  *)
THEOREM Invariance == Spec => []IInv
  BY InitIInv, IInvStep, PTL DEF Spec

(* The variables have their types, and the dirty sets never hold a key both as
   added and as removed.                                                    *)
THEOREM TypeCorrect == Spec => []TypeOK
<1>1. IInv => TypeOK
  BY DEF IInv
<1> QED
  BY <1>1, Invariance, PTL

(* The checks of frozen addresses, frozen assets and tags answer what the
   active chain says, whatever was reorganised, dumped, cached or evicted.  *)
THEOREM AnswersCorrect == Spec => []AnswersMatchChain
  BY Invariance, AnswersRight, PTL

(* The read caches of CheckForAddressQualifier and its siblings hold only keys
   the database has.                                                        *)
THEOREM ReadCacheCorrect == Spec => []ReadCacheInDatabase
<1>1. IInv => ReadCacheInDatabase
  BY DEF IInv
<1> QED
  BY <1>1, Invariance, PTL

LEMMA UndoStep ==
  ASSUME IInv, IInv', DisconnectTip, NEW k \in PlainKey
  PROVE  Answer(k)' <=> k \in chain[Len(chain)].before
<1> DEFINE h == Len(chain) - 1
<1>1. chain # <<>> /\ chain' = SubSeq(chain, 1, h)
  BY DEF DisconnectTip
<1>2. h \in Nat /\ Len(chain) \in 1..Len(chain)
  BY <1>1, ChainFacts DEF IInv
<1>3. Len(chain') = h /\ \A i \in 1..h : chain'[i] = chain[i]
  BY <1>1, PrefixFacts DEF IInv
<1>4. OnChain(k)' <=> OnUpTo(chain, h, k)
  BY <1>2, <1>3, OnUpToSame DEF OnChain
<1>5. k \in chain[Len(chain)].before <=> OnUpTo(chain, h, k)
  BY <1>2 DEF IInv, BlocksInv
<1>6. Answer(k)' = OnChain(k)'
  <2>1. AnswersMatchChain'
    BY AnswersRight, PTL
  <2> QED
    BY <2>1 DEF AnswersMatchChain
<1> QED
  BY <1>4, <1>5, <1>6

(* Disconnecting a block gives back the answers from before it, for frozen
   addresses, frozen assets and tags without sub-qualifiers.                *)
THEOREM UndoCorrect == Spec => PlainUndoRestores
<1>1. IInv /\ IInv' /\ [Next]_vars =>
        [DisconnectTip =>
           \A k \in PlainKey : Answer(k)' <=> k \in chain[Len(chain)].before]_vars
  BY UndoStep
<1> QED
  BY <1>1, Invariance, PTL DEF Spec, PlainUndoRestores
==============================================================================
