------------------------ MODULE AssetMetadataProofs --------------------------
(***************************************************************************)
(* Proofs about module AssetMetadata, for any assets and transactions, any *)
(* length of the chain and any number of transactions in a block.  Types   *)
(* are right whatever the blocks hold; if no block has two transactions of *)
(* one asset, the look-ups agree with the active chain.                    *)
(*                                                                         *)
(* The plan.  What a block does is a loop over its transactions; the loops *)
(* are recursive functions, so each is first shown to exist with its type, *)
(* round by round.  With one transaction per asset, the loop does to an    *)
(* asset what that one transaction does: ConnectedFacts, UndoneFacts and,  *)
(* for what the chain says, SaidByBlockFacts.  The invariant AssetInv is   *)
(* then kept asset by asset, with a case for an issue, a reissue and a     *)
(* block that does not name the asset, connected or disconnected.          *)
(***************************************************************************)
EXTENDS AssetMetadata, WellFoundedInduction, TLAPS

-----------------------------------------------------------------------------
(* Induction over the rounds of a loop.                                    *)

(* Every non-empty set of natural numbers has a least element.              *)
LEMMA LeastNumber ==
  ASSUME NEW T \in SUBSET Nat, T # {}
  PROVE  \E x \in T : \A y \in T : x <= y
<1>1. PICK x \in T : \A y \in T : ~ (<<y, x>> \in OpToRel(<, Nat))
  BY NatLessThanWellFounded, WFMin, Zenon
<1>2. \A y \in T : ~(y < x)
  BY <1>1, Zenon DEF OpToRel
<1> QED
  BY <1>2

(* A set with 0 and, with every number, the next one has every number.      *)
LEMMA NumberInduction ==
  ASSUME NEW S, 0 \in S, \A n \in Nat : n \in S => n + 1 \in S
  PROVE  \A n \in Nat : n \in S
<1> SUFFICES ASSUME Nat \ S # {} PROVE FALSE
  OBVIOUS
<1>1. PICK x \in Nat \ S : \A y \in Nat \ S : x <= y
  BY LeastNumber, Zenon
<1>2. x # 0 /\ x - 1 \in Nat /\ x - 1 < x /\ (x - 1) + 1 = x
  BY <1>1
<1>3. x - 1 \in S
  BY <1>1, <1>2
<1> QED
  BY <1>1, <1>2, <1>3

(* The same for the first len rounds of a loop.                             *)
LEMMA LoopInduction ==
  ASSUME NEW len \in Nat, NEW S, 0 \in S, \A n \in 1..len : n - 1 \in S => n \in S
  PROVE  \A n \in 0..len : n \in S
<1> DEFINE T == {n \in Nat : n <= len => n \in S}
<1>1. 0 \in T
  OBVIOUS
<1>2. ASSUME NEW n \in Nat, n \in T PROVE n + 1 \in T
  <2>1. n + 1 <= len => n <= len /\ n + 1 \in 1..len /\ (n + 1) - 1 = n
    OBVIOUS
  <2> QED
    BY <1>2, <2>1
<1>3. \A n \in Nat : n \in T
  <2> HIDE DEF T
  <2> QED
    BY <1>1, <1>2, NumberInduction
<1> QED
  BY <1>3

(* f is the run of a loop that starts with base and whose n-th round maps v to
   step[<<n, v>>].                                                          *)
IsLoop(f, base, step, len) ==
    f = [n \in 0..len |-> IF n = 0 THEN base ELSE step[<<n, f[n - 1]>>]]

(* Such a run exists: the rounds define it one after the other.             *)
LEMMA LoopExists ==
  ASSUME NEW V, NEW base \in V, NEW step \in [Nat \X V -> V], NEW len \in Nat
  PROVE  \E f \in [0..len -> V] : IsLoop(f, base, step, len)
<1> DEFINE S == {n \in Nat : \E f \in [0..n -> V] : IsLoop(f, base, step, n)}
<1>1. 0 \in S
  <2> DEFINE f == [n \in 0..0 |-> base]
  <2>1. f \in [0..0 -> V] /\ IsLoop(f, base, step, 0)
    BY DEF IsLoop
  <2> QED
    BY <2>1
<1>2. ASSUME NEW n \in Nat, n \in S PROVE n + 1 \in S
  <2>1. PICK f \in [0..n -> V] : IsLoop(f, base, step, n)
    BY <1>2
  <2> DEFINE g == [i \in 0..n + 1 |-> IF i = n + 1 THEN step[<<n + 1, f[n]>>] ELSE f[i]]
  <2>2. f[n] \in V /\ \A i \in 0..n : f[i] = IF i = 0 THEN base ELSE step[<<i, f[i - 1]>>]
    BY <2>1 DEF IsLoop
  <2>3. ASSUME NEW i \in 0..n + 1
        PROVE  g[i] \in V /\ g[i] = IF i = 0 THEN base ELSE step[<<i, g[i - 1]>>]
    <3>1. CASE i = n + 1
      <4>1. i - 1 = n /\ i # 0 /\ g[i - 1] = f[n]
        BY <3>1
      <4>2. step[<<n + 1, f[n]>>] \in V
        BY <2>2
      <4> QED
        BY <3>1, <4>1, <4>2
    <3>2. CASE i # n + 1
      <4>1. i \in 0..n /\ (i # 0 => i - 1 \in 0..n /\ i - 1 # n + 1)
        BY <3>2
      <4>2. g[i] = f[i] /\ (i # 0 => g[i - 1] = f[i - 1])
        BY <3>2, <4>1
      <4> QED
        BY <2>2, <4>1, <4>2, Zenon
    <3> QED
      BY <3>1, <3>2
  <2>4. g \in [0..n + 1 -> V] /\ IsLoop(g, base, step, n + 1)
    BY <2>3, Zenon DEF IsLoop
  <2> HIDE DEF g
  <2>5. \E h \in [0..n + 1 -> V] : IsLoop(h, base, step, n + 1)
    BY <2>4, Zenon
  <2> QED
    BY <2>5
<1>3. \A n \in Nat : n \in S
  <2> HIDE DEF S
  <2> QED
    BY <1>1, <1>2, NumberInduction
<1> QED
  BY <1>3, Zenon

-----------------------------------------------------------------------------
(* The fields of a transaction.                                             *)
LEMMA TxFacts ==
  ASSUME NEW tx \in Tx
  PROVE  /\ tx.name \in Asset /\ tx.amount \in Nat /\ tx.reissuable \in BOOLEAN
         /\ tx.kind \in {"issue", "reissue"}
         /\ tx.units \in Nat \cup {Keep} /\ tx.ipfs \in STRING \cup {Keep}
         /\ tx.verifier \in STRING \cup {Keep}
         /\ tx.kind = "issue" =>
              /\ tx.units \in Nat /\ tx.ipfs \in STRING
              /\ tx.verifier \in STRING /\ tx.verifier # None /\ tx.verifier # Keep
<1>1. tx \in TxFields
  BY TxAssumption
<1>2. /\ tx.name \in Asset /\ tx.amount \in Nat /\ tx.reissuable \in BOOLEAN
      /\ tx.kind \in {"issue", "reissue"}
      /\ tx.units \in Nat \cup {Keep} /\ tx.ipfs \in STRING \cup {Keep}
      /\ tx.verifier \in STRING \cup {Keep}
  BY <1>1 DEF TxFields
<1> QED
  BY <1>2, TxAssumption

(* None is no metadata, no verifier string and no removal of one.           *)
LEMMA NoneFacts == None \notin Meta /\ None \notin STRING /\ None \notin VerifierUndo /\ Keep # None
                   /\ Keep \notin Nat /\ Keep \notin STRING
  BY TxAssumption

(* The metadata of an issue, and of a reissue, are metadata.                *)
LEMMA MetaFacts ==
  ASSUME NEW tx \in Tx
  PROVE  /\ tx.kind = "issue" => NewMeta(tx) \in Meta
         /\ \A m \in Meta : ReissuedMeta(m, tx) \in Meta
<1>1. tx.kind = "issue" => NewMeta(tx) \in Meta
  BY TxFacts DEF NewMeta, Meta
<1>2. ASSUME NEW m \in Meta PROVE ReissuedMeta(m, tx) \in Meta
  <2>1. m.amount \in Int /\ m.units \in Nat /\ m.ipfs \in STRING
    BY DEF Meta
  <2>2. /\ m.amount + tx.amount \in Int
        /\ Changed(tx.units, m.units) \in Nat
        /\ Changed(tx.ipfs, m.ipfs) \in STRING
        /\ tx.reissuable \in BOOLEAN
    BY <2>1, TxFacts DEF Changed
  <2> QED
    BY <2>2 DEF ReissuedMeta, Meta
<1> QED
  BY <1>1, <1>2

(* What a cache holds of one asset: nothing, or the same as another cache.  *)
CleanPart(c, n) ==
    /\ c.add[n] = None /\ n \notin c.rem /\ c.reissued[n] = None
    /\ \A tx \in Tx : tx.name = n => tx \notin c.reAdd /\ tx \notin c.reRem
    /\ c.verAdd[n] = None /\ c.verRem[n] = None

SamePart(c, d, n) ==
    /\ c.add[n] = d.add[n] /\ c.reissued[n] = d.reissued[n]
    /\ n \in c.rem <=> n \in d.rem
    /\ \A tx \in Tx : tx.name = n => /\ tx \in c.reAdd <=> tx \in d.reAdd
                                     /\ tx \in c.reRem <=> tx \in d.reRem
    /\ c.verAdd[n] = d.verAdd[n] /\ c.verRem[n] = d.verRem[n]

(* The fields of a cache.                                                   *)
LEMMA CacheFields ==
  ASSUME NEW c \in Cache
  PROVE  /\ c.add \in [Asset -> Meta \cup {None}] /\ c.rem \subseteq Asset
         /\ c.reissued \in [Asset -> Meta \cup {None}]
         /\ c.reAdd \subseteq Tx /\ c.reRem \subseteq Tx
         /\ c.verAdd \in [Asset -> STRING \cup {None}]
         /\ c.verRem \in [Asset -> VerifierUndo \cup {None}]
  BY DEF Cache

(* The cache that ConnectTip and DisconnectTip begin with.                  *)
LEMMA CleanFacts == Clean \in Cache /\ \A n \in Asset : CleanPart(Clean, n)
  BY DEF Clean, Cache, Nothing, CleanPart

(* A cache with the entries of a cache that holds nothing of an asset holds
   nothing of it either.                                                    *)
LEMMA PartTransfer ==
  ASSUME NEW c, NEW d, NEW n, SamePart(c, d, n), CleanPart(d, n)
  PROVE  CleanPart(c, n)
  BY DEF SamePart, CleanPart

-----------------------------------------------------------------------------
(* The look-ups.                                                            *)
LEMMA ReadsTyped ==
  ASSUME TypeOK, NEW c \in Cache, NEW n \in Asset
  PROVE  /\ MetaOf(c, n) \in Meta \cup {None}
         /\ VerifierOf(c, n) \in STRING \cup {None}
         /\ Exists(c, n) \in BOOLEAN
         /\ Exists(c, n) => MetaOf(c, n) \in Meta
<1>1. /\ c.add[n] \in Meta \cup {None} /\ c.reissued[n] \in Meta \cup {None}
      /\ c.verAdd[n] \in STRING \cup {None} /\ c.verRem[n] \in VerifierUndo \cup {None}
  BY CacheFields
<1>2. passets \in Cache
  BY DEF TypeOK
<1>3. /\ passets.add[n] \in Meta \cup {None} /\ passets.reissued[n] \in Meta \cup {None}
      /\ passets.verAdd[n] \in STRING \cup {None} /\ passets.verRem[n] \in VerifierUndo \cup {None}
  BY <1>2, CacheFields
<1>4. /\ metaLru[n] \in Meta \cup {None} /\ metaDB[n] \in Meta \cup {None}
      /\ verLru[n] \in STRING \cup {None} /\ verDB[n] \in STRING \cup {None}
  BY DEF TypeOK
<1>5. MetaOf(c, n) \in Meta \cup {None}
  BY <1>1, <1>3, <1>4 DEF MetaOf, Or
<1>6. VerifierOf(c, n) \in STRING \cup {None}
  <2> DEFINE undo == Or(c.verRem[n], passets.verRem[n])
  <2>1. undo \in VerifierUndo \cup {None}
    BY <1>1, <1>3 DEF Or
  <2>2. undo # None => undo.verifier \in STRING \cup {None}
    BY <2>1 DEF VerifierUndo
  <2>3. Or(Or(c.verAdd[n], passets.verAdd[n]), Or(verLru[n], verDB[n])) \in STRING \cup {None}
    BY <1>1, <1>3, <1>4 DEF Or
  <2> HIDE DEF undo
  <2>4. VerifierOf(c, n) = IF undo # None
       THEN IF undo.undoingReissue THEN undo.verifier ELSE None
       ELSE Or(Or(c.verAdd[n], passets.verAdd[n]), Or(verLru[n], verDB[n]))
    BY DEF VerifierOf, undo
  <2> QED
    BY <2>2, <2>3, <2>4
<1>7. Exists(c, n) \in BOOLEAN
  BY DEF Exists
<1>8. Exists(c, n) => MetaOf(c, n) # None
  BY DEF Exists, MetaOf, Or
<1> QED
  BY <1>5, <1>6, <1>7, <1>8

(* A block's cache that holds nothing of an asset is transparent.           *)
LEMMA CleanReads ==
  ASSUME NEW c, NEW n, CleanPart(c, n)
  PROVE  /\ Exists(c, n) <=> Exists(passets, n)
         /\ MetaOf(c, n) = MetaOf(passets, n)
         /\ VerifierOf(c, n) = VerifierOf(passets, n)
<1>1. Exists(c, n) <=> Exists(passets, n)
  BY DEF CleanPart, Exists
<1>2. MetaOf(c, n) = MetaOf(passets, n)
  BY DEF CleanPart, MetaOf, Or
<1>3. VerifierOf(c, n) = VerifierOf(passets, n)
  BY DEF CleanPart, VerifierOf, Or
<1> QED
  BY <1>1, <1>2, <1>3

-----------------------------------------------------------------------------
(* The four operations on a block's cache.                                  *)
(* What connecting a transaction leaves of its asset in a cache that held
   nothing of it.                                                           *)
ConnectPart(c, tx) ==
    IF tx.kind = "issue"
    THEN /\ c.add[tx.name] = NewMeta(tx) /\ tx.name \notin c.rem
         /\ c.reissued[tx.name] = None
         /\ \A y \in Tx : y.name = tx.name => y \notin c.reAdd /\ y \notin c.reRem
         /\ c.verAdd[tx.name] = tx.verifier /\ c.verRem[tx.name] = None
    ELSE /\ c.add[tx.name] = None /\ tx.name \notin c.rem
         /\ c.reissued[tx.name] = ReissuedMeta(MetaOf(passets, tx.name), tx)
         /\ tx \in c.reAdd
         /\ \A y \in Tx : y.name = tx.name => y \notin c.reRem
         /\ c.verAdd[tx.name] = Changed(tx.verifier, None) /\ c.verRem[tx.name] = None

(* AddNewAsset and AddRestrictedVerifier: only the entries of the asset change,
   and where there were none they become those of ConnectPart.              *)
LEMMA IssuedFacts ==
  ASSUME NEW c \in Cache, NEW tx \in Tx, tx.kind = "issue"
  PROVE  LET d == Issued(c, tx)
         IN /\ d \in Cache
            /\ \A m \in Asset : m # tx.name => SamePart(d, c, m)
            /\ CleanPart(c, tx.name) /\ ~Exists(c, tx.name) => ConnectPart(d, tx)
<1> DEFINE n == tx.name
           new == Inserted(c.add, n, NewMeta(tx))
           rest == c.rem \ {n}
           d == IF Exists(c, n) THEN c ELSE [c EXCEPT !.rem = rest, !.add = new]
           ver == Inserted(c.verAdd, n, tx.verifier)
           undo == [c.verRem EXCEPT ![n] = None]
           e == [d EXCEPT !.verRem = undo, !.verAdd = ver]
<1>1. n \in Asset /\ tx.verifier \in STRING /\ NewMeta(tx) \in Meta
  BY TxFacts, MetaFacts
<1>2. /\ c.verRem \in [Asset -> VerifierUndo \cup {None}] /\ c.rem \subseteq Asset
      /\ c.add \in [Asset -> Meta \cup {None}]
      /\ c.verAdd \in [Asset -> STRING \cup {None}]
  BY CacheFields
<1>3. /\ new \in [Asset -> Meta \cup {None}]
      /\ c.add[n] = None => new[n] = NewMeta(tx)
      /\ \A m \in Asset : m # n => new[m] = c.add[m]
  BY <1>1, <1>2 DEF Inserted
<1>4. /\ ver \in [Asset -> STRING \cup {None}]
      /\ c.verAdd[n] = None => ver[n] = tx.verifier
      /\ \A m \in Asset : m # n => ver[m] = c.verAdd[m]
  BY <1>1, <1>2 DEF Inserted
<1>5. /\ rest \in SUBSET Asset /\ n \notin rest
      /\ \A m \in Asset : m # n => (m \in rest <=> m \in c.rem)
      /\ undo \in [Asset -> VerifierUndo \cup {None}] /\ undo[n] = None
      /\ \A m \in Asset : m # n => undo[m] = c.verRem[m]
  BY <1>1, <1>2
<1> HIDE DEF n, new, rest, ver, undo
<1>6. /\ d \in Cache
      /\ d.add = IF Exists(c, n) THEN c.add ELSE new
      /\ d.rem = IF Exists(c, n) THEN c.rem ELSE rest
      /\ d.reissued = c.reissued /\ d.reAdd = c.reAdd /\ d.reRem = c.reRem
      /\ d.verAdd = c.verAdd /\ d.verRem = c.verRem
  <2>1. LET b == [c EXCEPT !.rem = rest, !.add = new]
        IN /\ b \in Cache /\ b.add = new /\ b.rem = rest /\ b.reissued = c.reissued
           /\ b.reAdd = c.reAdd /\ b.reRem = c.reRem
           /\ b.verAdd = c.verAdd /\ b.verRem = c.verRem
    <3>1. new \in [Asset -> Meta \cup {None}] /\ rest \in SUBSET Asset
      BY <1>3, <1>5
    <3> QED
      BY <3>1, Zenon DEF Cache
  <2> QED
    BY <2>1, Zenon
<1>7. e = Issued(c, tx)
  <2>1. Issued(c, tx) = [d EXCEPT !.verRem = [d.verRem EXCEPT ![n] = None],
                                  !.verAdd = Inserted(d.verAdd, n, tx.verifier)]
    BY DEF Issued, n, new, rest
  <2> QED
    BY <1>6, <2>1 DEF undo, ver
<1> HIDE DEF d
<1>8. /\ e \in Cache /\ e.add = d.add /\ e.rem = d.rem /\ e.reissued = d.reissued
      /\ e.reAdd = d.reAdd /\ e.reRem = d.reRem /\ e.verAdd = ver /\ e.verRem = undo
  <2>1. /\ ver \in [Asset -> STRING \cup {None}] /\ undo \in [Asset -> VerifierUndo \cup {None}]
        /\ d \in Cache
    BY <1>4, <1>5, <1>6
  <2> QED
    BY <2>1, Zenon DEF Cache
<1> HIDE DEF e
<1>9. \A m \in Asset : m # n => SamePart(e, c, m)
  BY <1>3, <1>4, <1>5, <1>6, <1>8 DEF SamePart
<1>10. ASSUME CleanPart(c, n), ~Exists(c, n) PROVE ConnectPart(e, tx)
  <2>1. /\ e.add[n] = NewMeta(tx) /\ n \notin e.rem /\ e.reissued[n] = None
        /\ e.verAdd[n] = tx.verifier /\ e.verRem[n] = None
        /\ \A y \in Tx : y.name = n => y \notin e.reAdd /\ y \notin e.reRem
    BY <1>3, <1>4, <1>5, <1>6, <1>8, <1>10 DEF CleanPart
  <2> QED
    BY <2>1 DEF ConnectPart, n
<1> QED
  BY <1>7, <1>8, <1>9, <1>10 DEF n

(* The same of AddReissueAsset.                                             *)
LEMMA ReissuedFacts ==
  ASSUME TypeOK, NEW c \in Cache, NEW tx \in Tx, tx.kind # "issue", MetaOf(c, tx.name) # None
  PROVE  LET d == Reissued(c, tx)
         IN /\ d \in Cache
            /\ \A m \in Asset : m # tx.name => SamePart(d, c, m)
            /\ CleanPart(c, tx.name) => ConnectPart(d, tx)
<1> DEFINE n == tx.name
           meta == ReissuedMeta(MetaOf(c, n), tx)
           metas == [c.reissued EXCEPT ![n] = meta]
           adds == c.reAdd \cup {tx}
           rems == c.reRem \ {tx}
           d == [c EXCEPT !.reissued = metas, !.reRem = rems, !.reAdd = adds]
           ver == Inserted(c.verAdd, n, tx.verifier)
           undo == [c.verRem EXCEPT ![n] = None]
           e == IF tx.verifier = Keep THEN d ELSE [d EXCEPT !.verRem = undo, !.verAdd = ver]
<1>1. n \in Asset /\ tx.verifier \in STRING \cup {Keep}
  BY TxFacts
<1>2. meta \in Meta
  BY <1>1, ReadsTyped, MetaFacts
<1> HIDE DEF meta
<1>3. /\ c.verRem \in [Asset -> VerifierUndo \cup {None}]
      /\ c.reissued \in [Asset -> Meta \cup {None}]
      /\ c.verAdd \in [Asset -> STRING \cup {None}]
      /\ c.reAdd \subseteq Tx /\ c.reRem \subseteq Tx
  BY CacheFields
<1>4. /\ metas \in [Asset -> Meta \cup {None}] /\ metas[n] = meta
      /\ \A m \in Asset : m # n => metas[m] = c.reissued[m]
  BY <1>1, <1>2, <1>3
<1>5. tx.verifier # Keep =>
        /\ ver \in [Asset -> STRING \cup {None}]
        /\ c.verAdd[n] = None => ver[n] = tx.verifier
        /\ \A m \in Asset : m # n => ver[m] = c.verAdd[m]
  BY <1>1, <1>3 DEF Inserted
<1>6. /\ undo \in [Asset -> VerifierUndo \cup {None}] /\ undo[n] = None
      /\ \A m \in Asset : m # n => undo[m] = c.verRem[m]
  BY <1>1, <1>3
<1>7. /\ adds \in SUBSET Tx /\ rems \in SUBSET Tx /\ tx \in adds
      /\ \A y \in Tx : y.name # n => (y \in adds <=> y \in c.reAdd) /\ (y \in rems <=> y \in c.reRem)
      /\ \A y \in Tx : y \in rems => y \in c.reRem
  BY <1>3
<1> HIDE DEF n, metas, adds, rems, ver, undo
<1>8. /\ d \in Cache /\ d.add = c.add /\ d.rem = c.rem /\ d.reissued = metas
      /\ d.reAdd = adds /\ d.reRem = rems /\ d.verAdd = c.verAdd /\ d.verRem = c.verRem
  <2>1. metas \in [Asset -> Meta \cup {None}] /\ adds \in SUBSET Tx /\ rems \in SUBSET Tx
    BY <1>4, <1>7
  <2> QED
    BY <2>1, Zenon DEF Cache
<1>9. e = Reissued(c, tx)
  <2>1. Reissued(c, tx) =
          IF tx.verifier = Keep THEN d
          ELSE [d EXCEPT !.verRem = [d.verRem EXCEPT ![n] = None],
                         !.verAdd = Inserted(d.verAdd, n, tx.verifier)]
    BY DEF Reissued, n, meta, metas, adds, rems
  <2> QED
    BY <1>8, <2>1 DEF undo, ver
<1> HIDE DEF d
<1>10. /\ e \in Cache /\ e.add = d.add /\ e.rem = d.rem /\ e.reissued = d.reissued
       /\ e.reAdd = d.reAdd /\ e.reRem = d.reRem
       /\ e.verAdd = IF tx.verifier = Keep THEN c.verAdd ELSE ver
       /\ e.verRem = IF tx.verifier = Keep THEN c.verRem ELSE undo
  <2>1. tx.verifier # Keep =>
          LET b == [d EXCEPT !.verRem = undo, !.verAdd = ver]
          IN /\ b \in Cache /\ b.add = d.add /\ b.rem = d.rem /\ b.reissued = d.reissued
             /\ b.reAdd = d.reAdd /\ b.reRem = d.reRem
             /\ b.verAdd = ver /\ b.verRem = undo
    <3>1. tx.verifier # Keep =>
            /\ ver \in [Asset -> STRING \cup {None}]
            /\ undo \in [Asset -> VerifierUndo \cup {None}] /\ d \in Cache
      BY <1>5, <1>6, <1>8
    <3> QED
      BY <3>1, Zenon DEF Cache
  <2> QED
    BY <1>8, <2>1, Zenon
<1> HIDE DEF e
<1>11. \A m \in Asset : m # n => SamePart(e, c, m)
  BY <1>4, <1>5, <1>6, <1>7, <1>8, <1>10 DEF SamePart
<1>12. ASSUME CleanPart(c, n) PROVE ConnectPart(e, tx)
  <2>1. meta = ReissuedMeta(MetaOf(passets, n), tx)
    BY <1>12, CleanReads DEF meta
  <2>2. /\ e.add[n] = None /\ n \notin e.rem /\ e.reissued[n] = meta /\ tx \in e.reAdd
        /\ \A y \in Tx : y.name = n => y \notin e.reRem
        /\ e.verAdd[n] = Changed(tx.verifier, None) /\ e.verRem[n] = None
    BY <1>1, <1>4, <1>5, <1>6, <1>7, <1>8, <1>10, <1>12 DEF CleanPart, Changed
  <2> QED
    BY <2>1, <2>2 DEF ConnectPart, n
<1> QED
  BY <1>9, <1>10, <1>11, <1>12 DEF n

(* What undoing a transaction leaves of its asset in such a cache.          *)
UndoneMeta(meta, tx, item) ==
    [amount |-> meta.amount - tx.amount, reissuable |-> TRUE,
     units |-> Changed(item.units, meta.units), ipfs |-> Changed(item.ipfs, meta.ipfs)]

(* The metadata that RemoveReissueAsset computes are metadata.              *)
LEMMA UndoneMetaTyped ==
  ASSUME NEW m \in Meta, NEW tx \in Tx, NEW item \in UndoItem
  PROVE  UndoneMeta(m, tx, item) \in Meta
<1>1. m.amount \in Int /\ m.units \in Nat /\ m.ipfs \in STRING /\ tx.amount \in Nat
  BY TxFacts DEF Meta
<1>2. item.units \in Nat \cup {Keep} /\ item.ipfs \in STRING \cup {Keep}
  BY DEF UndoItem
<1>3. /\ m.amount - tx.amount \in Int
      /\ Changed(item.units, m.units) \in Nat /\ Changed(item.ipfs, m.ipfs) \in STRING
  BY <1>1, <1>2 DEF Changed
<1> QED
  BY <1>3 DEF UndoneMeta, Meta

UndoPart(c, tx, undo) ==
    LET item == ItemOf(undo, tx.name)
    IN IF tx.kind = "issue"
       THEN /\ c.add[tx.name] = None
            /\ tx.name \in c.rem <=> Exists(passets, tx.name)
            /\ c.reissued[tx.name] = None
            /\ \A y \in Tx : y.name = tx.name => y \notin c.reAdd /\ y \notin c.reRem
            /\ c.verAdd[tx.name] = None
            /\ c.verRem[tx.name] = [verifier |-> tx.verifier, undoingReissue |-> FALSE]
       ELSE IF ~Exists(passets, tx.name) THEN CleanPart(c, tx.name)
       ELSE /\ c.add[tx.name] = None /\ tx.name \notin c.rem
            /\ c.reissued[tx.name] = UndoneMeta(MetaOf(passets, tx.name), tx, item)
            /\ \A y \in Tx : y.name = tx.name => y \notin c.reAdd
            /\ tx \in c.reRem
            /\ c.verAdd[tx.name] = None
            /\ c.verRem[tx.name] = IF item.verifier = Keep THEN None
                                   ELSE [verifier |-> item.verifier, undoingReissue |-> TRUE]

(* The undo record found for an asset, or the one that changes nothing.     *)
LEMMA ItemTyped ==
  ASSUME NEW undo \in Seq(UndoItem), NEW n \in Asset
  PROVE  /\ ItemOf(undo, n) \in UndoItem
         /\ LET of == {i \in DOMAIN undo : undo[i].name = n}
            IN of # {} => \E i \in of : ItemOf(undo, n) = undo[i]
<1> DEFINE of == {i \in DOMAIN undo : undo[i].name = n}
           first == CHOOSE i \in of : \A j \in of : i <= j
<1>1. DOMAIN undo = 1..Len(undo) /\ Len(undo) \in Nat
  OBVIOUS
<1>2. \A i \in DOMAIN undo : undo[i] \in UndoItem
  OBVIOUS
<1>3. CASE of = {}
  <2>1. ItemOf(undo, n) = [name |-> n, units |-> Keep, ipfs |-> Keep, verifier |-> Keep]
    BY <1>3 DEF ItemOf
  <2> QED
    BY <1>3, <2>1 DEF UndoItem
<1>4. CASE of # {}
  <2>1. of \in SUBSET Nat
    BY <1>1
  <2>2. \E i \in of : \A j \in of : i <= j
    <3> HIDE DEF of
    <3> QED
      BY <1>4, <2>1, LeastNumber, Zenon
  <2>3. first \in of
    <3> HIDE DEF of
    <3> QED
      BY <2>2
  <2>4. ItemOf(undo, n) = undo[first]
    BY <1>4 DEF ItemOf
  <2> HIDE DEF first
  <2> QED
    BY <1>2, <2>3, <2>4
<1> QED
  BY <1>3, <1>4

(* RemoveNewAsset and RemoveRestrictedVerifier: only the entries of the asset
   change, and where there were none they become those of UndoPart.         *)
LEMMA UndoneIssueFacts ==
  ASSUME NEW c \in Cache, NEW tx \in Tx, tx.kind = "issue", NEW undo
  PROVE  LET d == UndoneIssue(c, tx)
         IN /\ d \in Cache
            /\ \A m \in Asset : m # tx.name => SamePart(d, c, m)
            /\ CleanPart(c, tx.name) => UndoPart(d, tx, undo)
<1> DEFINE n == tx.name
           adds == [c.add EXCEPT ![n] = None]
           rems == c.rem \cup {n}
           d == IF Exists(c, n) THEN [c EXCEPT !.add = adds, !.rem = rems] ELSE c
           vers == [c.verAdd EXCEPT ![n] = None]
           entry == [verifier |-> tx.verifier, undoingReissue |-> FALSE]
           undos == Inserted(c.verRem, n, entry)
           e == [d EXCEPT !.verAdd = vers, !.verRem = undos]
<1>1. n \in Asset /\ tx.verifier \in STRING
  BY TxFacts
<1>2. entry \in VerifierUndo
  BY <1>1 DEF VerifierUndo
<1>3. /\ c.verRem \in [Asset -> VerifierUndo \cup {None}] /\ c.rem \subseteq Asset
      /\ c.add \in [Asset -> Meta \cup {None}]
      /\ c.verAdd \in [Asset -> STRING \cup {None}]
  BY CacheFields
<1> HIDE DEF entry
<1>4. /\ adds \in [Asset -> Meta \cup {None}] /\ adds[n] = None
      /\ \A m \in Asset : m # n => adds[m] = c.add[m]
  BY <1>1, <1>3
<1>5. /\ vers \in [Asset -> STRING \cup {None}] /\ vers[n] = None
      /\ \A m \in Asset : m # n => vers[m] = c.verAdd[m]
  BY <1>1, <1>3
<1>6. /\ undos \in [Asset -> VerifierUndo \cup {None}]
      /\ c.verRem[n] = None => undos[n] = entry
      /\ \A m \in Asset : m # n => undos[m] = c.verRem[m]
  BY <1>1, <1>2, <1>3 DEF Inserted
<1>7. /\ rems \in SUBSET Asset /\ n \in rems
      /\ \A m \in Asset : m # n => (m \in rems <=> m \in c.rem)
  BY <1>1, <1>3
<1> HIDE DEF n, adds, rems, vers, undos
<1>8. /\ d \in Cache
      /\ d.add = IF Exists(c, n) THEN adds ELSE c.add
      /\ d.rem = IF Exists(c, n) THEN rems ELSE c.rem
      /\ d.reissued = c.reissued /\ d.reAdd = c.reAdd /\ d.reRem = c.reRem
      /\ d.verAdd = c.verAdd /\ d.verRem = c.verRem
  <2>1. adds \in [Asset -> Meta \cup {None}] /\ rems \in SUBSET Asset
    BY <1>4, <1>7
  <2>2. LET b == [c EXCEPT !.add = adds, !.rem = rems]
        IN /\ b \in Cache /\ b.add = adds /\ b.rem = rems /\ b.reissued = c.reissued
           /\ b.reAdd = c.reAdd /\ b.reRem = c.reRem
           /\ b.verAdd = c.verAdd /\ b.verRem = c.verRem
    BY <2>1, Zenon DEF Cache
  <2> QED
    BY <2>2, Zenon
<1>9. e = UndoneIssue(c, tx)
  <2>1. UndoneIssue(c, tx) = [d EXCEPT !.verAdd = [d.verAdd EXCEPT ![n] = None],
                                       !.verRem = Inserted(d.verRem, n, entry)]
    BY DEF UndoneIssue, n, adds, rems, entry
  <2> QED
    BY <1>8, <2>1 DEF undos, vers
<1> HIDE DEF d
<1>10. /\ e \in Cache /\ e.add = d.add /\ e.rem = d.rem /\ e.reissued = d.reissued
       /\ e.reAdd = d.reAdd /\ e.reRem = d.reRem /\ e.verAdd = vers /\ e.verRem = undos
  <2>1. /\ vers \in [Asset -> STRING \cup {None}] /\ undos \in [Asset -> VerifierUndo \cup {None}]
        /\ d \in Cache
    BY <1>5, <1>6, <1>8
  <2> QED
    BY <2>1, Zenon DEF Cache
<1> HIDE DEF e
<1>11. \A m \in Asset : m # n => SamePart(e, c, m)
  BY <1>4, <1>5, <1>6, <1>7, <1>8, <1>10 DEF SamePart
<1>12. ASSUME CleanPart(c, n) PROVE UndoPart(e, tx, undo)
  <2>1. Exists(c, n) <=> Exists(passets, n)
    BY <1>12, CleanReads
  <2>2. /\ e.add[n] = None /\ (n \in e.rem <=> Exists(c, n)) /\ e.reissued[n] = None
        /\ e.verAdd[n] = None /\ e.verRem[n] = entry
        /\ \A y \in Tx : y.name = n => y \notin e.reAdd /\ y \notin e.reRem
    BY <1>4, <1>5, <1>6, <1>7, <1>8, <1>10, <1>12 DEF CleanPart
  <2> QED
    BY <2>1, <2>2 DEF UndoPart, n, entry
<1> QED
  BY <1>9, <1>10, <1>11, <1>12 DEF n

(* The same of RemoveReissueAsset.                                          *)
LEMMA UndoneReissueFacts ==
  ASSUME TypeOK, NEW c \in Cache, NEW tx \in Tx, tx.kind # "issue", NEW undo \in Seq(UndoItem)
  PROVE  LET d == UndoneReissue(c, tx, undo)
         IN /\ d \in Cache
            /\ \A m \in Asset : m # tx.name => SamePart(d, c, m)
            /\ CleanPart(c, tx.name) => UndoPart(d, tx, undo)
<1> DEFINE n == tx.name
           item == ItemOf(undo, n)
           meta == UndoneMeta(MetaOf(c, n), tx, item)
           metas == [c.reissued EXCEPT ![n] = meta]
           adds == c.reAdd \ {tx}
           rems == c.reRem \cup {tx}
           d == [c EXCEPT !.reissued = metas, !.reAdd = adds, !.reRem = rems]
           vers == [c.verAdd EXCEPT ![n] = None]
           entry == [verifier |-> item.verifier, undoingReissue |-> TRUE]
           undos == Inserted(c.verRem, n, entry)
           e == IF item.verifier = Keep THEN d ELSE [d EXCEPT !.verAdd = vers, !.verRem = undos]
<1>1. n \in Asset /\ tx.amount \in Nat
  BY TxFacts
<1>2. UndoneReissue(c, tx, undo) = IF ~Exists(c, n) THEN c ELSE e
  <2>1. d = [c EXCEPT !.reissued[n] = meta, !.reAdd = @ \ {tx}, !.reRem = @ \cup {tx}]
    OBVIOUS
  <2>2. c.verAdd = d.verAdd /\ c.verRem = d.verRem
    <3> HIDE DEF metas, adds, rems
    <3> QED
      BY DEF Cache
  <2>3. UndoneReissue(c, tx, undo) =
          IF ~Exists(c, n) THEN c
          ELSE IF item.verifier = Keep THEN d
          ELSE [d EXCEPT !.verAdd = [d.verAdd EXCEPT ![n] = None],
                         !.verRem = Inserted(d.verRem, n, entry)]
    BY DEF UndoneReissue, UndoneMeta
  <2> HIDE DEF d
  <2> QED
    BY <2>2, <2>3
<1>3. CASE ~Exists(c, n)
  <2>1. UndoneReissue(c, tx, undo) = c
    BY <1>2, <1>3
  <2>2. \A m \in Asset : SamePart(c, c, m)
    BY DEF SamePart
  <2>3. ASSUME CleanPart(c, n) PROVE UndoPart(c, tx, undo)
    BY <1>3, <2>3, CleanReads DEF UndoPart
  <2> QED
    BY <2>1, <2>2, <2>3
<1>4. CASE Exists(c, n)
  <2>1. item \in UndoItem
    BY <1>1, ItemTyped
  <2>2. meta \in Meta
    <3>1. MetaOf(c, n) \in Meta
      BY <1>1, <1>4, ReadsTyped
    <3> QED
      BY <2>1, <3>1, UndoneMetaTyped, Zenon
  <2>3. item.verifier # Keep => entry \in VerifierUndo
    <3>1. item.verifier \in STRING \cup {Keep, None}
      BY <2>1 DEF UndoItem
    <3> HIDE DEF item
    <3> QED
      BY <3>1 DEF VerifierUndo
  <2> HIDE DEF item, meta, entry
  <2>4. /\ c.verRem \in [Asset -> VerifierUndo \cup {None}]
        /\ c.reissued \in [Asset -> Meta \cup {None}]
        /\ c.verAdd \in [Asset -> STRING \cup {None}]
        /\ c.reAdd \subseteq Tx /\ c.reRem \subseteq Tx
    BY CacheFields
  <2>5. /\ metas \in [Asset -> Meta \cup {None}] /\ metas[n] = meta
        /\ \A m \in Asset : m # n => metas[m] = c.reissued[m]
    BY <1>1, <2>2, <2>4
  <2>6. /\ vers \in [Asset -> STRING \cup {None}] /\ vers[n] = None
        /\ \A m \in Asset : m # n => vers[m] = c.verAdd[m]
    BY <1>1, <2>4
  <2>7. item.verifier # Keep =>
          /\ undos \in [Asset -> VerifierUndo \cup {None}]
          /\ c.verRem[n] = None => undos[n] = entry
          /\ \A m \in Asset : m # n => undos[m] = c.verRem[m]
    BY <1>1, <2>3, <2>4 DEF Inserted
  <2>8. /\ adds \in SUBSET Tx /\ rems \in SUBSET Tx /\ tx \in rems
        /\ \A y \in Tx : y.name # n => (y \in adds <=> y \in c.reAdd) /\ (y \in rems <=> y \in c.reRem)
        /\ \A y \in Tx : y \in adds => y \in c.reAdd
    BY <2>4
  <2> HIDE DEF n, metas, adds, rems, vers, undos
  <2>9. /\ d \in Cache /\ d.add = c.add /\ d.rem = c.rem /\ d.reissued = metas
        /\ d.reAdd = adds /\ d.reRem = rems /\ d.verAdd = c.verAdd /\ d.verRem = c.verRem
    <3>1. metas \in [Asset -> Meta \cup {None}] /\ adds \in SUBSET Tx /\ rems \in SUBSET Tx
      BY <2>5, <2>8
    <3> QED
      BY <3>1, Zenon DEF Cache
  <2> HIDE DEF d
  <2>10. /\ e \in Cache /\ e.add = d.add /\ e.rem = d.rem /\ e.reissued = d.reissued
         /\ e.reAdd = d.reAdd /\ e.reRem = d.reRem
         /\ e.verAdd = IF item.verifier = Keep THEN c.verAdd ELSE vers
         /\ e.verRem = IF item.verifier = Keep THEN c.verRem ELSE undos
    <3>1. item.verifier # Keep =>
            LET b == [d EXCEPT !.verAdd = vers, !.verRem = undos]
            IN /\ b \in Cache /\ b.add = d.add /\ b.rem = d.rem /\ b.reissued = d.reissued
               /\ b.reAdd = d.reAdd /\ b.reRem = d.reRem
               /\ b.verAdd = vers /\ b.verRem = undos
      <4>1. item.verifier # Keep =>
              /\ vers \in [Asset -> STRING \cup {None}]
              /\ undos \in [Asset -> VerifierUndo \cup {None}] /\ d \in Cache
        BY <2>6, <2>7, <2>9
      <4> QED
        BY <4>1, Zenon DEF Cache
    <3> QED
      BY <2>9, <3>1, Zenon
  <2> HIDE DEF e
  <2>11. \A m \in Asset : m # n => SamePart(e, c, m)
    BY <2>5, <2>6, <2>7, <2>8, <2>9, <2>10 DEF SamePart
  <2>12. ASSUME CleanPart(c, n) PROVE UndoPart(e, tx, undo)
    <3>1. Exists(passets, n) /\ meta = UndoneMeta(MetaOf(passets, n), tx, item)
      BY <1>4, <2>12, CleanReads DEF meta
    <3>2. /\ e.add[n] = None /\ n \notin e.rem /\ e.reissued[n] = meta /\ tx \in e.reRem
          /\ \A y \in Tx : y.name = n => y \notin e.reAdd
      BY <2>5, <2>8, <2>9, <2>10, <2>12 DEF CleanPart
    <3>3. /\ e.verAdd[n] = None
          /\ e.verRem[n] = IF item.verifier = Keep THEN None ELSE entry
      BY <2>6, <2>7, <2>10, <2>12 DEF CleanPart
    <3> QED
      BY <3>1, <3>2, <3>3 DEF UndoPart, n, item, entry
  <2> QED
    BY <1>2, <1>4, <2>10, <2>11, <2>12 DEF n
<1> QED
  BY <1>3, <1>4

-----------------------------------------------------------------------------
(* The loops of ConnectBlock and of DisconnectBlock over a block.           *)
Done(c, tx) == IF tx.kind = "issue" THEN Issued(c, tx) ELSE Reissued(c, tx)

LoopState == [valid : BOOLEAN, cache : Cache, undo : Seq(UndoItem)]

(* The two kinds of transactions in one.                                    *)
LEMMA DoneFacts ==
  ASSUME TypeOK, NEW c \in Cache, NEW tx \in Tx, Valid(c, tx)
  PROVE  /\ Done(c, tx) \in Cache
         /\ \A m \in Asset : m # tx.name => SamePart(Done(c, tx), c, m)
         /\ CleanPart(c, tx.name) => ConnectPart(Done(c, tx), tx)
<1>1. CASE tx.kind = "issue"
  <2>1. ~Exists(c, tx.name)
    BY <1>1 DEF Valid
  <2> QED
    BY <1>1, <2>1, IssuedFacts DEF Done
<1>2. CASE tx.kind # "issue"
  <2>1. MetaOf(c, tx.name) # None
    BY <1>2 DEF Valid
  <2> QED
    BY <1>2, <2>1, ReissuedFacts DEF Done
<1> QED
  BY <1>1, <1>2

(* The undo entry that connecting a reissue records.                        *)
ItemFor(tx, meta, verifier) ==
    [name |-> tx.name, units |-> IF tx.units = Keep THEN Keep ELSE meta.units,
     ipfs |-> IF tx.ipfs = Keep THEN Keep ELSE meta.ipfs,
     verifier |-> IF tx.verifier = Keep THEN Keep ELSE verifier]

NoUndo(tx) == tx.kind = "issue" \/ (tx.units = Keep /\ tx.ipfs = Keep /\ tx.verifier = Keep)

(* The undo record of a transaction, if it has one.                         *)
LEMMA UndoOfFacts ==
  ASSUME TypeOK, NEW c \in Cache, NEW tx \in Tx, Valid(c, tx)
  PROVE  LET item == ItemFor(tx, MetaOf(c, tx.name), VerifierOf(c, tx.name))
         IN /\ UndoOf(c, tx) = IF NoUndo(tx) THEN <<>> ELSE <<item>>
            /\ ~NoUndo(tx) => item \in UndoItem
            /\ UndoOf(c, tx) \in Seq(UndoItem)
<1> DEFINE item == ItemFor(tx, MetaOf(c, tx.name), VerifierOf(c, tx.name))
<1>1. UndoOf(c, tx) = IF NoUndo(tx) THEN <<>> ELSE <<item>>
  BY DEF UndoOf, NoUndo, ItemFor
<1>2. ASSUME ~NoUndo(tx) PROVE item \in UndoItem
  <2>1. tx.name \in Asset
    BY TxFacts
  <2>2. MetaOf(c, tx.name) # None
    BY <1>2 DEF Valid, NoUndo
  <2>3. MetaOf(c, tx.name) \in Meta /\ VerifierOf(c, tx.name) \in STRING \cup {None}
    BY <2>1, <2>2, ReadsTyped
  <2>4. MetaOf(c, tx.name).units \in Nat /\ MetaOf(c, tx.name).ipfs \in STRING
    BY <2>3 DEF Meta
  <2> QED
    BY <2>1, <2>3, <2>4 DEF ItemFor, UndoItem
<1> HIDE DEF item
<1>3. UndoOf(c, tx) \in Seq(UndoItem)
  BY <1>1, <1>2
<1> QED
  BY <1>1, <1>2, <1>3 DEF item

(* One round of ConnectBlock.                                               *)
LEMMA ConnectTxFacts ==
  ASSUME TypeOK, NEW s \in LoopState, NEW tx \in Tx
  PROVE  LET t == ConnectTx(s, tx)
         IN /\ t \in LoopState
            /\ t.valid => /\ s.valid /\ Valid(s.cache, tx)
                          /\ t.cache = Done(s.cache, tx)
                          /\ t.undo = s.undo \o UndoOf(s.cache, tx)
<1>1. s.valid \in BOOLEAN /\ s.cache \in Cache /\ s.undo \in Seq(UndoItem)
  BY DEF LoopState
<1>2. CASE ~s.valid \/ ~Valid(s.cache, tx)
  <2>1. ConnectTx(s, tx) = [s EXCEPT !.valid = FALSE]
    BY <1>2 DEF ConnectTx
  <2> QED
    BY <2>1, Zenon DEF LoopState
<1>3. CASE s.valid /\ Valid(s.cache, tx)
  <2> DEFINE undo == s.undo \o UndoOf(s.cache, tx)
  <2>1. ConnectTx(s, tx) = [valid |-> TRUE, cache |-> Done(s.cache, tx), undo |-> undo]
    BY <1>3 DEF ConnectTx, Done
  <2>2. Done(s.cache, tx) \in Cache
    BY <1>1, <1>3, DoneFacts
  <2>3. undo \in Seq(UndoItem)
    <3>1. UndoOf(s.cache, tx) \in Seq(UndoItem)
      BY <1>1, <1>3, UndoOfFacts
    <3> QED
      BY <1>1, <3>1
  <2> HIDE DEF undo
  <2>4. ConnectTx(s, tx) \in LoopState
    BY <2>1, <2>2, <2>3 DEF LoopState
  <2>5. ConnectTx(s, tx).cache = Done(s.cache, tx) /\ ConnectTx(s, tx).undo = undo
    BY <2>1
  <2> QED
    BY <1>3, <2>4, <2>5, Zenon DEF undo
<1> QED
  BY <1>2, <1>3, Zenon

(* One round of DisconnectBlock.                                            *)
LEMMA UndoTxFacts ==
  ASSUME TypeOK, NEW c \in Cache, NEW tx \in Tx, NEW undo \in Seq(UndoItem)
  PROVE  /\ UndoTx(c, tx, undo) \in Cache
         /\ \A m \in Asset : m # tx.name => SamePart(UndoTx(c, tx, undo), c, m)
         /\ CleanPart(c, tx.name) => UndoPart(UndoTx(c, tx, undo), tx, undo)
<1>1. CASE tx.kind = "issue"
  BY <1>1, UndoneIssueFacts DEF UndoTx
<1>2. CASE tx.kind # "issue"
  BY <1>2, UndoneReissueFacts DEF UndoTx
<1> QED
  BY <1>1, <1>2

(* The rounds of ConnectBlock's loop.                                       *)
LEMMA ConnectedLoop ==
  ASSUME TypeOK, NEW txs \in Seq(Tx)
  PROVE  \E f : /\ Connected(txs) = f[Len(txs)]
                /\ f[0] = [valid |-> TRUE, cache |-> Clean, undo |-> <<>>]
                /\ \A i \in 1..Len(txs) : f[i] = ConnectTx(f[i - 1], txs[i])
                /\ f \in [0..Len(txs) -> LoopState]
<1> DEFINE Def(f) == [i \in 0..Len(txs) |-> IF i = 0 THEN [valid |-> TRUE, cache |-> Clean, undo |-> <<>>] ELSE ConnectTx(f[i - 1], txs[i])]
           step == [p \in Nat \X LoopState |-> IF p[1] \in 1..Len(txs)
                                       THEN ConnectTx(p[2], txs[p[1]]) ELSE p[2]]
<1>1. Len(txs) \in Nat /\ \A i \in 1..Len(txs) : txs[i] \in Tx
  OBVIOUS
<1>2. [valid |-> TRUE, cache |-> Clean, undo |-> <<>>] \in LoopState
  BY CleanFacts DEF LoopState
<1>3. ASSUME NEW i \in 1..Len(txs), NEW v \in LoopState PROVE ConnectTx(v, txs[i]) \in LoopState
  BY <1>1, <1>3, ConnectTxFacts, Zenon
<1>4. step \in [Nat \X LoopState -> LoopState]
  <2>1. ASSUME NEW p \in Nat \X LoopState PROVE step[p] \in LoopState
    <3>1. p[2] \in LoopState
      OBVIOUS
    <3> QED
      BY <1>3, <3>1
  <2> QED
    BY <2>1
<1>5. PICK g \in [0..Len(txs) -> LoopState] : IsLoop(g, [valid |-> TRUE, cache |-> Clean, undo |-> <<>>], step, Len(txs))
  <2> HIDE DEF step
  <2> QED
    BY <1>1, <1>2, <1>4, LoopExists, Zenon
<1>6. g = Def(g)
  <2>1. ASSUME NEW i \in 1..Len(txs) PROVE g[i] = ConnectTx(g[i - 1], txs[i])
    <3>1. i \in Nat /\ i - 1 \in 0..Len(txs) /\ i # 0 /\ i \in 0..Len(txs)
      BY <1>1
    <3>2. g[i - 1] \in LoopState
      BY <3>1
    <3>3. step[<<i, g[i - 1]>>] = ConnectTx(g[i - 1], txs[i])
      BY <3>1, <3>2
    <3> HIDE DEF step
    <3>4. g[i] = step[<<i, g[i - 1]>>]
      BY <1>5, <3>1, Zenon DEF IsLoop
    <3> QED
      BY <3>3, <3>4
  <2>2. g[0] = [valid |-> TRUE, cache |-> Clean, undo |-> <<>>]
    BY <1>1, <1>5 DEF IsLoop
  <2>3. g = [i \in 0..Len(txs) |-> g[i]]
    BY <1>5
  <2>4. \A i \in 0..Len(txs) : i = 0 \/ i \in 1..Len(txs)
    BY <1>1
  <2> HIDE DEF step
  <2>5. \A i \in 0..Len(txs) : g[i] = Def(g)[i]
    BY <2>1, <2>2, <2>4
  <2> QED
    BY <2>3, <2>5
<1> DEFINE F == CHOOSE f : f = Def(f)
<1>7. F = Def(F)
  <2> HIDE DEF Def
  <2> QED
    BY <1>6, Zenon
<1>8. Connected(txs) = F[Len(txs)]
  BY DEF Connected
<1> HIDE DEF F
<1>9. F[0] = [valid |-> TRUE, cache |-> Clean, undo |-> <<>>] /\ \A i \in 1..Len(txs) : F[i] = ConnectTx(F[i - 1], txs[i])
  <2> HIDE DEF step
  <2>1. 0 \in 0..Len(txs) /\ \A i \in 1..Len(txs) : i \in 0..Len(txs) /\ i # 0
    BY <1>1
  <2> QED
    BY <1>7, <2>1, Zenon
<1>10. F \in [0..Len(txs) -> LoopState]
  <2> DEFINE S == {i \in 0..Len(txs) : F[i] \in LoopState}
  <2>1. 0 \in S
    BY <1>1, <1>2, <1>9
  <2>2. \A i \in 1..Len(txs) : i - 1 \in S => i \in S
    <3>1. ASSUME NEW i \in 1..Len(txs), i - 1 \in S PROVE i \in S
      <4>1. F[i - 1] \in LoopState /\ i \in 0..Len(txs)
        BY <1>1, <3>1
      <4>2. F[i] \in LoopState
        BY <1>3, <1>9, <4>1
      <4> QED
        BY <4>1, <4>2
    <3> QED
      BY <3>1
  <2>3. \A i \in 0..Len(txs) : i \in S
    <3> HIDE DEF S
    <3> QED
      BY <1>1, <2>1, <2>2, LoopInduction, Zenon
  <2>4. F = [i \in 0..Len(txs) |-> F[i]]
    BY <1>7
  <2> QED
    BY <2>3, <2>4
<1> QED
  BY <1>8, <1>9, <1>10, Zenon

(* The rounds of DisconnectBlock's loop, the last transaction first.        *)
LEMMA UndoneLoop ==
  ASSUME TypeOK, NEW b, b.txs \in Seq(Tx), b.undo \in Seq(UndoItem)
  PROVE  \E f : /\ Undone(b) = f[Len(b.txs)]
                /\ f[0] = Clean
                /\ \A i \in 1..Len(b.txs) : f[i] = UndoTx(f[i - 1], b.txs[Len(b.txs) + 1 - i], b.undo)
                /\ f \in [0..Len(b.txs) -> Cache]
<1> DEFINE Def(f) == [i \in 0..Len(b.txs) |-> IF i = 0 THEN Clean ELSE UndoTx(f[i - 1], b.txs[Len(b.txs) + 1 - i], b.undo)]
           step == [p \in Nat \X Cache |-> IF p[1] \in 1..Len(b.txs)
                                       THEN UndoTx(p[2], b.txs[Len(b.txs) + 1 - p[1]], b.undo) ELSE p[2]]
<1>1. Len(b.txs) \in Nat /\ \A i \in 1..Len(b.txs) : b.txs[Len(b.txs) + 1 - i] \in Tx
  OBVIOUS
<1>2. Clean \in Cache
  BY CleanFacts
<1>3. ASSUME NEW i \in 1..Len(b.txs), NEW v \in Cache PROVE UndoTx(v, b.txs[Len(b.txs) + 1 - i], b.undo) \in Cache
  BY <1>1, <1>3, UndoTxFacts
<1>4. step \in [Nat \X Cache -> Cache]
  <2>1. ASSUME NEW p \in Nat \X Cache PROVE step[p] \in Cache
    <3>1. p[2] \in Cache
      OBVIOUS
    <3> QED
      BY <1>3, <3>1
  <2> QED
    BY <2>1
<1>5. PICK g \in [0..Len(b.txs) -> Cache] : IsLoop(g, Clean, step, Len(b.txs))
  <2> HIDE DEF step
  <2> QED
    BY <1>1, <1>2, <1>4, LoopExists, Zenon
<1>6. g = Def(g)
  <2>1. ASSUME NEW i \in 1..Len(b.txs) PROVE g[i] = UndoTx(g[i - 1], b.txs[Len(b.txs) + 1 - i], b.undo)
    <3>1. i \in Nat /\ i - 1 \in 0..Len(b.txs) /\ i # 0 /\ i \in 0..Len(b.txs)
      BY <1>1
    <3>2. g[i - 1] \in Cache
      BY <3>1
    <3>3. step[<<i, g[i - 1]>>] = UndoTx(g[i - 1], b.txs[Len(b.txs) + 1 - i], b.undo)
      BY <3>1, <3>2
    <3> HIDE DEF step
    <3>4. g[i] = step[<<i, g[i - 1]>>]
      BY <1>5, <3>1 DEF IsLoop
    <3> QED
      BY <3>3, <3>4
  <2>2. g[0] = Clean
    BY <1>1, <1>5 DEF IsLoop
  <2>3. g = [i \in 0..Len(b.txs) |-> g[i]]
    BY <1>5
  <2>4. \A i \in 0..Len(b.txs) : i = 0 \/ i \in 1..Len(b.txs)
    BY <1>1
  <2> HIDE DEF step
  <2>5. \A i \in 0..Len(b.txs) : g[i] = Def(g)[i]
    BY <2>1, <2>2, <2>4
  <2> QED
    BY <2>3, <2>5
<1> DEFINE F == CHOOSE f : f = Def(f)
<1>7. F = Def(F)
  <2> HIDE DEF Def
  <2> QED
    BY <1>6, Zenon
<1>8. Undone(b) = F[Len(b.txs)]
  BY DEF Undone
<1> HIDE DEF F
<1>9. F[0] = Clean /\ \A i \in 1..Len(b.txs) : F[i] = UndoTx(F[i - 1], b.txs[Len(b.txs) + 1 - i], b.undo)
  <2> HIDE DEF step
  <2>1. 0 \in 0..Len(b.txs) /\ \A i \in 1..Len(b.txs) : i \in 0..Len(b.txs) /\ i # 0
    BY <1>1
  <2> QED
    BY <1>7, <2>1, Zenon
<1>10. F \in [0..Len(b.txs) -> Cache]
  <2> DEFINE S == {i \in 0..Len(b.txs) : F[i] \in Cache}
  <2>1. 0 \in S
    BY <1>1, <1>2, <1>9
  <2>2. \A i \in 1..Len(b.txs) : i - 1 \in S => i \in S
    <3>1. ASSUME NEW i \in 1..Len(b.txs), i - 1 \in S PROVE i \in S
      <4>1. F[i - 1] \in Cache /\ i \in 0..Len(b.txs)
        BY <1>1, <3>1
      <4>2. F[i] \in Cache
        BY <1>3, <1>9, <4>1
      <4> QED
        BY <4>1, <4>2
    <3> QED
      BY <3>1
  <2>3. \A i \in 0..Len(b.txs) : i \in S
    <3> HIDE DEF S
    <3> QED
      BY <1>1, <2>1, <2>2, LoopInduction, Zenon
  <2>4. F = [i \in 0..Len(b.txs) |-> F[i]]
    BY <1>7
  <2> QED
    BY <2>3, <2>4, Zenon
<1> QED
  BY <1>8, <1>9, <1>10, Zenon

(* A transaction is checked against passets while the cache of the block holds
   nothing of its asset.                                                    *)
LEMMA CleanValid ==
  ASSUME NEW c, NEW tx, CleanPart(c, tx.name)
  PROVE  Valid(c, tx) <=> Valid(passets, tx)
<1>1. /\ Exists(c, tx.name) <=> Exists(passets, tx.name)
      /\ MetaOf(c, tx.name) = MetaOf(passets, tx.name)
      /\ VerifierOf(c, tx.name) = VerifierOf(passets, tx.name)
  BY CleanReads, Zenon
<1> QED
  BY <1>1 DEF Valid

(* The entries a transaction left stay right in a cache that has the same,  *)
LEMMA SameConnectPart ==
  ASSUME NEW c, NEW d, NEW tx \in Tx, SamePart(d, c, tx.name), ConnectPart(c, tx)
  PROVE  ConnectPart(d, tx)
  BY Zenon DEF SamePart, ConnectPart

(* and so do those that its undoing left.                                   *)
LEMMA SameUndoPart ==
  ASSUME NEW c, NEW d, NEW tx \in Tx, NEW undo, SamePart(d, c, tx.name), UndoPart(c, tx, undo)
  PROVE  UndoPart(d, tx, undo)
  BY PartTransfer DEF SamePart, UndoPart

(* The undo entries of a block that name an asset.                          *)
ItemsOf(undo, n) == {undo[i] : i \in {j \in DOMAIN undo : undo[j].name = n}}

(* The undo records of an asset after one more transaction.                 *)
LEMMA ItemsOfAppend ==
  ASSUME NEW u \in Seq(UndoItem), NEW item \in UndoItem, NEW n
  PROVE  /\ ItemsOf(<<>>, n) = {}
         /\ ItemsOf(u \o <<>>, n) = ItemsOf(u, n)
         /\ ItemsOf(u \o <<item>>, n) = ItemsOf(u, n) \cup IF item.name = n THEN {item} ELSE {}
<1> DEFINE w == u \o <<item>>
<1>1. /\ DOMAIN w = 1..(Len(u) + 1) /\ DOMAIN u = 1..Len(u) /\ Len(u) \in Nat
      /\ \A i \in 1..Len(u) : w[i] = u[i]
      /\ w[Len(u) + 1] = item
  OBVIOUS
<1>2. ItemsOf(<<>>, n) = {}
  BY DEF ItemsOf
<1>3. u \o <<>> = u
  OBVIOUS
<1> HIDE DEF w
<1>4. \A x : x \in ItemsOf(w, n) <=> \E i \in 1..(Len(u) + 1) : w[i].name = n /\ x = w[i]
  BY <1>1 DEF ItemsOf
<1>5. \A x : x \in ItemsOf(u, n) <=> \E i \in 1..Len(u) : u[i].name = n /\ x = u[i]
  BY <1>1 DEF ItemsOf
<1>6. \A i \in 1..(Len(u) + 1) : i \in 1..Len(u) \/ i = Len(u) + 1
  BY <1>1
<1>7. Len(u) + 1 \in 1..(Len(u) + 1) /\ \A i \in 1..Len(u) : i \in 1..(Len(u) + 1)
  BY <1>1
<1>8. \A x : x \in ItemsOf(w, n) <=> x \in ItemsOf(u, n) \/ (item.name = n /\ x = item)
  BY <1>1, <1>4, <1>5, <1>6, <1>7
<1> QED
  BY <1>2, <1>3, <1>8, Zenon DEF w

(* The undo entries of a block for the asset of one of its transactions.    *)
ItemsFor(tx) ==
    IF NoUndo(tx) THEN {}
    ELSE {ItemFor(tx, MetaOf(passets, tx.name), VerifierOf(passets, tx.name))}

(* What ConnectBlock leaves in the cache of the block and in its undo data.  *)
LEMMA ConnectedFacts ==
  ASSUME TypeOK, NEW txs \in Seq(Tx), Connected(txs).valid,
         \A i, j \in 1..Len(txs) : txs[i].name = txs[j].name => i = j
  PROVE  LET s == Connected(txs)
         IN /\ s.cache \in Cache /\ s.undo \in Seq(UndoItem)
            /\ \A n \in Asset : (\A j \in 1..Len(txs) : txs[j].name # n) =>
                 CleanPart(s.cache, n) /\ ItemsOf(s.undo, n) = {}
            /\ \A j \in 1..Len(txs) :
                 /\ Valid(passets, txs[j]) /\ ConnectPart(s.cache, txs[j])
                 /\ ItemsOf(s.undo, txs[j].name) = ItemsFor(txs[j])
<1>1. Len(txs) \in Nat /\ \A i \in 1..Len(txs) : txs[i] \in Tx
  OBVIOUS
<1>2. PICK f : /\ Connected(txs) = f[Len(txs)]
               /\ f[0] = [valid |-> TRUE, cache |-> Clean, undo |-> <<>>]
               /\ \A i \in 1..Len(txs) : f[i] = ConnectTx(f[i - 1], txs[i])
               /\ f \in [0..Len(txs) -> LoopState]
  BY ConnectedLoop
<1> DEFINE Untouched(i) == \A n \in Asset : (\A j \in 1..i : txs[j].name # n) =>
                             CleanPart(f[i].cache, n) /\ ItemsOf(f[i].undo, n) = {}
           Touched(i) == \A j \in 1..i :
                           /\ Valid(passets, txs[j]) /\ ConnectPart(f[i].cache, txs[j])
                           /\ ItemsOf(f[i].undo, txs[j].name) = ItemsFor(txs[j])
           Good(i) == f[i].valid => Untouched(i) /\ Touched(i)
           S == {i \in 0..Len(txs) : Good(i)}
<1>3. 0 \in S
  <2>1. f[0].cache = Clean /\ f[0].undo = <<>>
    BY <1>2
  <2>2. Untouched(0)
    BY <2>1, CleanFacts DEF ItemsOf
  <2>3. Touched(0)
    <3>1. \A j \in 1..0 : FALSE
      OBVIOUS
    <3> QED
      BY <3>1, Zenon
  <2> HIDE DEF Untouched, Touched
  <2> QED
    BY <1>1, <2>2, <2>3
<1>4. ASSUME NEW i \in 1..Len(txs), i - 1 \in S PROVE i \in S
  <2> SUFFICES ASSUME f[i].valid PROVE Untouched(i) /\ Touched(i)
    BY <1>1
  <2> DEFINE s == f[i - 1]
             t == f[i]
             tx == txs[i]
  <2>1. i - 1 \in 0..Len(txs) /\ i \in 0..Len(txs) /\ tx \in Tx /\ tx.name \in Asset
    <3>1. tx \in Tx
      BY <1>1
    <3> QED
      BY <1>1, <3>1, TxFacts
  <2>2. s \in LoopState /\ t \in LoopState /\ t = ConnectTx(s, tx)
    BY <1>2, <2>1
  <2>3. s.cache \in Cache /\ s.undo \in Seq(UndoItem)
    BY <2>2 DEF LoopState
  <2>4. /\ s.valid /\ Valid(s.cache, tx) /\ t.cache = Done(s.cache, tx)
        /\ t.undo = s.undo \o UndoOf(s.cache, tx)
    <3>1. t.valid
      OBVIOUS
    <3> HIDE DEF s, t, tx, S
    <3> QED
      BY <2>1, <2>2, <3>1, ConnectTxFacts, Zenon
  <2>5. Untouched(i - 1) /\ Touched(i - 1)
    BY <1>4, <2>4
  <2>6. \A j \in 1..(i - 1) : j \in 1..Len(txs) /\ txs[j] \in Tx /\ txs[j].name # tx.name
    BY <1>1
  <2>7. CleanPart(s.cache, tx.name) /\ ItemsOf(s.undo, tx.name) = {}
    BY <2>1, <2>5, <2>6
  <2>8. Valid(passets, tx)
    BY <2>4, <2>7, CleanValid
  <2>9. /\ \A m \in Asset : m # tx.name => SamePart(t.cache, s.cache, m)
        /\ ConnectPart(t.cache, tx)
    <3> HIDE DEF s, t, tx, S
    <3> QED
      BY <2>1, <2>3, <2>4, <2>7, DoneFacts
  <2>10. \A n : ItemsOf(t.undo, n) = ItemsOf(s.undo, n) \cup IF n = tx.name THEN ItemsFor(tx) ELSE {}
    <3> DEFINE item == ItemFor(tx, MetaOf(s.cache, tx.name), VerifierOf(s.cache, tx.name))
    <3> HIDE DEF s, t, tx, S
    <3>1. /\ UndoOf(s.cache, tx) = IF NoUndo(tx) THEN <<>> ELSE <<item>>
          /\ ~NoUndo(tx) => item \in UndoItem
      BY <2>1, <2>3, <2>4, UndoOfFacts
    <3>2. item = ItemFor(tx, MetaOf(passets, tx.name), VerifierOf(passets, tx.name))
      BY <2>7, CleanReads
    <3>3. item.name = tx.name
      BY DEF ItemFor
    <3> HIDE DEF item
    <3>4. CASE NoUndo(tx)
      <4>1. t.undo = s.undo
        BY <2>3, <2>4, <3>1, <3>4
      <4> QED
        BY <3>4, <4>1 DEF ItemsFor
    <3>5. CASE ~NoUndo(tx)
      <4>1. t.undo = s.undo \o <<item>> /\ item \in UndoItem
        BY <2>4, <3>1, <3>5
      <4>2. ItemsFor(tx) = {item}
        BY <3>2, <3>5 DEF ItemsFor
      <4>3. ASSUME NEW n
            PROVE  ItemsOf(t.undo, n) = ItemsOf(s.undo, n) \cup IF item.name = n THEN {item} ELSE {}
        BY <2>3, <4>1, ItemsOfAppend
      <4> QED
        BY <3>3, <4>2, <4>3
    <3> QED
      BY <3>4, <3>5
  <2> HIDE DEF s, t, S
  <2>11. Untouched(i)
    <3> SUFFICES ASSUME NEW n \in Asset, \A j \in 1..i : txs[j].name # n
                 PROVE  CleanPart(t.cache, n) /\ ItemsOf(t.undo, n) = {}
      BY DEF t
    <3>1. i \in 1..i /\ \A j \in 1..(i - 1) : j \in 1..i
      BY <1>1
    <3>2. n # tx.name /\ CleanPart(s.cache, n) /\ ItemsOf(s.undo, n) = {}
      BY <2>5, <3>1 DEF s
    <3>3. CleanPart(t.cache, n)
      BY <2>9, <3>2, PartTransfer
    <3> QED
      BY <2>10, <3>2, <3>3
  <2>12. Touched(i)
    <3> SUFFICES ASSUME NEW j \in 1..i
                 PROVE  /\ Valid(passets, txs[j]) /\ ConnectPart(t.cache, txs[j])
                        /\ ItemsOf(t.undo, txs[j].name) = ItemsFor(txs[j])
      BY Zenon DEF t
    <3>1. CASE j = i
      BY <2>7, <2>8, <2>9, <2>10, <3>1, Zenon
    <3>2. CASE j # i
      <4>1. j \in 1..(i - 1)
        BY <1>1, <3>2
      <4>2. /\ Valid(passets, txs[j]) /\ ConnectPart(s.cache, txs[j])
            /\ ItemsOf(s.undo, txs[j].name) = ItemsFor(txs[j])
        BY <2>5, <4>1 DEF s
      <4>3. txs[j] \in Tx /\ txs[j].name # tx.name /\ txs[j].name \in Asset
        BY <2>6, <4>1, TxFacts
      <4>4. ConnectPart(t.cache, txs[j])
        BY <2>9, <4>2, <4>3, SameConnectPart
      <4> QED
        BY <2>10, <4>2, <4>3, <4>4, Zenon
    <3> QED
      BY <3>1, <3>2
  <2> QED
    BY <2>11, <2>12
<1>5. Good(Len(txs))
  <2>1. Len(txs) \in 0..Len(txs)
    BY <1>1
  <2>2. \A i \in 0..Len(txs) : i \in S
    <3> HIDE DEF S
    <3> QED
      BY <1>1, <1>3, <1>4, LoopInduction, Zenon
  <2> QED
    BY <2>1, <2>2, Zenon
<1>6. f[Len(txs)] \in LoopState
  BY <1>1, <1>2
<1>7. f[Len(txs)].cache \in Cache /\ f[Len(txs)].undo \in Seq(UndoItem)
  BY <1>6 DEF LoopState
<1> HIDE DEF S
<1> QED
  BY <1>2, <1>5, <1>7

(* What DisconnectBlock leaves in the cache of the block.                   *)
LEMMA UndoneFacts ==
  ASSUME TypeOK, NEW b, b.txs \in Seq(Tx), b.undo \in Seq(UndoItem),
         \A i, j \in 1..Len(b.txs) : b.txs[i].name = b.txs[j].name => i = j
  PROVE  LET c == Undone(b)
         IN /\ \A n \in Asset : (\A j \in 1..Len(b.txs) : b.txs[j].name # n) => CleanPart(c, n)
            /\ \A j \in 1..Len(b.txs) : UndoPart(c, b.txs[j], b.undo)
<1> DEFINE len == Len(b.txs)
           T(i) == b.txs[len + 1 - i]
<1>1. len \in Nat /\ \A i \in 1..len : T(i) \in Tx /\ len + 1 - i \in 1..len
  OBVIOUS
<1>2. PICK f : /\ Undone(b) = f[len]
               /\ f[0] = Clean
               /\ \A i \in 1..len : f[i] = UndoTx(f[i - 1], T(i), b.undo)
               /\ f \in [0..len -> Cache]
  BY UndoneLoop
<1>3. \A i, j \in 1..len : T(i).name = T(j).name => i = j
  <2>1. ASSUME NEW i \in 1..len, NEW j \in 1..len, T(i).name = T(j).name PROVE i = j
    <3>1. len + 1 - i = len + 1 - j
      BY <1>1, <2>1, Zenon
    <3> QED
      BY <1>1, <3>1
  <2> QED
    BY <2>1
<1> DEFINE Untouched(i) == \A n \in Asset : (\A j \in 1..i : T(j).name # n) => CleanPart(f[i], n)
           Touched(i) == \A j \in 1..i : UndoPart(f[i], T(j), b.undo)
           S == {i \in 0..len : Untouched(i) /\ Touched(i)}
<1> HIDE DEF T
<1>4. 0 \in S
  <2>1. Untouched(0)
    BY <1>2, CleanFacts
  <2>2. Touched(0)
    <3>1. \A j \in 1..0 : FALSE
      OBVIOUS
    <3> QED
      BY <3>1, Zenon
  <2> HIDE DEF Untouched, Touched
  <2> QED
    BY <1>1, <2>1, <2>2
<1>5. ASSUME NEW i \in 1..len, i - 1 \in S PROVE i \in S
  <2> DEFINE c == f[i - 1]
             d == f[i]
             tx == T(i)
  <2>1. i - 1 \in 0..len /\ i \in 0..len /\ tx \in Tx /\ tx.name \in Asset
    BY <1>1, TxFacts
  <2>2. c \in Cache /\ d = UndoTx(c, tx, b.undo)
    BY <1>2, <2>1
  <2>3. Untouched(i - 1) /\ Touched(i - 1)
    BY <1>5
  <2>4. \A j \in 1..(i - 1) : j \in 1..len /\ T(j) \in Tx /\ T(j).name # tx.name
    BY <1>1, <1>3
  <2>5. CleanPart(c, tx.name)
    BY <2>1, <2>3, <2>4
  <2>6. /\ \A m \in Asset : m # tx.name => SamePart(d, c, m)
        /\ UndoPart(d, tx, b.undo)
    <3> HIDE DEF c, d, tx, S
    <3> QED
      BY <2>1, <2>2, <2>5, UndoTxFacts
  <2> HIDE DEF c, d, S
  <2>7. Untouched(i)
    <3> SUFFICES ASSUME NEW n \in Asset, \A j \in 1..i : T(j).name # n PROVE CleanPart(d, n)
      BY DEF d
    <3>1. i \in 1..i /\ \A j \in 1..(i - 1) : j \in 1..i
      BY <1>1
    <3>2. n # tx.name /\ CleanPart(c, n)
      BY <2>3, <3>1 DEF c
    <3> QED
      BY <2>6, <3>2, PartTransfer
  <2>8. Touched(i)
    <3> SUFFICES ASSUME NEW j \in 1..i PROVE UndoPart(d, T(j), b.undo)
      BY DEF d
    <3>1. CASE j = i
      BY <2>6, <3>1
    <3>2. CASE j # i
      <4>1. j \in 1..(i - 1)
        BY <1>1, <3>2
      <4>2. UndoPart(c, T(j), b.undo)
        BY <2>3, <4>1 DEF c
      <4>3. T(j) \in Tx /\ T(j).name # tx.name /\ T(j).name \in Asset
        BY <2>4, <4>1, TxFacts
      <4> QED
        BY <2>6, <4>2, <4>3, SameUndoPart
    <3> QED
      BY <3>1, <3>2
  <2> HIDE DEF Untouched, Touched
  <2> QED
    BY <2>1, <2>7, <2>8 DEF S
<1>6. Untouched(len) /\ Touched(len)
  <2>1. len \in 0..len
    BY <1>1
  <2>2. \A i \in 0..len : i \in S
    <3> HIDE DEF S, len
    <3> QED
      BY <1>1, <1>4, <1>5, LoopInduction, Zenon
  <2> QED
    BY <2>1, <2>2, Zenon
<1>7. ASSUME NEW j \in 1..len PROVE len + 1 - j \in 1..len /\ T(len + 1 - j) = b.txs[j]
  BY <1>1 DEF T
<1>8. ASSUME NEW n \in Asset, \A j \in 1..len : b.txs[j].name # n PROVE CleanPart(Undone(b), n)
  <2>1. \A j \in 1..len : T(j).name # n
    BY <1>1, <1>8, Zenon DEF T
  <2> QED
    BY <1>2, <1>6, <2>1
<1>9. ASSUME NEW j \in 1..len PROVE UndoPart(Undone(b), b.txs[j], b.undo)
  <2>1. len + 1 - j \in 1..len /\ T(len + 1 - j) = b.txs[j]
    BY <1>7
  <2>2. UndoPart(f[len], T(len + 1 - j), b.undo)
    BY <1>6, <2>1, Zenon
  <2> QED
    BY <1>2, <2>1, <2>2
<1> QED
  BY <1>8, <1>9

-----------------------------------------------------------------------------
(* What the active chain says of an asset.                                  *)
Unsaid == [meta |-> None, verifier |-> None]

ChainBlock == [txs : Seq(Tx), undo : Seq(UndoItem)]

(* What a transaction makes of what is said is well typed.                  *)
LEMMA SaidAfterTyped ==
  ASSUME NEW tx \in Tx, NEW n \in Asset, NEW said \in Said
  PROVE  SaidAfter(tx, n, said) \in Said
<1>1. said.meta \in Meta \cup {None} /\ said.verifier \in STRING \cup {None}
  BY DEF Said
<1>2. CASE tx.name # n
  BY <1>2 DEF SaidAfter
<1>3. CASE tx.name = n
  <2> DEFINE m == IF tx.kind = "issue" THEN NewMeta(tx)
                  ELSE IF said.meta = None THEN None ELSE ReissuedMeta(said.meta, tx)
             v == Changed(tx.verifier, said.verifier)
  <2>1. m \in Meta \cup {None}
    BY <1>1, MetaFacts
  <2>2. v \in STRING \cup {None}
    BY <1>1, TxFacts DEF Changed
  <2>3. SaidAfter(tx, n, said) = [meta |-> m, verifier |-> v]
    BY <1>3 DEF SaidAfter
  <2> HIDE DEF m, v
  <2> QED
    BY <2>1, <2>2, <2>3 DEF Said
<1> QED
  BY <1>2, <1>3

(* The rounds over the transactions of a block.                             *)
LEMMA SaidByBlockLoop ==
  ASSUME NEW txs \in Seq(Tx), NEW n \in Asset, NEW said \in Said
  PROVE  \E f : /\ SaidByBlock(txs, n, said) = f[Len(txs)]
                /\ f[0] = said
                /\ \A i \in 1..Len(txs) : f[i] = SaidAfter(txs[i], n, f[i - 1])
                /\ f \in [0..Len(txs) -> Said]
<1> DEFINE Def(f) == [i \in 0..Len(txs) |-> IF i = 0 THEN said ELSE SaidAfter(txs[i], n, f[i - 1])]
           step == [p \in Nat \X Said |-> IF p[1] \in 1..Len(txs)
                                       THEN SaidAfter(txs[p[1]], n, p[2]) ELSE p[2]]
<1>1. Len(txs) \in Nat /\ \A i \in 1..Len(txs) : txs[i] \in Tx
  OBVIOUS
<1>2. said \in Said
  OBVIOUS
<1>3. ASSUME NEW i \in 1..Len(txs), NEW v \in Said PROVE SaidAfter(txs[i], n, v) \in Said
  BY <1>1, <1>3, SaidAfterTyped
<1>4. step \in [Nat \X Said -> Said]
  <2>1. ASSUME NEW p \in Nat \X Said PROVE step[p] \in Said
    <3>1. p[2] \in Said
      OBVIOUS
    <3> QED
      BY <1>3, <3>1
  <2> QED
    BY <2>1
<1>5. PICK g \in [0..Len(txs) -> Said] : IsLoop(g, said, step, Len(txs))
  <2> HIDE DEF step
  <2> QED
    BY <1>1, <1>2, <1>4, LoopExists, Zenon
<1>6. g = Def(g)
  <2>1. ASSUME NEW i \in 1..Len(txs) PROVE g[i] = SaidAfter(txs[i], n, g[i - 1])
    <3>1. i \in Nat /\ i - 1 \in 0..Len(txs) /\ i # 0 /\ i \in 0..Len(txs)
      BY <1>1
    <3>2. g[i - 1] \in Said
      BY <3>1
    <3>3. step[<<i, g[i - 1]>>] = SaidAfter(txs[i], n, g[i - 1])
      BY <3>1, <3>2
    <3> HIDE DEF step
    <3>4. g[i] = step[<<i, g[i - 1]>>]
      BY <1>5, <3>1 DEF IsLoop
    <3> QED
      BY <3>3, <3>4
  <2>2. g[0] = said
    BY <1>1, <1>5 DEF IsLoop
  <2>3. g = [i \in 0..Len(txs) |-> g[i]]
    BY <1>5
  <2>4. \A i \in 0..Len(txs) : i = 0 \/ i \in 1..Len(txs)
    BY <1>1
  <2> HIDE DEF step
  <2>5. \A i \in 0..Len(txs) : g[i] = Def(g)[i]
    BY <2>1, <2>2, <2>4
  <2> QED
    BY <2>3, <2>5
<1> DEFINE F == CHOOSE f : f = Def(f)
<1>7. F = Def(F)
  <2> HIDE DEF Def
  <2> QED
    BY <1>6, Zenon
<1>8. SaidByBlock(txs, n, said) = F[Len(txs)]
  BY DEF SaidByBlock
<1> HIDE DEF F
<1>9. F[0] = said /\ \A i \in 1..Len(txs) : F[i] = SaidAfter(txs[i], n, F[i - 1])
  <2> HIDE DEF step
  <2>1. 0 \in 0..Len(txs) /\ \A i \in 1..Len(txs) : i \in 0..Len(txs) /\ i # 0
    BY <1>1
  <2> QED
    BY <1>7, <2>1
<1>10. F \in [0..Len(txs) -> Said]
  <2> DEFINE S == {i \in 0..Len(txs) : F[i] \in Said}
  <2>1. 0 \in S
    BY <1>1, <1>2, <1>9
  <2>2. \A i \in 1..Len(txs) : i - 1 \in S => i \in S
    <3>1. ASSUME NEW i \in 1..Len(txs), i - 1 \in S PROVE i \in S
      <4>1. F[i - 1] \in Said /\ i \in 0..Len(txs)
        BY <1>1, <3>1
      <4>2. F[i] \in Said
        BY <1>3, <1>9, <4>1
      <4> QED
        BY <4>1, <4>2
    <3> QED
      BY <3>1
  <2>3. \A i \in 0..Len(txs) : i \in S
    <3> HIDE DEF S
    <3> QED
      BY <1>1, <2>1, <2>2, LoopInduction, Zenon
  <2>4. F = [i \in 0..Len(txs) |-> F[i]]
    BY <1>7
  <2> QED
    BY <2>3, <2>4
<1> QED
  BY <1>8, <1>9, <1>10, Zenon

(* A block with one transaction of an asset says of it what that transaction
   says, and a block with none says nothing new.                            *)
LEMMA SaidByBlockFacts ==
  ASSUME NEW txs \in Seq(Tx), NEW n \in Asset, NEW said \in Said
  PROVE  /\ SaidByBlock(txs, n, said) \in Said
         /\ (\A i, j \in 1..Len(txs) : txs[i].name = txs[j].name => i = j) =>
              /\ (\A j \in 1..Len(txs) : txs[j].name # n) => SaidByBlock(txs, n, said) = said
              /\ \A j \in 1..Len(txs) : txs[j].name = n =>
                   SaidByBlock(txs, n, said) = SaidAfter(txs[j], n, said)
<1>1. Len(txs) \in Nat
  OBVIOUS
<1>2. PICK f : /\ SaidByBlock(txs, n, said) = f[Len(txs)]
               /\ f[0] = said
               /\ \A i \in 1..Len(txs) : f[i] = SaidAfter(txs[i], n, f[i - 1])
               /\ f \in [0..Len(txs) -> Said]
  BY SaidByBlockLoop
<1>3. SaidByBlock(txs, n, said) \in Said
  BY <1>1, <1>2
<1>4. ASSUME \A i, j \in 1..Len(txs) : txs[i].name = txs[j].name => i = j
      PROVE  /\ (\A j \in 1..Len(txs) : txs[j].name # n) => f[Len(txs)] = said
             /\ \A j \in 1..Len(txs) : txs[j].name = n => f[Len(txs)] = SaidAfter(txs[j], n, said)
  <2> DEFINE Good(i) == /\ (\A j \in 1..i : txs[j].name # n) => f[i] = said
                        /\ \A j \in 1..i : txs[j].name = n => f[i] = SaidAfter(txs[j], n, said)
             S == {i \in 0..Len(txs) : Good(i)}
  <2>1. 0 \in S
    <3>1. \A j \in 1..0 : FALSE
      OBVIOUS
    <3>2. Good(0)
      BY <1>2, <3>1, Zenon
    <3> QED
      BY <1>1, <3>2
  <2>2. ASSUME NEW i \in 1..Len(txs), i - 1 \in S PROVE i \in S
    <3>1. Good(i - 1) /\ i \in 0..Len(txs)
      BY <1>1, <2>2
    <3>2. f[i] = SaidAfter(txs[i], n, f[i - 1])
      BY <1>2
    <3>3. /\ i \in 1..i /\ \A j \in 1..(i - 1) : j \in 1..i /\ j \in 1..Len(txs)
          /\ \A j \in 1..i : j = i \/ j \in 1..(i - 1)
          /\ i \notin 1..(i - 1)
      BY <1>1
    <3>4. CASE txs[i].name # n
      <4>1. f[i] = f[i - 1]
        BY <3>2, <3>4 DEF SaidAfter
      <4>2. Good(i)
        BY <3>1, <3>3, <3>4, <4>1
      <4> QED
        BY <3>1, <4>2
    <3>5. CASE txs[i].name = n
      <4>1. \A j \in 1..(i - 1) : txs[j].name # n
        BY <1>4, <3>3, <3>5
      <4>2. f[i - 1] = said
        BY <3>1, <4>1
      <4>3. Good(i)
        BY <3>2, <3>3, <3>5, <4>1, <4>2
      <4> QED
        BY <3>1, <4>3
    <3> QED
      BY <3>4, <3>5
  <2>3. \A i \in 0..Len(txs) : i \in S
    <3> HIDE DEF S
    <3> QED
      BY <1>1, <2>1, <2>2, LoopInduction, Zenon
  <2>4. Len(txs) \in 0..Len(txs)
    BY <1>1
  <2>5. Good(Len(txs))
    BY <2>3, <2>4, Zenon
  <2> QED
    BY <2>5
<1> QED
  BY <1>2, <1>3, <1>4

(* The rounds over the blocks of a chain.                                   *)
LEMMA SaidUpToLoop ==
  ASSUME NEW blocks \in Seq(ChainBlock), NEW n \in Asset
  PROVE  \E f : /\ SaidUpTo(blocks, n) = f
                /\ f[0] = Unsaid
                /\ \A i \in 1..Len(blocks) : f[i] = SaidByBlock(blocks[i].txs, n, f[i - 1])
                /\ f \in [0..Len(blocks) -> Said]
<1> DEFINE Def(f) == [i \in 0..Len(blocks) |-> IF i = 0 THEN Unsaid ELSE SaidByBlock(blocks[i].txs, n, f[i - 1])]
           step == [p \in Nat \X Said |-> IF p[1] \in 1..Len(blocks)
                                       THEN SaidByBlock(blocks[p[1]].txs, n, p[2]) ELSE p[2]]
<1>1. Len(blocks) \in Nat /\ \A i \in 1..Len(blocks) : blocks[i].txs \in Seq(Tx)
  <2>1. Len(blocks) \in Nat /\ \A i \in 1..Len(blocks) : blocks[i] \in ChainBlock
    OBVIOUS
  <2> QED
    BY <2>1 DEF ChainBlock
<1>2. Unsaid \in Said
  BY DEF Unsaid, Said
<1>3. ASSUME NEW i \in 1..Len(blocks), NEW v \in Said PROVE SaidByBlock(blocks[i].txs, n, v) \in Said
  BY <1>1, <1>3, SaidByBlockFacts
<1>4. step \in [Nat \X Said -> Said]
  <2>1. ASSUME NEW p \in Nat \X Said PROVE step[p] \in Said
    <3>1. p[2] \in Said
      OBVIOUS
    <3> QED
      BY <1>3, <3>1
  <2> QED
    BY <2>1
<1>5. PICK g \in [0..Len(blocks) -> Said] : IsLoop(g, Unsaid, step, Len(blocks))
  <2> HIDE DEF step
  <2> QED
    BY <1>1, <1>2, <1>4, LoopExists, Zenon
<1>6. g = Def(g)
  <2>1. ASSUME NEW i \in 1..Len(blocks) PROVE g[i] = SaidByBlock(blocks[i].txs, n, g[i - 1])
    <3>1. i \in Nat /\ i - 1 \in 0..Len(blocks) /\ i # 0 /\ i \in 0..Len(blocks)
      BY <1>1
    <3>2. g[i - 1] \in Said
      BY <3>1
    <3>3. step[<<i, g[i - 1]>>] = SaidByBlock(blocks[i].txs, n, g[i - 1])
      BY <3>1, <3>2
    <3> HIDE DEF step
    <3>4. g[i] = step[<<i, g[i - 1]>>]
      BY <1>5, <3>1 DEF IsLoop
    <3> QED
      BY <3>3, <3>4
  <2>2. g[0] = Unsaid
    BY <1>1, <1>5 DEF IsLoop
  <2>3. g = [i \in 0..Len(blocks) |-> g[i]]
    BY <1>5
  <2>4. \A i \in 0..Len(blocks) : i = 0 \/ i \in 1..Len(blocks)
    BY <1>1
  <2> HIDE DEF step
  <2>5. \A i \in 0..Len(blocks) : g[i] = Def(g)[i]
    BY <2>1, <2>2, <2>4
  <2> QED
    BY <2>3, <2>5
<1> DEFINE F == CHOOSE f : f = Def(f)
<1>7. F = Def(F)
  <2> HIDE DEF Def
  <2> QED
    BY <1>6, Zenon
<1>8. SaidUpTo(blocks, n) = F
  BY DEF SaidUpTo, Unsaid
<1> HIDE DEF F
<1>9. F[0] = Unsaid /\ \A i \in 1..Len(blocks) : F[i] = SaidByBlock(blocks[i].txs, n, F[i - 1])
  <2> HIDE DEF step
  <2>1. 0 \in 0..Len(blocks) /\ \A i \in 1..Len(blocks) : i \in 0..Len(blocks) /\ i # 0
    BY <1>1
  <2> QED
    BY <1>7, <2>1
<1>10. F \in [0..Len(blocks) -> Said]
  <2> DEFINE S == {i \in 0..Len(blocks) : F[i] \in Said}
  <2>1. 0 \in S
    BY <1>1, <1>2, <1>9
  <2>2. \A i \in 1..Len(blocks) : i - 1 \in S => i \in S
    <3>1. ASSUME NEW i \in 1..Len(blocks), i - 1 \in S PROVE i \in S
      <4>1. F[i - 1] \in Said /\ i \in 0..Len(blocks)
        BY <1>1, <3>1
      <4>2. F[i] \in Said
        BY <1>3, <1>9, <4>1
      <4> QED
        BY <4>1, <4>2
    <3> QED
      BY <3>1
  <2>3. \A i \in 0..Len(blocks) : i \in S
    <3> HIDE DEF S
    <3> QED
      BY <1>1, <2>1, <2>2, LoopInduction, Zenon
  <2>4. F = [i \in 0..Len(blocks) |-> F[i]]
    BY <1>7
  <2> QED
    BY <2>3, <2>4
<1> QED
  BY <1>8, <1>9, <1>10, Zenon

(* What the blocks say, from below: nothing, then block by block.           *)
LEMMA SaidUpToFacts ==
  ASSUME NEW blocks \in Seq(ChainBlock), NEW n \in Asset
  PROVE  LET f == SaidUpTo(blocks, n)
         IN /\ f[0] = Unsaid
            /\ \A i \in 1..Len(blocks) : f[i] = SaidByBlock(blocks[i].txs, n, f[i - 1])
            /\ f \in [0..Len(blocks) -> Said]
<1>1. PICK f : /\ SaidUpTo(blocks, n) = f
               /\ f[0] = Unsaid
               /\ \A i \in 1..Len(blocks) : f[i] = SaidByBlock(blocks[i].txs, n, f[i - 1])
               /\ f \in [0..Len(blocks) -> Said]
  BY SaidUpToLoop
<1> QED
  BY <1>1

(* A block above does not change what the blocks below say.                 *)
LEMMA SaidUpToPrefix ==
  ASSUME NEW blocks \in Seq(ChainBlock), NEW more \in Seq(ChainBlock), NEW n \in Asset,
         Len(blocks) <= Len(more), \A i \in 1..Len(blocks) : more[i] = blocks[i]
  PROVE  \A i \in 0..Len(blocks) : SaidUpTo(more, n)[i] = SaidUpTo(blocks, n)[i]
<1> DEFINE f == SaidUpTo(blocks, n)
           g == SaidUpTo(more, n)
           S == {i \in 0..Len(blocks) : g[i] = f[i]}
<1>1. Len(blocks) \in Nat /\ Len(more) \in Nat
  OBVIOUS
<1>2. /\ f[0] = Unsaid /\ g[0] = Unsaid
      /\ \A i \in 1..Len(blocks) : f[i] = SaidByBlock(blocks[i].txs, n, f[i - 1])
      /\ \A i \in 1..Len(more) : g[i] = SaidByBlock(more[i].txs, n, g[i - 1])
  BY SaidUpToFacts
<1> HIDE DEF f, g
<1>3. 0 \in S
  BY <1>1, <1>2
<1>4. ASSUME NEW i \in 1..Len(blocks), i - 1 \in S PROVE i \in S
  <2>1. i \in 1..Len(more) /\ i \in 0..Len(blocks)
    BY <1>1
  <2>2. g[i - 1] = f[i - 1] /\ more[i] = blocks[i]
    BY <1>4
  <2> QED
    BY <1>2, <2>1, <2>2
<1>5. \A i \in 0..Len(blocks) : i \in S
  <2> HIDE DEF S
  <2> QED
    BY <1>1, <1>3, <1>4, LoopInduction, Zenon
<1> QED
  BY <1>5 DEF f, g

OneEach(txs) == \A i, j \in 1..Len(txs) : txs[i].name = txs[j].name => i = j

IsIssue(tx, n) == tx.name = n /\ tx.kind = "issue"

(* The issues of an asset in a chain.                                       *)
IssuedIn(blocks, n) ==
    \E h \in 1..Len(blocks) : \E i \in 1..Len(blocks[h].txs) : IsIssue(blocks[h].txs[i], n)

OneIssue(blocks, n) ==
    \A h, g \in 1..Len(blocks) :
    \A i \in 1..Len(blocks[h].txs), j \in 1..Len(blocks[g].txs) :
        IsIssue(blocks[h].txs[i], n) /\ IsIssue(blocks[g].txs[j], n) => h = g /\ i = j

(* A transaction fits what the blocks below say of its asset: an issue finds
   nothing, a reissue finds reissuable metadata, and the undo entry of the
   block holds what the reissue replaces.                                   *)
Fits(b, n, before) ==
    \A i \in 1..Len(b.txs) : b.txs[i].name = n =>
        IF b.txs[i].kind = "issue" THEN before = Unsaid
        ELSE /\ before.meta # None /\ before.meta.reissuable
             /\ ItemOf(b.undo, n) = ItemFor(b.txs[i], before.meta, before.verifier)

FitsIn(blocks, n) ==
    \A h \in 1..Len(blocks) : Fits(blocks[h], n, SaidUpTo(blocks, n)[h - 1])

(* One more block.                                                          *)
LEMMA ChainAppend ==
  ASSUME NEW blocks \in Seq(ChainBlock), NEW b \in ChainBlock, NEW n \in Asset, OneEach(b.txs)
  PROVE  LET more == Append(blocks, b)
             before == SaidUpTo(blocks, n)[Len(blocks)]
             after == SaidUpTo(more, n)[Len(more)]
             here == \E i \in 1..Len(b.txs) : IsIssue(b.txs[i], n)
         IN /\ IssuedIn(more, n) <=> IssuedIn(blocks, n) \/ here
            /\ OneIssue(more, n) <=> OneIssue(blocks, n) /\ ~(IssuedIn(blocks, n) /\ here)
            /\ FitsIn(more, n) <=> FitsIn(blocks, n) /\ Fits(b, n, before)
            /\ before \in Said /\ after \in Said
            /\ (\A i \in 1..Len(b.txs) : b.txs[i].name # n) => after = before
            /\ \A i \in 1..Len(b.txs) : b.txs[i].name = n => after = SaidAfter(b.txs[i], n, before)
<1> DEFINE more == Append(blocks, b)
           len == Len(blocks)
           here == \E i \in 1..Len(b.txs) : IsIssue(b.txs[i], n)
<1>1. /\ len \in Nat /\ more \in Seq(ChainBlock) /\ Len(more) = len + 1
      /\ \A h \in 1..len : more[h] = blocks[h]
      /\ more[len + 1] = b
  OBVIOUS
<1>2. b.txs \in Seq(Tx)
  BY DEF ChainBlock
<1> HIDE DEF more, len
<1>3. /\ 1..Len(more) = 1..len \cup {len + 1} /\ len + 1 \notin 1..len
      /\ len \in 0..len /\ len + 1 \in 1..Len(more) /\ len + 1 \in 0..Len(more)
      /\ len + 1 - 1 = len
      /\ \A h \in 1..len : h - 1 \in 0..len
  BY <1>1
<1>4. IssuedIn(more, n) <=> IssuedIn(blocks, n) \/ here
  BY <1>1, <1>3, Zenon DEF IssuedIn, len
<1>5. OneIssue(more, n) <=> OneIssue(blocks, n) /\ ~(IssuedIn(blocks, n) /\ here)
  <2>1. ASSUME OneIssue(more, n) PROVE OneIssue(blocks, n) /\ ~(IssuedIn(blocks, n) /\ here)
    <3>1. OneIssue(blocks, n)
      <4> SUFFICES ASSUME NEW h \in 1..len, NEW g \in 1..len,
                          NEW i \in 1..Len(blocks[h].txs), NEW j \in 1..Len(blocks[g].txs),
                          IsIssue(blocks[h].txs[i], n), IsIssue(blocks[g].txs[j], n)
                   PROVE  h = g /\ i = j
        BY DEF OneIssue, len
      <4>1. more[h] = blocks[h] /\ more[g] = blocks[g] /\ h \in 1..Len(more) /\ g \in 1..Len(more)
        BY <1>1, <1>3
      <4> QED
        BY <2>1, <4>1, Zenon DEF OneIssue
    <3>2. ~(IssuedIn(blocks, n) /\ here)
      <4> SUFFICES ASSUME NEW h \in 1..len, NEW i \in 1..Len(blocks[h].txs),
                          IsIssue(blocks[h].txs[i], n),
                          NEW j \in 1..Len(b.txs), IsIssue(b.txs[j], n)
                   PROVE  FALSE
        BY DEF IssuedIn, len
      <4>1. h \in 1..Len(more) /\ h # len + 1
        BY <1>1, <1>3
      <4>2. more[h] = blocks[h] /\ more[len + 1] = b
        BY <1>1
      <4> QED
        BY <1>3, <2>1, <4>1, <4>2, Zenon DEF OneIssue
    <3> QED
      BY <3>1, <3>2
  <2>2. ASSUME OneIssue(blocks, n), ~(IssuedIn(blocks, n) /\ here) PROVE OneIssue(more, n)
    <3> SUFFICES ASSUME NEW h \in 1..Len(more), NEW g \in 1..Len(more),
                        NEW i \in 1..Len(more[h].txs), NEW j \in 1..Len(more[g].txs),
                        IsIssue(more[h].txs[i], n), IsIssue(more[g].txs[j], n)
                 PROVE  h = g /\ i = j
      BY Zenon DEF OneIssue
    <3>1. ASSUME NEW k \in 1..len PROVE more[k] = blocks[k]
      BY <1>1
    <3>2. CASE h \in 1..len /\ g \in 1..len
      BY <2>2, <3>1, <3>2, Zenon DEF OneIssue, len
    <3>3. CASE h = len + 1 /\ g = len + 1
      BY <1>1, <3>3 DEF OneEach, IsIssue
    <3>4. CASE (h \in 1..len /\ g = len + 1) \/ (h = len + 1 /\ g \in 1..len)
      BY <1>1, <2>2, <3>1, <3>4 DEF IssuedIn, len
    <3> QED
      BY <1>3, <3>2, <3>3, <3>4, Zenon
  <2> QED
    BY <2>1, <2>2, Zenon
<1>6. \A h \in 0..len : SaidUpTo(more, n)[h] = SaidUpTo(blocks, n)[h]
  BY <1>1, SaidUpToPrefix DEF len
<1>7. FitsIn(more, n) <=> FitsIn(blocks, n) /\ Fits(b, n, SaidUpTo(blocks, n)[len])
  <2>1. PICK top \in 1..Len(more) : top = len + 1
    BY <1>1, <1>3
  <2>2. more[top] = b /\ SaidUpTo(more, n)[top - 1] = SaidUpTo(blocks, n)[len]
    <3>1. top - 1 = len
      BY <1>3, <2>1
    <3> QED
      BY <1>1, <1>3, <1>6, <2>1, <3>1, Zenon
  <2>3. \A h \in 1..len : more[h] = blocks[h] /\ SaidUpTo(more, n)[h - 1] = SaidUpTo(blocks, n)[h - 1]
    BY <1>1, <1>3, <1>6, Zenon
  <2>4. /\ \A h \in 1..Len(more) : h \in 1..len \/ h = top
        /\ \A h \in 1..len : h \in 1..Len(more)
    BY <1>1, <1>3, <2>1
  <2>5. FitsIn(more, n) <=> \A h \in 1..Len(more) : Fits(more[h], n, SaidUpTo(more, n)[h - 1])
    BY Zenon DEF FitsIn
  <2>6. FitsIn(blocks, n) <=> \A h \in 1..len : Fits(blocks[h], n, SaidUpTo(blocks, n)[h - 1])
    BY Zenon DEF FitsIn, len
  <2> HIDE DEF len, more
  <2>7. ASSUME FitsIn(more, n) PROVE FitsIn(blocks, n) /\ Fits(b, n, SaidUpTo(blocks, n)[len])
    <3>1. \A h \in 1..Len(more) : Fits(more[h], n, SaidUpTo(more, n)[h - 1])
      BY <2>5, <2>7, Zenon
    <3>2. Fits(more[top], n, SaidUpTo(more, n)[top - 1])
      BY <3>1, Zenon
    <3>3. \A h \in 1..len : Fits(blocks[h], n, SaidUpTo(blocks, n)[h - 1])
      BY <2>3, <2>4, <3>1, Zenon
    <3> QED
      BY <2>2, <2>6, <3>2, <3>3, Zenon
  <2>8. ASSUME FitsIn(blocks, n), Fits(b, n, SaidUpTo(blocks, n)[len]) PROVE FitsIn(more, n)
    <3>1. \A h \in 1..len : Fits(blocks[h], n, SaidUpTo(blocks, n)[h - 1])
      BY <2>6, <2>8, Zenon
    <3>2. ASSUME NEW h \in 1..Len(more) PROVE Fits(more[h], n, SaidUpTo(more, n)[h - 1])
      BY <2>2, <2>3, <2>4, <2>8, <3>1, Zenon
    <3> QED
      BY <2>5, <3>2, Zenon
  <2> QED
    BY <2>7, <2>8, Zenon
<1>8. /\ SaidUpTo(blocks, n)[len] \in Said /\ SaidUpTo(more, n)[len + 1] \in Said
      /\ SaidUpTo(more, n)[len + 1] = SaidByBlock(b.txs, n, SaidUpTo(blocks, n)[len])
  <2>1. SaidUpTo(blocks, n) \in [0..len -> Said]
    BY SaidUpToFacts, Zenon DEF len
  <2>2. /\ \A h \in 1..Len(more) : SaidUpTo(more, n)[h] = SaidByBlock(more[h].txs, n, SaidUpTo(more, n)[h - 1])
        /\ SaidUpTo(more, n) \in [0..Len(more) -> Said]
    BY <1>1, SaidUpToFacts, Zenon
  <2>3. SaidUpTo(more, n)[len + 1] = SaidByBlock(more[len + 1].txs, n, SaidUpTo(more, n)[len])
    BY <1>3, <2>2
  <2> QED
    BY <1>1, <1>3, <1>6, <2>1, <2>2, <2>3
<1>9. LET before == SaidUpTo(blocks, n)[len]
          after == SaidUpTo(more, n)[len + 1]
      IN /\ (\A i \in 1..Len(b.txs) : b.txs[i].name # n) => after = before
         /\ \A i \in 1..Len(b.txs) : b.txs[i].name = n => after = SaidAfter(b.txs[i], n, before)
  BY <1>2, <1>8, SaidByBlockFacts DEF OneEach
<1> QED
  BY <1>1, <1>4, <1>5, <1>7, <1>8, <1>9, Zenon DEF more, len

(* One block less.                                                          *)
LEMMA ChainFront ==
  ASSUME NEW S, NEW blocks \in Seq(S), blocks # <<>>
  PROVE  LET less == SubSeq(blocks, 1, Len(blocks) - 1)
             b == blocks[Len(blocks)]
         IN /\ less \in Seq(S) /\ Len(less) = Len(blocks) - 1 /\ b \in S
            /\ blocks = Append(less, b)
            /\ \A h \in 1..Len(less) : less[h] = blocks[h]
<1>1. Len(blocks) \in Nat /\ Len(blocks) >= 1 /\ DOMAIN blocks = 1..Len(blocks)
  OBVIOUS
<1>2. blocks[Len(blocks)] \in S
  BY <1>1
<1>3. PICK less \in Seq(S) :
        /\ less = SubSeq(blocks, 1, Len(blocks) - 1) /\ Len(less) = Len(blocks) - 1
        /\ \A h \in 1..Len(less) : less[h] = blocks[h]
  <2> DEFINE front == SubSeq(blocks, 1, Len(blocks) - 1)
  <2>1. /\ front \in Seq(S) /\ Len(front) = Len(blocks) - 1
        /\ \A h \in 1..Len(front) : front[h] = blocks[h]
    BY <1>1
  <2> QED
    BY <2>1, Zenon
<1>4. PICK whole \in Seq(S) : whole = Append(less, blocks[Len(blocks)])
  <2>1. Append(less, blocks[Len(blocks)]) \in Seq(S)
    BY <1>2
  <2> QED
    BY <2>1, Zenon
<1>5. /\ Len(whole) = Len(less) + 1 /\ \A h \in 1..Len(less) : whole[h] = less[h]
      /\ whole[Len(less) + 1] = blocks[Len(blocks)]
  BY <1>2, <1>4
<1>6. Len(whole) = Len(blocks)
  BY <1>1, <1>3, <1>5
<1>7. \A h \in 1..Len(blocks) : whole[h] = blocks[h]
  BY <1>1, <1>3, <1>5
<1>8. whole = blocks
  BY <1>6, <1>7
<1> QED
  BY <1>2, <1>3, <1>4, <1>8

-----------------------------------------------------------------------------
(* What Flush makes of an asset.                                            *)
FlushPart(q, c, p, n) ==
    /\ q.add[n] = IF n \in c.rem THEN None ELSE Or(p.add[n], c.add[n])
    /\ n \in q.rem <=> (n \in p.rem /\ c.add[n] = None) \/ n \in c.rem
    /\ q.reissued[n] = Or(c.reissued[n], p.reissued[n])
    /\ q.verAdd[n] = IF c.verRem[n] # None THEN None ELSE Or(c.verAdd[n], p.verAdd[n])
    /\ q.verRem[n] = IF c.verAdd[n] # None THEN c.verRem[n] ELSE Or(c.verRem[n], p.verRem[n])
    /\ \A tx \in Tx :
         /\ tx \in q.reAdd <=> (tx \in p.reAdd \/ tx \in c.reAdd) /\ tx \notin c.reRem
         /\ tx \in q.reRem <=> (tx \in p.reRem /\ tx \notin c.reAdd) \/ tx \in c.reRem

(* Flush, entry by entry.                                                   *)
LEMMA FlushedFacts ==
  ASSUME NEW c \in Cache, NEW p \in Cache, \A n \in p.rem : p.add[n] = None
  PROVE  /\ Flushed(c, p) \in Cache
         /\ \A n \in Flushed(c, p).rem : Flushed(c, p).add[n] = None
         /\ \A n \in Asset : FlushPart(Flushed(c, p), c, p, n)
<1> DEFINE q == Flushed(c, p)
<1>1. /\ c.add \in [Asset -> Meta \cup {None}] /\ c.rem \subseteq Asset
      /\ c.reissued \in [Asset -> Meta \cup {None}]
      /\ c.reAdd \subseteq Tx /\ c.reRem \subseteq Tx
      /\ c.verAdd \in [Asset -> STRING \cup {None}]
      /\ c.verRem \in [Asset -> VerifierUndo \cup {None}]
  BY CacheFields
<1>2. /\ p.add \in [Asset -> Meta \cup {None}] /\ p.rem \subseteq Asset
      /\ p.reissued \in [Asset -> Meta \cup {None}]
      /\ p.reAdd \subseteq Tx /\ p.reRem \subseteq Tx
      /\ p.verAdd \in [Asset -> STRING \cup {None}]
      /\ p.verRem \in [Asset -> VerifierUndo \cup {None}]
  BY CacheFields
<1>3. /\ q.add = [n \in Asset |-> IF n \in c.rem THEN None ELSE Or(p.add[n], c.add[n])]
      /\ q.rem = {n \in p.rem : c.add[n] = None} \cup c.rem
      /\ q.reissued = [n \in Asset |-> Or(c.reissued[n], p.reissued[n])]
      /\ q.reAdd = (p.reAdd \cup c.reAdd) \ c.reRem
      /\ q.reRem = (p.reRem \ c.reAdd) \cup c.reRem
      /\ q.verAdd = [n \in Asset |-> IF c.verRem[n] # None THEN None
                                     ELSE Or(c.verAdd[n], p.verAdd[n])]
      /\ q.verRem = [n \in Asset |-> IF c.verAdd[n] # None THEN c.verRem[n]
                                     ELSE Or(c.verRem[n], p.verRem[n])]
      /\ q = [add |-> q.add, rem |-> q.rem, reissued |-> q.reissued, reAdd |-> q.reAdd,
              reRem |-> q.reRem, verAdd |-> q.verAdd, verRem |-> q.verRem]
  BY Zenon DEF Flushed
<1> HIDE DEF q
<1>4. /\ q.add \in [Asset -> Meta \cup {None}] /\ q.rem \subseteq Asset
      /\ q.reissued \in [Asset -> Meta \cup {None}]
      /\ q.reAdd \subseteq Tx /\ q.reRem \subseteq Tx
  BY <1>1, <1>2, <1>3 DEF Or
<1>5. /\ q.verAdd \in [Asset -> STRING \cup {None}]
      /\ q.verRem \in [Asset -> VerifierUndo \cup {None}]
  BY <1>1, <1>2, <1>3 DEF Or
<1>6. q \in Cache
  BY <1>3, <1>4, <1>5, Zenon DEF Cache
<1>7. ASSUME NEW n \in Asset PROVE FlushPart(q, c, p, n)
  <2>1. /\ q.add[n] = IF n \in c.rem THEN None ELSE Or(p.add[n], c.add[n])
        /\ n \in q.rem <=> (n \in p.rem /\ c.add[n] = None) \/ n \in c.rem
        /\ q.reissued[n] = Or(c.reissued[n], p.reissued[n])
    BY <1>3
  <2>2. /\ q.verAdd[n] = IF c.verRem[n] # None THEN None ELSE Or(c.verAdd[n], p.verAdd[n])
        /\ q.verRem[n] = IF c.verAdd[n] # None THEN c.verRem[n]
                         ELSE Or(c.verRem[n], p.verRem[n])
    BY <1>3
  <2>3. \A tx \in Tx :
          /\ tx \in q.reAdd <=> (tx \in p.reAdd \/ tx \in c.reAdd) /\ tx \notin c.reRem
          /\ tx \in q.reRem <=> (tx \in p.reRem /\ tx \notin c.reAdd) \/ tx \in c.reRem
    BY <1>3
  <2> QED
    BY <2>1, <2>2, <2>3, Zenon DEF FlushPart
<1>8. \A n \in q.rem : q.add[n] = None
  BY <1>4, <1>7, Zenon DEF Or, FlushPart
<1> QED
  BY <1>6, <1>7, <1>8, Zenon DEF q

(* A block that ConnectTip may connect is a sequence of transactions.       *)
LEMMA BlocksFacts ==
  ASSUME NEW txs \in Blocks
  PROVE  txs \in Seq(Tx)
<1>1. PICK k \in 1..MaxTxs : txs \in [1..k -> Tx \ Mined]
  BY DEF Blocks
<1>2. k \in Nat /\ txs \in [1..k -> Tx]
  BY <1>1, TxAssumption
<1> QED
  BY <1>2

-----------------------------------------------------------------------------
(* Type correctness, whatever the blocks hold.                              *)
LEMMA ConnectTyped ==
  ASSUME TypeOK, NEW txs \in Seq(Tx)
  PROVE  Connected(txs).cache \in Cache /\ Connected(txs).undo \in Seq(UndoItem)
<1>1. PICK f : Connected(txs) = f[Len(txs)] /\ f \in [0..Len(txs) -> LoopState]
  BY ConnectedLoop
<1>2. Connected(txs) \in LoopState
  BY <1>1
<1> QED
  BY <1>2 DEF LoopState

(* The cache that DisconnectBlock leaves.                                   *)
LEMMA UndoneTyped ==
  ASSUME TypeOK, NEW b \in ChainBlock
  PROVE  Undone(b) \in Cache /\ b.txs \in Seq(Tx) /\ b.undo \in Seq(UndoItem)
<1>1. b.txs \in Seq(Tx) /\ b.undo \in Seq(UndoItem)
  BY DEF ChainBlock
<1>2. PICK f : Undone(b) = f[Len(b.txs)] /\ f \in [0..Len(b.txs) -> Cache]
  BY <1>1, UndoneLoop
<1> QED
  BY <1>1, <1>2

(* Type correctness, as the proofs use it.                                  *)
LEMMA TypeFacts ==
  ASSUME TypeOK
  PROVE  /\ chain \in Seq(ChainBlock) /\ Len(chain) \in Nat
         /\ passets \in Cache /\ \A n \in passets.rem : passets.add[n] = None
  BY DEF TypeOK, ChainBlock

(* Flush into passets.                                                      *)
LEMMA FlushedAt ==
  ASSUME TypeOK, NEW c \in Cache, NEW n \in Asset
  PROVE  FlushPart(Flushed(c, passets), c, passets, n)
  BY TypeFacts, FlushedFacts, Zenon

(* The node starts with empty caches.                                       *)
LEMMA TypeInit == Init => TypeOK
<1> SUFFICES ASSUME Init PROVE TypeOK
  OBVIOUS
<1>1. Clean \in Cache /\ Clean.rem = {}
  BY CleanFacts DEF Clean
<1>2. <<>> \in Seq([txs : Seq(Tx), undo : Seq(UndoItem)]) /\ Len(<<>>) = 0
  OBVIOUS
<1> QED
  BY <1>1, <1>2, TxAssumption DEF Init, TypeOK, Nothing

(* Every step keeps the types.                                              *)
LEMMA TypeNext ==
  ASSUME TypeOK, [Next]_vars
  PROVE  TypeOK'
<1>1. ASSUME NEW txs \in Blocks, ConnectTip(txs) PROVE TypeOK'
  <2> DEFINE s == Connected(txs)
             b == [txs |-> txs, undo |-> s.undo]
  <2>1. txs \in Seq(Tx) /\ s.cache \in Cache /\ s.undo \in Seq(UndoItem)
    BY BlocksFacts, ConnectTyped
  <2>2. /\ passets' = Flushed(s.cache, passets) /\ chain' = Append(chain, b)
        /\ Len(chain) < MaxHeight
        /\ UNCHANGED <<metaLru, verLru, metaDB, verDB, stale>>
    BY <1>1 DEF ConnectTip
  <2> HIDE DEF s
  <2>3. b \in ChainBlock
    BY <2>1 DEF ChainBlock
  <2> HIDE DEF b
  <2>4. chain' \in Seq(ChainBlock) /\ Len(chain') <= MaxHeight
    BY <2>2, <2>3, TypeFacts, TxAssumption
  <2>5. passets' \in Cache /\ \A n \in passets'.rem : passets'.add[n] = None
    BY <2>1, <2>2, TypeFacts, FlushedFacts
  <2> QED
    BY <2>2, <2>4, <2>5, Zenon DEF TypeOK, ChainBlock
<1>2. CASE DisconnectTip
  <2> DEFINE b == chain[Len(chain)]
  <2>1. /\ chain # <<>> /\ passets' = Flushed(Undone(b), passets)
        /\ chain' = SubSeq(chain, 1, Len(chain) - 1)
        /\ stale' = stale \cup {n \in passets'.rem : passets'.reissued[n] # None}
        /\ UNCHANGED <<metaLru, verLru, metaDB, verDB>>
    BY <1>2 DEF DisconnectTip
  <2>2. chain' \in Seq(ChainBlock) /\ Len(chain') = Len(chain) - 1 /\ b \in ChainBlock
    BY <2>1, TypeFacts, ChainFront, Zenon
  <2> HIDE DEF b
  <2>3. Undone(b) \in Cache
    BY <2>2, UndoneTyped, Zenon
  <2>4. passets' \in Cache /\ \A n \in passets'.rem : passets'.add[n] = None
    BY <2>1, <2>3, TypeFacts, FlushedFacts
  <2>5. Len(chain') <= MaxHeight
    BY <2>2, TypeFacts, TxAssumption DEF TypeOK
  <2>6. stale' \subseteq Asset
    BY <2>1, <2>4, CacheFields, Zenon DEF TypeOK
  <2> QED
    BY <2>1, <2>2, <2>4, <2>5, <2>6 DEF TypeOK, ChainBlock
<1>3. ASSUME NEW n \in Asset, ReadMeta(n) PROVE TypeOK'
  BY <1>3, Zenon DEF ReadMeta, TypeOK
<1>4. ASSUME NEW n \in Asset, ReadVerifier(n) PROVE TypeOK'
  BY <1>4, Zenon DEF ReadVerifier, TypeOK
<1>5. CASE DumpCacheToDatabase
  <2>1. /\ passets.add \in [Asset -> Meta \cup {None}] /\ passets.reissued \in [Asset -> Meta \cup {None}]
        /\ passets.verAdd \in [Asset -> STRING \cup {None}]
        /\ passets.verRem \in [Asset -> VerifierUndo \cup {None}]
    BY TypeFacts, CacheFields, Zenon
  <2>2. metaDB' \in [Asset -> Meta \cup {None}] /\ metaLru' \in [Asset -> Meta \cup {None}]
    BY <1>5, <2>1, Zenon DEF DumpCacheToDatabase, DumpedMetaLru, Or, TypeOK
  <2>3. \A n \in Asset : DumpedVerifier(n) \in STRING \cup {None}
    <3> TAKE n \in Asset
    <3>1. passets.verRem[n] # None => passets.verRem[n].verifier \in STRING \cup {None}
      BY <2>1, Zenon DEF VerifierUndo
    <3> QED
      BY <2>1, <3>1 DEF DumpedVerifier, Or, TypeOK
  <2>4. verDB' \in [Asset -> STRING \cup {None}] /\ verLru' \in [Asset -> STRING \cup {None}]
    BY <1>5, <2>3 DEF DumpCacheToDatabase, TypeOK
  <2>5. passets' \in Cache /\ passets'.rem = {}
    BY <1>5, CleanFacts, Zenon DEF DumpCacheToDatabase, Clean
  <2>6. stale' \subseteq Asset /\ chain' = chain
    BY <1>5 DEF DumpCacheToDatabase, TypeOK
  <2> QED
    BY <2>2, <2>4, <2>5, <2>6 DEF TypeOK
<1>6. CASE UNCHANGED vars
  BY <1>6 DEF vars, TypeOK
<1> QED
  BY <1>1, <1>2, <1>3, <1>4, <1>5, <1>6 DEF Next

(* The caches, the databases and the blocks keep their types: an asset is never
   both new and removed in passets.                                         *)
THEOREM TypeCorrect == Spec => []TypeOK
<1>1. Init => TypeOK
  BY TypeInit
<1>2. TypeOK /\ [Next]_vars => TypeOK'
  BY TypeNext, Zenon
<1> QED
  BY <1>1, <1>2, PTL DEF Spec

-----------------------------------------------------------------------------
(* The inductive invariant, asset by asset.  Of every asset: the read caches
   agree with the databases; an entry of mapReissuedAssetData comes from a
   reissue in one of the reissue sets; an asset removed in passets has either
   the removal of its verifier string, or a reissue that a dump would write;
   the active chain issues it at most once, and then it exists.             *)
LayersAgree(n) ==
    /\ metaLru[n] \in {None, metaDB[n]} /\ verLru[n] \in {None, verDB[n]}
    /\ passets.reissued[n] # None =>
         \E tx \in Tx : tx.name = n /\ (tx \in passets.reAdd \/ tx \in passets.reRem)
    /\ n \in passets.rem =>
         \/ passets.verRem[n] # None /\ ~passets.verRem[n].undoingReissue
         \/ /\ passets.reissued[n] # None
            /\ \E tx \in Tx : tx.name = n /\ tx \in passets.reAdd
            /\ passets.verAdd[n] # None \/ passets.verRem[n] # None
    /\ OneIssue(chain, n)
    /\ IssuedIn(chain, n) => Exists(passets, n)

(* Of an asset that is not stale: the look-ups agree with the active chain, and
   every transaction of it fits the blocks below.                           *)
FreshMatches(n) ==
    /\ Exists(passets, n) => IssuedIn(chain, n)
    /\ ChainMeta(n) # None => Exists(passets, n)
    /\ ChainMeta(n) = None => ChainVerifier(n) = None
    /\ MetaOf(passets, n) = ChainMeta(n)
    /\ VerifierOf(passets, n) = ChainVerifier(n)
    /\ n \in passets.rem => passets.reissued[n] = None
    /\ FitsIn(chain, n)

AssetInv == \A n \in Asset : LayersAgree(n) /\ (n \notin stale => FreshMatches(n))

(* The look-ups of an asset when what the layers hold of it stays.          *)
LEMMA SameView ==
  ASSUME NEW n, SamePart(passets', passets, n),
         Or(metaLru[n], metaDB[n])' = Or(metaLru[n], metaDB[n]),
         Or(verLru[n], verDB[n])' = Or(verLru[n], verDB[n])
  PROVE  /\ Exists(passets, n)' <=> Exists(passets, n)
         /\ MetaOf(passets, n)' = MetaOf(passets, n)
         /\ VerifierOf(passets, n)' = VerifierOf(passets, n)
<1>1. Exists(passets, n)' <=> Exists(passets, n)
  BY Zenon DEF Exists, SamePart, Or
<1>2. MetaOf(passets, n)' = MetaOf(passets, n)
  BY Zenon DEF MetaOf, SamePart, Or
<1>3. VerifierOf(passets, n)' = VerifierOf(passets, n)
  BY Zenon DEF VerifierOf, SamePart, Or
<1> QED
  BY <1>1, <1>2, <1>3, Zenon

(* Flush of a cache that holds nothing of an asset.                         *)
LEMMA FlushedClean ==
  ASSUME TypeOK, NEW c \in Cache, NEW n \in Asset, CleanPart(c, n)
  PROVE  SamePart(Flushed(c, passets), passets, n)
<1> DEFINE q == Flushed(c, passets)
<1>1. FlushPart(q, c, passets, n)
  BY FlushedAt, Zenon
<1> HIDE DEF q
<1>2. SamePart(q, passets, n)
  BY <1>1, Zenon DEF CleanPart, SamePart, Or, FlushPart
<1> QED
  BY <1>2, Zenon DEF q

(* The undo entry that DisconnectBlock finds.                               *)
LEMMA ItemFound ==
  ASSUME NEW undo \in Seq(UndoItem), NEW n \in Asset
  PROVE  /\ ItemsOf(undo, n) = {} =>
              ItemOf(undo, n) = [name |-> n, units |-> Keep, ipfs |-> Keep, verifier |-> Keep]
         /\ \A item : ItemsOf(undo, n) = {item} => ItemOf(undo, n) = item
<1> DEFINE of == {i \in DOMAIN undo : undo[i].name = n}
<1>1. ItemsOf(undo, n) = {undo[i] : i \in of}
  BY Zenon DEF ItemsOf
<1>2. of # {} => \E i \in of : ItemOf(undo, n) = undo[i]
  BY ItemTyped
<1>3. of = {} => ItemOf(undo, n) = [name |-> n, units |-> Keep, ipfs |-> Keep, verifier |-> Keep]
  BY DEF ItemOf
<1> HIDE DEF of
<1>4. ItemsOf(undo, n) = {} => of = {}
  BY <1>1, Zenon
<1>5. ASSUME NEW item, ItemsOf(undo, n) = {item} PROVE ItemOf(undo, n) = item
  <2>1. of # {}
    BY <1>1, <1>5, Zenon
  <2> QED
    BY <1>1, <1>2, <1>5, <2>1, Zenon
<1> QED
  BY <1>3, <1>4, <1>5, Zenon

(* Undoing a reissue gives back the metadata that it changed.               *)
LEMMA UndoneRestores ==
  ASSUME NEW m \in Meta, m.reissuable, NEW tx \in Tx, NEW v
  PROVE  UndoneMeta(ReissuedMeta(m, tx), tx, ItemFor(tx, m, v)) = m
<1> DEFINE r == ReissuedMeta(m, tx)
           item == ItemFor(tx, m, v)
<1>1. m.amount \in Int /\ m.units \in Nat /\ m.ipfs \in STRING
  BY DEF Meta
<1>2. tx.amount \in Nat
  BY TxFacts
<1>3. r.amount = m.amount + tx.amount /\ r.units = Changed(tx.units, m.units)
      /\ r.ipfs = Changed(tx.ipfs, m.ipfs)
  BY DEF ReissuedMeta
<1>4. /\ item.units = IF tx.units = Keep THEN Keep ELSE m.units
      /\ item.ipfs = IF tx.ipfs = Keep THEN Keep ELSE m.ipfs
  BY DEF ItemFor
<1> HIDE DEF r, item
<1>5. r.amount - tx.amount = m.amount
  BY <1>1, <1>2, <1>3
<1>6. Changed(item.units, r.units) = m.units /\ Changed(item.ipfs, r.ipfs) = m.ipfs
  BY <1>1, <1>3, <1>4, NoneFacts DEF Changed
<1>7. m = [amount |-> m.amount, reissuable |-> TRUE, units |-> m.units, ipfs |-> m.ipfs]
  BY Zenon DEF Meta
<1>8. UndoneMeta(r, tx, item) = [amount |-> r.amount - tx.amount, reissuable |-> TRUE,
                                 units |-> Changed(item.units, r.units),
                                 ipfs |-> Changed(item.ipfs, r.ipfs)]
  BY Zenon DEF UndoneMeta
<1>9. UndoneMeta(r, tx, item) = m
  BY <1>5, <1>6, <1>7, <1>8
<1> QED
  BY <1>9 DEF r, item

-----------------------------------------------------------------------------
(* No block of the active chain has two transactions of one asset.          *)
OnePerBlock == \A h \in DOMAIN chain : OnePerAsset(chain[h].txs)

(* What ConnectTip does to the layers and to the chain.                     *)
LEMMA ConnectTipFacts ==
  ASSUME TypeOK, OnePerBlock', NEW txs \in Blocks, ConnectTip(txs), NEW n \in Asset
  PROVE  LET s == Connected(txs)
             b == [txs |-> txs, undo |-> s.undo]
             before == SaidUpTo(chain, n)[Len(chain)]
             after == SaidUpTo(chain, n)[Len(chain)]'
             here == \E i \in 1..Len(txs) : IsIssue(txs[i], n)
         IN /\ s.cache \in Cache /\ s.undo \in Seq(UndoItem)
            /\ passets' = Flushed(s.cache, passets)
            /\ metaLru' = metaLru /\ verLru' = verLru /\ metaDB' = metaDB /\ verDB' = verDB
            /\ stale' = stale
            /\ IssuedIn(chain, n)' <=> IssuedIn(chain, n) \/ here
            /\ OneIssue(chain, n)' <=> OneIssue(chain, n) /\ ~(IssuedIn(chain, n) /\ here)
            /\ FitsIn(chain, n)' <=> FitsIn(chain, n) /\ Fits(b, n, before)
            /\ before \in Said
            /\ \/ /\ \A i \in 1..Len(txs) : txs[i].name # n
                  /\ CleanPart(s.cache, n) /\ after = before
               \/ \E i \in 1..Len(txs) :
                    /\ txs[i] \in Tx /\ txs[i].name = n
                    /\ \A j \in 1..Len(txs) : txs[j].name = n => j = i
                    /\ Valid(passets, txs[i]) /\ ConnectPart(s.cache, txs[i])
                    /\ ItemsOf(s.undo, n) = ItemsFor(txs[i])
                    /\ after = SaidAfter(txs[i], n, before)
<1> DEFINE s == Connected(txs)
           b == [txs |-> txs, undo |-> s.undo]
           before == SaidUpTo(chain, n)[Len(chain)]
           after == SaidUpTo(chain, n)[Len(chain)]'
           here == \E i \in 1..Len(txs) : IsIssue(txs[i], n)
<1>1. /\ s.valid /\ passets' = Flushed(s.cache, passets) /\ chain' = Append(chain, b)
      /\ metaLru' = metaLru /\ verLru' = verLru /\ metaDB' = metaDB /\ verDB' = verDB
      /\ stale' = stale
  BY DEF ConnectTip
<1>2. txs \in Seq(Tx) /\ s.cache \in Cache /\ s.undo \in Seq(UndoItem)
  BY BlocksFacts, ConnectTyped
<1>3. chain \in Seq(ChainBlock) /\ Len(chain) \in Nat
  BY TypeFacts, Zenon
<1> HIDE DEF s
<1>4. b \in ChainBlock /\ b.txs = txs /\ b.undo = s.undo
  BY <1>2, Zenon DEF ChainBlock
<1>5. OneEach(txs)
  <2>1. chain'[Len(chain) + 1] = b /\ Len(chain) + 1 \in DOMAIN chain'
    <3> HIDE DEF b
    <3> QED
      BY <1>1, <1>3, <1>4
  <2>2. DOMAIN txs = 1..Len(txs)
    BY <1>2
  <2> QED
    BY <1>4, <2>1, <2>2, Zenon DEF OnePerBlock, OnePerAsset, OneEach
<1> HIDE DEF b
<1>6. /\ IssuedIn(chain', n) <=> IssuedIn(chain, n) \/ here
      /\ OneIssue(chain', n) <=> OneIssue(chain, n) /\ ~(IssuedIn(chain, n) /\ here)
      /\ FitsIn(chain', n) <=> FitsIn(chain, n) /\ Fits(b, n, before)
      /\ before \in Said
      /\ (\A i \in 1..Len(txs) : txs[i].name # n) => after = before
      /\ \A i \in 1..Len(txs) : txs[i].name = n => after = SaidAfter(txs[i], n, before)
  <2>1. OneEach(b.txs)
    BY <1>4, <1>5
  <2>2. LET more == Append(chain, b)
             bef == SaidUpTo(chain, n)[Len(chain)]
             aft == SaidUpTo(more, n)[Len(more)]
             h == \E i \in 1..Len(b.txs) : IsIssue(b.txs[i], n)
         IN /\ IssuedIn(more, n) <=> IssuedIn(chain, n) \/ h
            /\ OneIssue(more, n) <=> OneIssue(chain, n) /\ ~(IssuedIn(chain, n) /\ h)
            /\ FitsIn(more, n) <=> FitsIn(chain, n) /\ Fits(b, n, bef)
            /\ bef \in Said /\ aft \in Said
            /\ (\A i \in 1..Len(b.txs) : b.txs[i].name # n) => aft = bef
            /\ \A i \in 1..Len(b.txs) : b.txs[i].name = n => aft = SaidAfter(b.txs[i], n, bef)
    BY <1>3, <1>4, <2>1, ChainAppend, Zenon
  <2> QED
    BY <1>1, <1>4, <2>2, Zenon
<1>7. /\ \A m \in Asset : (\A j \in 1..Len(txs) : txs[j].name # m) => CleanPart(s.cache, m)
      /\ \A j \in 1..Len(txs) :
           /\ Valid(passets, txs[j]) /\ ConnectPart(s.cache, txs[j])
           /\ ItemsOf(s.undo, txs[j].name) = ItemsFor(txs[j])
  BY <1>1, <1>2, <1>5, ConnectedFacts, Zenon DEF OneEach, s
<1>8. \/ /\ \A i \in 1..Len(txs) : txs[i].name # n
         /\ CleanPart(s.cache, n) /\ after = before
      \/ \E i \in 1..Len(txs) :
           /\ txs[i] \in Tx /\ txs[i].name = n
           /\ \A j \in 1..Len(txs) : txs[j].name = n => j = i
           /\ Valid(passets, txs[i]) /\ ConnectPart(s.cache, txs[i])
           /\ ItemsOf(s.undo, n) = ItemsFor(txs[i])
           /\ after = SaidAfter(txs[i], n, before)
  <2>1. CASE \A i \in 1..Len(txs) : txs[i].name # n
    BY <1>6, <1>7, <2>1, Zenon
  <2>2. ASSUME NEW i \in 1..Len(txs), txs[i].name = n
        PROVE  /\ txs[i] \in Tx /\ txs[i].name = n
               /\ \A j \in 1..Len(txs) : txs[j].name = n => j = i
               /\ Valid(passets, txs[i]) /\ ConnectPart(s.cache, txs[i])
               /\ ItemsOf(s.undo, n) = ItemsFor(txs[i])
               /\ after = SaidAfter(txs[i], n, before)
    <3>1. txs[i] \in Tx
      BY <1>2
    <3>2. \A j \in 1..Len(txs) : txs[j].name = n => j = i
      BY <1>5, <2>2 DEF OneEach
    <3> HIDE DEF after, before
    <3> QED
      BY <1>6, <1>7, <2>2, <3>1, <3>2
  <2> HIDE DEF after, before
  <2> QED
    BY <2>1, <2>2, Zenon
<1> HIDE DEF here
<1> QED
  BY <1>1, <1>2, <1>6, <1>8, Zenon DEF s, b, here

-----------------------------------------------------------------------------
(* An asset of which the layers say the same before and after a step, on a
   chain that says the same of it.                                          *)
LEMMA SameAsset ==
  ASSUME NEW n \in Asset, SamePart(passets', passets, n),
         Or(metaLru[n], metaDB[n])' = Or(metaLru[n], metaDB[n]),
         Or(verLru[n], verDB[n])' = Or(verLru[n], verDB[n]),
         metaLru'[n] \in {None, metaDB'[n]}, verLru'[n] \in {None, verDB'[n]},
         IssuedIn(chain, n)' <=> IssuedIn(chain, n),
         OneIssue(chain, n)' <=> OneIssue(chain, n),
         FitsIn(chain, n)' <=> FitsIn(chain, n),
         ChainMeta(n)' = ChainMeta(n), ChainVerifier(n)' = ChainVerifier(n),
         LayersAgree(n)
  PROVE  LayersAgree(n)' /\ (FreshMatches(n) => FreshMatches(n)')
<1>1. /\ Exists(passets, n)' <=> Exists(passets, n)
      /\ MetaOf(passets, n)' = MetaOf(passets, n)
      /\ VerifierOf(passets, n)' = VerifierOf(passets, n)
  BY SameView, Zenon
<1>2. LayersAgree(n)'
  BY <1>1, Zenon DEF LayersAgree, SamePart
<1>3. FreshMatches(n) => FreshMatches(n)'
  BY <1>1, Zenon DEF FreshMatches, SamePart
<1> QED
  BY <1>2, <1>3, Zenon

(* ConnectTip, of an asset that the block issues.                           *)
LEMMA ConnectIssue ==
  ASSUME TypeOK, NEW n \in Asset, NEW tx \in Tx, tx.name = n, tx.kind = "issue",
         NEW c \in Cache, ConnectPart(c, tx), Valid(passets, tx),
         passets' = Flushed(c, passets),
         metaLru' = metaLru, verLru' = verLru, metaDB' = metaDB, verDB' = verDB,
         NEW before \in Said,
         before.meta = ChainMeta(n), before.verifier = ChainVerifier(n),
         ChainMeta(n)' = SaidAfter(tx, n, before).meta,
         ChainVerifier(n)' = SaidAfter(tx, n, before).verifier,
         IssuedIn(chain, n)',
         OneIssue(chain, n)' <=> OneIssue(chain, n) /\ ~IssuedIn(chain, n),
         before = Unsaid => (FitsIn(chain, n)' <=> FitsIn(chain, n)),
         LayersAgree(n)
  PROVE  LayersAgree(n)' /\ (FreshMatches(n) => FreshMatches(n)')
<1>1. /\ passets.add[n] = None \/ n \in passets.rem
      /\ ~Exists(passets, n)
  BY Zenon DEF Valid, Exists
<1>2. passets.add[n] = None
  BY <1>1, TypeFacts, Zenon
<1>3. /\ c.add[n] = NewMeta(tx) /\ n \notin c.rem /\ c.reissued[n] = None
      /\ \A y \in Tx : y.name = n => y \notin c.reAdd /\ y \notin c.reRem
      /\ c.verAdd[n] = tx.verifier /\ c.verRem[n] = None
  BY Zenon DEF ConnectPart
<1>4. NewMeta(tx) \in Meta /\ NewMeta(tx) # None
      /\ tx.verifier # None /\ tx.verifier # Keep /\ tx.verifier \in STRING
  BY MetaFacts, TxFacts, NoneFacts, Zenon
<1>5. /\ passets'.add[n] = NewMeta(tx) /\ n \notin passets'.rem
      /\ passets'.reissued[n] = passets.reissued[n]
      /\ passets'.verAdd[n] = tx.verifier /\ passets'.verRem[n] = None
      /\ \A y \in Tx : y.name = n => /\ y \in passets'.reAdd <=> y \in passets.reAdd
                                     /\ y \in passets'.reRem <=> y \in passets.reRem
  <2>1. FlushPart(passets', c, passets, n)
    BY FlushedAt, Zenon
  <2> QED
    BY <1>2, <1>3, <1>4, <2>1, Zenon DEF Or, FlushPart
<1>6. Exists(passets, n)'
  BY <1>4, <1>5, Zenon DEF Exists
<1>7. LayersAgree(n)'
  BY <1>1, <1>5, <1>6, Zenon DEF LayersAgree
<1>8. ASSUME FreshMatches(n) PROVE FreshMatches(n)'
  <2>1. ChainMeta(n) = None /\ ChainVerifier(n) = None /\ MetaOf(passets, n) = None
    BY <1>1, <1>8, Zenon DEF FreshMatches
  <2>2. before = Unsaid
    BY <2>1 DEF Said, Unsaid
  <2>3. passets.reissued[n] = None
    BY <2>1, NoneFacts, Zenon DEF MetaOf, Or
  <2>4. ChainMeta(n)' = NewMeta(tx) /\ ChainVerifier(n)' = tx.verifier
    BY <1>4 DEF SaidAfter, Changed
  <2>5. MetaOf(passets, n)' = NewMeta(tx)
    BY <1>4, <1>5, <2>3, Zenon DEF MetaOf, Or
  <2>6. VerifierOf(passets, n)' = tx.verifier
    BY <1>4, <1>5, Zenon DEF VerifierOf, Or
  <2> QED
    BY <1>4, <1>5, <1>6, <1>8, <2>2, <2>4, <2>5, <2>6, Zenon DEF FreshMatches
<1> QED
  BY <1>7, <1>8

(* ConnectTip, of an asset that the block reissues.                         *)
LEMMA ConnectReissue ==
  ASSUME TypeOK, NEW n \in Asset, NEW tx \in Tx, tx.name = n, tx.kind # "issue",
         NEW c \in Cache, ConnectPart(c, tx), Valid(passets, tx),
         passets' = Flushed(c, passets),
         metaLru' = metaLru, verLru' = verLru, metaDB' = metaDB, verDB' = verDB,
         NEW before \in Said,
         before.meta = ChainMeta(n), before.verifier = ChainVerifier(n),
         ChainMeta(n)' = SaidAfter(tx, n, before).meta,
         ChainVerifier(n)' = SaidAfter(tx, n, before).verifier,
         IssuedIn(chain, n)' <=> IssuedIn(chain, n),
         OneIssue(chain, n)' <=> OneIssue(chain, n),
         /\ before.meta # None /\ before.meta.reissuable
         /\ before.meta = MetaOf(passets, n) /\ before.verifier = VerifierOf(passets, n)
         => (FitsIn(chain, n)' <=> FitsIn(chain, n)),
         LayersAgree(n)
  PROVE  LayersAgree(n)' /\ (FreshMatches(n) => FreshMatches(n)')
<1> DEFINE m == MetaOf(passets, n)
<1>1. m \in Meta /\ m # None /\ m.reissuable
  <2>1. m # None /\ m.reissuable
    BY Zenon DEF Valid
  <2> QED
    BY <2>1, TypeFacts, ReadsTyped, Zenon
<1>2. /\ c.add[n] = None /\ n \notin c.rem
      /\ c.reissued[n] = ReissuedMeta(m, tx)
      /\ tx \in c.reAdd
      /\ \A y \in Tx : y.name = n => y \notin c.reRem
      /\ c.verAdd[n] = Changed(tx.verifier, None) /\ c.verRem[n] = None
  BY Zenon DEF ConnectPart
<1>3. ReissuedMeta(m, tx) \in Meta /\ ReissuedMeta(m, tx) # None
  BY <1>1, MetaFacts, NoneFacts, Zenon
<1> HIDE DEF m
<1>4. /\ passets'.add[n] = passets.add[n]
      /\ n \in passets'.rem <=> n \in passets.rem
      /\ passets'.reissued[n] = ReissuedMeta(m, tx)
      /\ passets'.verAdd[n] = IF tx.verifier = Keep THEN passets.verAdd[n] ELSE tx.verifier
      /\ passets'.verRem[n] = IF tx.verifier = Keep THEN passets.verRem[n] ELSE None
      /\ tx \in passets'.reAdd
  <2>1. FlushPart(passets', c, passets, n)
    BY FlushedAt, Zenon
  <2>2. tx.verifier # Keep => tx.verifier # None
    BY TxFacts, NoneFacts, Zenon
  <2> QED
    BY <1>2, <1>3, <2>1, <2>2, Zenon DEF Or, Changed, FlushPart
<1>5. Exists(passets, n)' <=> Exists(passets, n)
  BY <1>4, Zenon DEF Exists
<1>6. tx.verifier # Keep => tx.verifier # None
  BY TxFacts, NoneFacts, Zenon
<1>7. LayersAgree(n)'
  BY <1>3, <1>4, <1>5, <1>6, Zenon DEF LayersAgree
<1>8. ASSUME FreshMatches(n) PROVE FreshMatches(n)'
  <2>1. /\ before.meta = m /\ before.verifier = VerifierOf(passets, n)
        /\ Exists(passets, n) /\ n \notin passets.rem
    BY <1>1, <1>8, Zenon DEF FreshMatches, Exists, m
  <2>2. FitsIn(chain, n)'
    BY <1>1, <1>8, <2>1, Zenon DEF FreshMatches, m
  <2>3. MetaOf(passets, n)' = ReissuedMeta(m, tx)
    BY <1>3, <1>4, Zenon DEF MetaOf, Or
  <2>4. ChainMeta(n)' = ReissuedMeta(m, tx)
        /\ ChainVerifier(n)' = Changed(tx.verifier, VerifierOf(passets, n))
    BY <1>1, <2>1, Zenon DEF SaidAfter
  <2>5. VerifierOf(passets, n)' = Changed(tx.verifier, VerifierOf(passets, n))
    BY <1>4, <1>6, Zenon DEF VerifierOf, Or, Changed
  <2> QED
    BY <1>3, <1>4, <1>5, <1>8, <2>1, <2>2, <2>3, <2>4, <2>5, Zenon DEF FreshMatches
<1> QED
  BY <1>7, <1>8

-----------------------------------------------------------------------------
(* A reissue that ConnectBlock accepts fits the blocks below.               *)
LEMMA ReissueFits ==
  ASSUME TypeOK, NEW n \in Asset, NEW txs \in Seq(Tx), NEW i \in 1..Len(txs),
         txs[i].name = n, txs[i].kind # "issue",
         \A j \in 1..Len(txs) : txs[j].name = n => j = i,
         NEW undo \in Seq(UndoItem), ItemsOf(undo, n) = ItemsFor(txs[i]),
         NEW before,
         before.meta # None, before.meta.reissuable,
         before.meta = MetaOf(passets, n), before.verifier = VerifierOf(passets, n)
  PROVE  Fits([txs |-> txs, undo |-> undo], n, before)
<1> DEFINE tx == txs[i]
           item == ItemFor(tx, before.meta, before.verifier)
<1>1. ItemsFor(tx) = IF NoUndo(tx) THEN {} ELSE {item}
  BY Zenon DEF ItemsFor
<1>2. NoUndo(tx) => item = [name |-> n, units |-> Keep, ipfs |-> Keep, verifier |-> Keep]
  BY Zenon DEF NoUndo, ItemFor
<1>3. ItemOf(undo, n) = item
  <2>1. CASE NoUndo(tx)
    BY <1>1, <1>2, <2>1, ItemFound, Zenon
  <2>2. CASE ~NoUndo(tx)
    BY <1>1, <2>2, ItemFound, Zenon
  <2> QED
    BY <2>1, <2>2
<1> HIDE DEF item
<1>4. \A j \in 1..Len(txs) : txs[j].name = n =>
        IF txs[j].kind = "issue" THEN before = Unsaid
        ELSE /\ before.meta # None /\ before.meta.reissuable
             /\ ItemOf(undo, n) = ItemFor(txs[j], before.meta, before.verifier)
  BY <1>3 DEF item
<1> QED
  BY <1>4, Zenon DEF Fits

(* ConnectTip.                                                              *)
LEMMA ConnectStep ==
  ASSUME TypeOK, OnePerBlock', NEW txs \in Blocks, ConnectTip(txs), NEW n \in Asset,
         LayersAgree(n), n \notin stale => FreshMatches(n)
  PROVE  LayersAgree(n)' /\ (n \notin stale' => FreshMatches(n)')
<1> DEFINE s == Connected(txs)
           b == [txs |-> txs, undo |-> s.undo]
           before == SaidUpTo(chain, n)[Len(chain)]
           after == SaidUpTo(chain, n)[Len(chain)]'
           here == \E i \in 1..Len(txs) : IsIssue(txs[i], n)
<1>1. /\ s.cache \in Cache /\ s.undo \in Seq(UndoItem)
      /\ passets' = Flushed(s.cache, passets)
      /\ metaLru' = metaLru /\ verLru' = verLru /\ metaDB' = metaDB /\ verDB' = verDB
      /\ stale' = stale
      /\ IssuedIn(chain, n)' <=> IssuedIn(chain, n) \/ here
      /\ OneIssue(chain, n)' <=> OneIssue(chain, n) /\ ~(IssuedIn(chain, n) /\ here)
      /\ FitsIn(chain, n)' <=> FitsIn(chain, n) /\ Fits(b, n, before)
      /\ before \in Said
  BY ConnectTipFacts, Zenon
<1>2. \/ /\ \A i \in 1..Len(txs) : txs[i].name # n
         /\ CleanPart(s.cache, n) /\ after = before
      \/ \E i \in 1..Len(txs) :
           /\ txs[i] \in Tx /\ txs[i].name = n
           /\ \A j \in 1..Len(txs) : txs[j].name = n => j = i
           /\ Valid(passets, txs[i]) /\ ConnectPart(s.cache, txs[i])
           /\ ItemsOf(s.undo, n) = ItemsFor(txs[i])
           /\ after = SaidAfter(txs[i], n, before)
  BY ConnectTipFacts, Zenon
<1>3. /\ ChainMeta(n) = before.meta /\ ChainVerifier(n) = before.verifier
      /\ ChainMeta(n)' = after.meta /\ ChainVerifier(n)' = after.verifier
  BY Zenon DEF ChainMeta, ChainVerifier
<1>4. b.txs = txs /\ b.undo = s.undo /\ txs \in Seq(Tx)
  BY BlocksFacts
<1> HIDE DEF s, b, before, after
<1>5. CASE \A i \in 1..Len(txs) : txs[i].name # n
  <2>1. CleanPart(s.cache, n) /\ after = before
    BY <1>2, <1>5
  <2>2. SamePart(passets', passets, n)
    BY <1>1, <2>1, FlushedClean, Zenon
  <2>3. ~here /\ Fits(b, n, before)
    BY <1>4, <1>5, Zenon DEF IsIssue, Fits
  <2> HIDE DEF here
  <2>4. /\ ChainMeta(n)' = ChainMeta(n) /\ ChainVerifier(n)' = ChainVerifier(n)
        /\ IssuedIn(chain, n)' <=> IssuedIn(chain, n)
        /\ OneIssue(chain, n)' <=> OneIssue(chain, n)
        /\ FitsIn(chain, n)' <=> FitsIn(chain, n)
    BY <1>1, <1>3, <2>1, <2>3
  <2>5. metaLru'[n] \in {None, metaDB'[n]} /\ verLru'[n] \in {None, verDB'[n]}
    BY <1>1, Zenon DEF LayersAgree
  <2>6. /\ Or(metaLru[n], metaDB[n])' = Or(metaLru[n], metaDB[n])
        /\ Or(verLru[n], verDB[n])' = Or(verLru[n], verDB[n])
    BY <1>1, Zenon DEF Or
  <2>7. LayersAgree(n)' /\ (FreshMatches(n) => FreshMatches(n)')
    BY <2>2, <2>4, <2>5, <2>6, SameAsset, Zenon
  <2> QED
    BY <1>1, <2>7
<1>6. ASSUME NEW i \in 1..Len(txs), txs[i] \in Tx, txs[i].name = n,
             \A j \in 1..Len(txs) : txs[j].name = n => j = i,
             Valid(passets, txs[i]), ConnectPart(s.cache, txs[i]),
             ItemsOf(s.undo, n) = ItemsFor(txs[i]),
             after = SaidAfter(txs[i], n, before)
      PROVE  LayersAgree(n)' /\ (FreshMatches(n) => FreshMatches(n)')
  <2>1. CASE txs[i].kind = "issue"
    <3>1. here
      BY <1>6, <2>1, Zenon DEF IsIssue
    <3>2. before = Unsaid => Fits(b, n, before)
      BY <1>4, <1>6, <2>1, Zenon DEF Fits
    <3> HIDE DEF here
    <3>3. /\ IssuedIn(chain, n)'
          /\ OneIssue(chain, n)' <=> OneIssue(chain, n) /\ ~IssuedIn(chain, n)
          /\ before = Unsaid => (FitsIn(chain, n)' <=> FitsIn(chain, n))
      BY <1>1, <3>1, <3>2
    <3>4. /\ ChainMeta(n)' = SaidAfter(txs[i], n, before).meta
          /\ ChainVerifier(n)' = SaidAfter(txs[i], n, before).verifier
      BY <1>3, <1>6
    <3> QED
      BY <1>1, <1>3, <1>6, <2>1, <3>3, <3>4, ConnectIssue, Zenon
  <2>2. CASE txs[i].kind # "issue"
    <3>1. ~here
      BY <1>6, <2>2 DEF IsIssue
    <3> DEFINE matched == /\ before.meta # None /\ before.meta.reissuable
                          /\ before.meta = MetaOf(passets, n)
                          /\ before.verifier = VerifierOf(passets, n)
    <3>2. matched => Fits(b, n, before)
      BY <1>1, <1>4, <1>6, <2>2, ReissueFits, Zenon DEF b
    <3> HIDE DEF here, matched
    <3>3. /\ IssuedIn(chain, n)' <=> IssuedIn(chain, n)
          /\ OneIssue(chain, n)' <=> OneIssue(chain, n)
          /\ matched => (FitsIn(chain, n)' <=> FitsIn(chain, n))
      BY <1>1, <3>1, <3>2, Zenon
    <3>4. /\ ChainMeta(n)' = SaidAfter(txs[i], n, before).meta
          /\ ChainVerifier(n)' = SaidAfter(txs[i], n, before).verifier
      BY <1>3, <1>6
    <3> QED
      BY <1>1, <1>3, <1>6, <2>2, <3>3, <3>4, ConnectReissue, Zenon DEF matched
  <2> QED
    BY <2>1, <2>2, Zenon
<1>7. LayersAgree(n)' /\ (n \notin stale' => FreshMatches(n)')
  BY <1>1, <1>2, <1>5, <1>6
<1> QED
  BY <1>7

-----------------------------------------------------------------------------
(* What DisconnectTip does to the layers and to the chain.                  *)
LEMMA DisconnectTipFacts ==
  ASSUME TypeOK, OnePerBlock, DisconnectTip, NEW n \in Asset
  PROVE  LET b == chain[Len(chain)]
             c == Undone(b)
             before == SaidUpTo(chain, n)[Len(chain)]'
             after == SaidUpTo(chain, n)[Len(chain)]
             here == \E i \in 1..Len(b.txs) : IsIssue(b.txs[i], n)
         IN /\ c \in Cache /\ b.txs \in Seq(Tx) /\ b.undo \in Seq(UndoItem)
            /\ passets' = Flushed(c, passets)
            /\ metaLru' = metaLru /\ verLru' = verLru /\ metaDB' = metaDB /\ verDB' = verDB
            /\ stale' = stale \cup {m \in passets'.rem : passets'.reissued[m] # None}
            /\ IssuedIn(chain, n) <=> IssuedIn(chain, n)' \/ here
            /\ OneIssue(chain, n) <=> OneIssue(chain, n)' /\ ~(IssuedIn(chain, n)' /\ here)
            /\ FitsIn(chain, n) <=> FitsIn(chain, n)' /\ Fits(b, n, before)
            /\ before \in Said
            /\ \/ /\ \A i \in 1..Len(b.txs) : b.txs[i].name # n
                  /\ CleanPart(c, n) /\ after = before
               \/ \E i \in 1..Len(b.txs) :
                    /\ b.txs[i] \in Tx /\ b.txs[i].name = n
                    /\ \A j \in 1..Len(b.txs) : b.txs[j].name = n => j = i
                    /\ UndoPart(c, b.txs[i], b.undo)
                    /\ after = SaidAfter(b.txs[i], n, before)
<1> DEFINE b == chain[Len(chain)]
           c == Undone(b)
           before == SaidUpTo(chain, n)[Len(chain)]'
           after == SaidUpTo(chain, n)[Len(chain)]
           here == \E i \in 1..Len(b.txs) : IsIssue(b.txs[i], n)
<1>1. /\ chain # <<>> /\ passets' = Flushed(c, passets)
      /\ chain' = SubSeq(chain, 1, Len(chain) - 1)
      /\ metaLru' = metaLru /\ verLru' = verLru /\ metaDB' = metaDB /\ verDB' = verDB
      /\ stale' = stale \cup {m \in passets'.rem : passets'.reissued[m] # None}
  BY DEF DisconnectTip
<1>2. chain \in Seq(ChainBlock) /\ Len(chain) \in Nat
  BY TypeFacts
<1>3. chain' \in Seq(ChainBlock) /\ b \in ChainBlock /\ chain = Append(chain', b)
  BY <1>1, <1>2, ChainFront, Zenon
<1>4. c \in Cache /\ b.txs \in Seq(Tx) /\ b.undo \in Seq(UndoItem)
  BY <1>3, UndoneTyped, Zenon
<1>5. OneEach(b.txs)
  <2>1. Len(chain) \in DOMAIN chain
    BY <1>1, <1>2
  <2>2. DOMAIN b.txs = 1..Len(b.txs)
    BY <1>4
  <2> QED
    BY <2>1, <2>2, Zenon DEF OnePerBlock, OnePerAsset, OneEach
<1> HIDE DEF b
<1>6. /\ IssuedIn(chain, n) <=> IssuedIn(chain', n) \/ here
      /\ OneIssue(chain, n) <=> OneIssue(chain', n) /\ ~(IssuedIn(chain', n) /\ here)
      /\ FitsIn(chain, n) <=> FitsIn(chain', n) /\ Fits(b, n, before)
      /\ before \in Said
      /\ (\A i \in 1..Len(b.txs) : b.txs[i].name # n) => after = before
      /\ \A i \in 1..Len(b.txs) : b.txs[i].name = n => after = SaidAfter(b.txs[i], n, before)
  <2>1. LET more == Append(chain', b)
             bef == SaidUpTo(chain', n)[Len(chain')]
             aft == SaidUpTo(more, n)[Len(more)]
             h == \E i \in 1..Len(b.txs) : IsIssue(b.txs[i], n)
         IN /\ IssuedIn(more, n) <=> IssuedIn(chain', n) \/ h
            /\ OneIssue(more, n) <=> OneIssue(chain', n) /\ ~(IssuedIn(chain', n) /\ h)
            /\ FitsIn(more, n) <=> FitsIn(chain', n) /\ Fits(b, n, bef)
            /\ bef \in Said /\ aft \in Said
            /\ (\A i \in 1..Len(b.txs) : b.txs[i].name # n) => aft = bef
            /\ \A i \in 1..Len(b.txs) : b.txs[i].name = n => aft = SaidAfter(b.txs[i], n, bef)
    BY <1>3, <1>5, ChainAppend, Zenon
  <2> QED
    BY <1>3, <2>1, Zenon
<1>7. /\ \A m \in Asset : (\A j \in 1..Len(b.txs) : b.txs[j].name # m) => CleanPart(c, m)
      /\ \A j \in 1..Len(b.txs) : UndoPart(c, b.txs[j], b.undo)
  BY <1>4, <1>5, UndoneFacts, Zenon DEF OneEach
<1> HIDE DEF c
<1>8. \/ /\ \A i \in 1..Len(b.txs) : b.txs[i].name # n
         /\ CleanPart(c, n) /\ after = before
      \/ \E i \in 1..Len(b.txs) :
           /\ b.txs[i] \in Tx /\ b.txs[i].name = n
           /\ \A j \in 1..Len(b.txs) : b.txs[j].name = n => j = i
           /\ UndoPart(c, b.txs[i], b.undo)
           /\ after = SaidAfter(b.txs[i], n, before)
  <2>1. CASE \A i \in 1..Len(b.txs) : b.txs[i].name # n
    BY <1>6, <1>7, <2>1, Zenon
  <2>2. ASSUME NEW i \in 1..Len(b.txs), b.txs[i].name = n
        PROVE  /\ b.txs[i] \in Tx /\ b.txs[i].name = n
               /\ \A j \in 1..Len(b.txs) : b.txs[j].name = n => j = i
               /\ UndoPart(c, b.txs[i], b.undo)
               /\ after = SaidAfter(b.txs[i], n, before)
    <3>1. b.txs[i] \in Tx
      BY <1>4
    <3>2. \A j \in 1..Len(b.txs) : b.txs[j].name = n => j = i
      BY <1>5, <2>2 DEF OneEach
    <3> HIDE DEF after, before
    <3> QED
      BY <1>6, <1>7, <2>2, <3>1, <3>2, Zenon
  <2> HIDE DEF after, before
  <2> QED
    BY <2>1, <2>2, Zenon
<1> HIDE DEF here
<1> QED
  BY <1>1, <1>4, <1>6, <1>8, Zenon DEF b, c, here

(* DisconnectTip, of an asset that the block issued.                        *)
LEMMA DisconnectIssue ==
  ASSUME TypeOK, NEW n \in Asset, NEW tx \in Tx, tx.name = n, tx.kind = "issue",
         NEW c \in Cache, NEW undo, UndoPart(c, tx, undo),
         passets' = Flushed(c, passets),
         metaLru' = metaLru, verLru' = verLru, metaDB' = metaDB, verDB' = verDB,
         NEW before \in Said,
         before.meta = ChainMeta(n)', before.verifier = ChainVerifier(n)',
         IssuedIn(chain, n), ~IssuedIn(chain, n)' \/ ~OneIssue(chain, n),
         OneIssue(chain, n) => OneIssue(chain, n)',
         FitsIn(chain, n) => FitsIn(chain, n)' /\ before = Unsaid,
         LayersAgree(n)
  PROVE  /\ LayersAgree(n)'
         /\ FreshMatches(n) /\ ~(n \in passets'.rem /\ passets'.reissued[n] # None)
            => FreshMatches(n)'
<1>1. Exists(passets, n) /\ OneIssue(chain, n)' /\ ~IssuedIn(chain, n)'
  BY Zenon DEF LayersAgree
<1> DEFINE entry == [verifier |-> tx.verifier, undoingReissue |-> FALSE]
<1>2. /\ c.add[n] = None /\ n \in c.rem /\ c.reissued[n] = None
      /\ \A y \in Tx : y.name = n => y \notin c.reAdd /\ y \notin c.reRem
      /\ c.verAdd[n] = None /\ c.verRem[n] = entry
  BY <1>1, Zenon DEF UndoPart
<1>3. entry # None /\ ~entry.undoingReissue
  <2>1. tx.verifier \in STRING \cup {None}
    BY TxFacts, Zenon
  <2>2. entry \in VerifierUndo
    BY <2>1, Zenon DEF VerifierUndo
  <2> QED
    BY <2>2, NoneFacts, Zenon
<1> HIDE DEF entry
<1>4. /\ passets'.add[n] = None /\ n \in passets'.rem
      /\ passets'.reissued[n] = passets.reissued[n]
      /\ passets'.verAdd[n] = None /\ passets'.verRem[n] = entry
      /\ \A y \in Tx : y.name = n => /\ y \in passets'.reAdd <=> y \in passets.reAdd
                                     /\ y \in passets'.reRem <=> y \in passets.reRem
  <2>1. FlushPart(passets', c, passets, n)
    BY FlushedAt, Zenon
  <2> QED
    BY <1>2, <1>3, <2>1, Zenon DEF Or, FlushPart
<1>5. ~Exists(passets, n)'
  BY <1>4, Zenon DEF Exists
<1>6. LayersAgree(n)'
  BY <1>1, <1>3, <1>4, Zenon DEF LayersAgree
<1>7. ASSUME FreshMatches(n), passets'.reissued[n] = None PROVE FreshMatches(n)'
  <2>1. FitsIn(chain, n)' /\ before = Unsaid
    BY <1>7, Zenon DEF FreshMatches
  <2>2. ChainMeta(n)' = None /\ ChainVerifier(n)' = None
    BY <2>1 DEF Unsaid
  <2>3. MetaOf(passets, n)' = None
    BY <1>4, <1>7, Zenon DEF MetaOf, Or
  <2>4. VerifierOf(passets, n)' = None
    BY <1>3, <1>4, Zenon DEF VerifierOf, Or
  <2> QED
    BY <1>5, <1>7, <2>1, <2>2, <2>3, <2>4, Zenon DEF FreshMatches
<1> QED
  BY <1>4, <1>6, <1>7, Zenon

-----------------------------------------------------------------------------
(* DisconnectTip, of an asset that the block reissued.                      *)
LEMMA DisconnectReissue ==
  ASSUME TypeOK, NEW n \in Asset, NEW tx \in Tx, tx.name = n, tx.kind # "issue",
         NEW c \in Cache, NEW undo \in Seq(UndoItem), UndoPart(c, tx, undo),
         Exists(passets, n),
         passets' = Flushed(c, passets),
         metaLru' = metaLru, verLru' = verLru, metaDB' = metaDB, verDB' = verDB,
         NEW before \in Said,
         before.meta = ChainMeta(n)', before.verifier = ChainVerifier(n)',
         ChainMeta(n) = SaidAfter(tx, n, before).meta,
         ChainVerifier(n) = SaidAfter(tx, n, before).verifier,
         IssuedIn(chain, n)' <=> IssuedIn(chain, n),
         OneIssue(chain, n)' <=> OneIssue(chain, n),
         FitsIn(chain, n) =>
            /\ FitsIn(chain, n)' /\ before.meta # None /\ before.meta.reissuable
            /\ ItemOf(undo, n) = ItemFor(tx, before.meta, before.verifier),
         LayersAgree(n)
  PROVE  LayersAgree(n)' /\ (FreshMatches(n) => FreshMatches(n)')
<1> DEFINE m == MetaOf(passets, n)
           item == ItemOf(undo, n)
           entry == [verifier |-> item.verifier, undoingReissue |-> TRUE]
<1>1. m \in Meta /\ item \in UndoItem /\ n \notin passets.rem
  <2>1. m \in Meta
    BY TypeFacts, ReadsTyped, Zenon
  <2>2. item \in UndoItem
    BY ItemTyped, Zenon
  <2> QED
    BY <2>1, <2>2, Zenon DEF Exists
<1>2. /\ c.add[n] = None /\ n \notin c.rem
      /\ c.reissued[n] = UndoneMeta(m, tx, item)
      /\ tx \in c.reRem
      /\ c.verAdd[n] = None
      /\ c.verRem[n] = IF item.verifier = Keep THEN None ELSE entry
  BY Zenon DEF UndoPart
<1>3. UndoneMeta(m, tx, item) # None
  BY <1>1, UndoneMetaTyped, NoneFacts, Zenon
<1>4. item.verifier # Keep => entry # None /\ entry.undoingReissue /\ entry.verifier = item.verifier
  <2>1. item.verifier # Keep => item.verifier \in STRING \cup {None}
    BY <1>1, Zenon DEF UndoItem
  <2> HIDE DEF item
  <2>2. item.verifier # Keep => entry \in VerifierUndo
    BY <2>1, Zenon DEF VerifierUndo
  <2>3. entry.undoingReissue /\ entry.verifier = item.verifier
    OBVIOUS
  <2> QED
    BY <2>2, <2>3, NoneFacts, Zenon
<1> HIDE DEF m, item, entry
<1>5. /\ passets'.add[n] = passets.add[n] /\ n \notin passets'.rem
      /\ passets'.reissued[n] = UndoneMeta(m, tx, item)
      /\ passets'.verAdd[n] = IF item.verifier = Keep THEN passets.verAdd[n] ELSE None
      /\ passets'.verRem[n] = IF item.verifier = Keep THEN passets.verRem[n] ELSE entry
      /\ tx \in passets'.reRem
  <2>1. FlushPart(passets', c, passets, n)
    BY FlushedAt, Zenon
  <2> QED
    BY <1>1, <1>2, <1>3, <1>4, <2>1, Zenon DEF Or, FlushPart
<1>6. Exists(passets, n)'
  BY <1>5, Zenon DEF Exists
<1>7. LayersAgree(n)'
  BY <1>3, <1>5, <1>6, Zenon DEF LayersAgree
<1>8. ASSUME FreshMatches(n) PROVE FreshMatches(n)'
  <2>1. /\ FitsIn(chain, n)' /\ before.meta # None /\ before.meta.reissuable
        /\ item = ItemFor(tx, before.meta, before.verifier)
    BY <1>8, Zenon DEF FreshMatches, item
  <2>2. before.meta \in Meta
    BY <2>1 DEF Said
  <2>3. /\ m = ReissuedMeta(before.meta, tx)
        /\ VerifierOf(passets, n) = Changed(tx.verifier, before.verifier)
    BY <1>8, <2>1, Zenon DEF FreshMatches, SaidAfter, m
  <2>4. UndoneMeta(m, tx, item) = before.meta
    BY <2>1, <2>2, <2>3, UndoneRestores
  <2>5. MetaOf(passets, n)' = before.meta
    BY <1>3, <1>5, <2>4, Zenon DEF MetaOf, Or
  <2>6. item.verifier = IF tx.verifier = Keep THEN Keep ELSE before.verifier
    BY <2>1, Zenon DEF ItemFor
  <2>7. before.verifier # Keep
    BY NoneFacts, Zenon DEF Said
  <2>8. VerifierOf(passets, n)' = before.verifier
    <3>1. CASE tx.verifier = Keep
      BY <1>5, <2>3, <2>6, <3>1, Zenon DEF VerifierOf, Or, Changed
    <3>2. CASE tx.verifier # Keep
      BY <1>4, <1>5, <2>6, <2>7, <3>2, Zenon DEF VerifierOf, Or
    <3> QED
      BY <3>1, <3>2
  <2> QED
    BY <1>5, <1>6, <1>8, <2>1, <2>5, <2>8, Zenon DEF FreshMatches
<1> QED
  BY <1>7, <1>8

(* DisconnectTip.                                                           *)
LEMMA DisconnectStep ==
  ASSUME TypeOK, OnePerBlock, DisconnectTip, NEW n \in Asset,
         LayersAgree(n), n \notin stale => FreshMatches(n)
  PROVE  LayersAgree(n)' /\ (n \notin stale' => FreshMatches(n)')
<1> DEFINE b == chain[Len(chain)]
           c == Undone(b)
           before == SaidUpTo(chain, n)[Len(chain)]'
           after == SaidUpTo(chain, n)[Len(chain)]
           here == \E i \in 1..Len(b.txs) : IsIssue(b.txs[i], n)
           gone == n \in passets'.rem /\ passets'.reissued[n] # None
<1>1. /\ c \in Cache /\ b.txs \in Seq(Tx) /\ b.undo \in Seq(UndoItem)
      /\ passets' = Flushed(c, passets)
      /\ metaLru' = metaLru /\ verLru' = verLru /\ metaDB' = metaDB /\ verDB' = verDB
      /\ stale' = stale \cup {m \in passets'.rem : passets'.reissued[m] # None}
      /\ IssuedIn(chain, n) <=> IssuedIn(chain, n)' \/ here
      /\ OneIssue(chain, n) <=> OneIssue(chain, n)' /\ ~(IssuedIn(chain, n)' /\ here)
      /\ FitsIn(chain, n) <=> FitsIn(chain, n)' /\ Fits(b, n, before)
      /\ before \in Said
  BY DisconnectTipFacts, Zenon
<1>2. \/ /\ \A i \in 1..Len(b.txs) : b.txs[i].name # n
         /\ CleanPart(c, n) /\ after = before
      \/ \E i \in 1..Len(b.txs) :
           /\ b.txs[i] \in Tx /\ b.txs[i].name = n
           /\ \A j \in 1..Len(b.txs) : b.txs[j].name = n => j = i
           /\ UndoPart(c, b.txs[i], b.undo)
           /\ after = SaidAfter(b.txs[i], n, before)
  BY DisconnectTipFacts, Zenon
<1>3. /\ ChainMeta(n) = after.meta /\ ChainVerifier(n) = after.verifier
      /\ ChainMeta(n)' = before.meta /\ ChainVerifier(n)' = before.verifier
  BY DEF ChainMeta, ChainVerifier
<1>4. n \notin stale' => n \notin stale /\ ~gone
  BY <1>1, Zenon
<1> HIDE DEF b, c, before, after
<1>5. ASSUME CleanPart(c, n), ~here, OneIssue(chain, n)' <=> OneIssue(chain, n),
             FreshMatches(n) =>
               /\ ChainMeta(n)' = ChainMeta(n) /\ ChainVerifier(n)' = ChainVerifier(n)
               /\ FitsIn(chain, n)'
      PROVE  LayersAgree(n)' /\ (FreshMatches(n) => FreshMatches(n)')
  <2>1. SamePart(passets', passets, n)
    BY <1>1, <1>5, FlushedClean, Zenon
  <2>2. /\ Or(metaLru[n], metaDB[n])' = Or(metaLru[n], metaDB[n])
        /\ Or(verLru[n], verDB[n])' = Or(verLru[n], verDB[n])
    BY <1>1, Zenon DEF Or
  <2>3. /\ Exists(passets, n)' <=> Exists(passets, n)
        /\ MetaOf(passets, n)' = MetaOf(passets, n)
        /\ VerifierOf(passets, n)' = VerifierOf(passets, n)
    BY <2>1, <2>2, SameView, Zenon
  <2>4. IssuedIn(chain, n)' <=> IssuedIn(chain, n)
    BY <1>1, <1>5, Zenon
  <2>5. LayersAgree(n)'
    BY <1>1, <1>5, <2>1, <2>3, <2>4, Zenon DEF LayersAgree, SamePart
  <2>6. FreshMatches(n) => FreshMatches(n)'
    BY <1>5, <2>1, <2>3, <2>4, Zenon DEF FreshMatches, SamePart
  <2> QED
    BY <2>5, <2>6
<1>6. CASE \A i \in 1..Len(b.txs) : b.txs[i].name # n
  <2>1. CleanPart(c, n) /\ after = before
    BY <1>2, <1>6, Zenon
  <2>2. ~here
    BY <1>6 DEF IsIssue
  <2> HIDE DEF here
  <2>3. /\ ChainMeta(n)' = ChainMeta(n) /\ ChainVerifier(n)' = ChainVerifier(n)
        /\ OneIssue(chain, n)' <=> OneIssue(chain, n)
        /\ FreshMatches(n) => FitsIn(chain, n)'
    BY <1>1, <1>3, <2>1, <2>2, Zenon DEF FreshMatches
  <2>4. LayersAgree(n)' /\ (FreshMatches(n) => FreshMatches(n)')
    BY <1>5, <2>1, <2>2, <2>3, Zenon
  <2> QED
    BY <1>4, <2>4, Zenon
<1>7. ASSUME NEW i \in 1..Len(b.txs), b.txs[i] \in Tx, b.txs[i].name = n,
             \A j \in 1..Len(b.txs) : b.txs[j].name = n => j = i,
             UndoPart(c, b.txs[i], b.undo),
             after = SaidAfter(b.txs[i], n, before)
      PROVE  LayersAgree(n)' /\ (FreshMatches(n) /\ ~gone => FreshMatches(n)')
  <2> DEFINE tx == b.txs[i]
  <2>1. CASE tx.kind = "issue"
    <3>1. here
      BY <1>7, <2>1, Zenon DEF IsIssue
    <3>2. Fits(b, n, before) => before = Unsaid
      BY <1>7, <2>1 DEF Fits
    <3> HIDE DEF here
    <3>3. /\ IssuedIn(chain, n)
          /\ ~IssuedIn(chain, n)' \/ ~OneIssue(chain, n)
          /\ OneIssue(chain, n) => OneIssue(chain, n)'
          /\ FitsIn(chain, n) => FitsIn(chain, n)' /\ before = Unsaid
      BY <1>1, <3>1, <3>2, Zenon
    <3> QED
      BY <1>1, <1>3, <1>7, <2>1, <3>3, DisconnectIssue, Zenon
  <2>2. CASE tx.kind # "issue"
    <3>1. ~here
      BY <1>7, <2>2, Zenon DEF IsIssue
    <3>2. Fits(b, n, before) =>
            /\ before.meta # None /\ before.meta.reissuable
            /\ ItemOf(b.undo, n) = ItemFor(tx, before.meta, before.verifier)
      BY <1>7, <2>2 DEF Fits
    <3> HIDE DEF here, tx
    <3>3. /\ IssuedIn(chain, n)' <=> IssuedIn(chain, n)
          /\ OneIssue(chain, n)' <=> OneIssue(chain, n)
          /\ FitsIn(chain, n) =>
               /\ FitsIn(chain, n)' /\ before.meta # None /\ before.meta.reissuable
               /\ ItemOf(b.undo, n) = ItemFor(tx, before.meta, before.verifier)
      BY <1>1, <3>1, <3>2, Zenon
    <3>4. /\ tx \in Tx /\ tx.name = n /\ UndoPart(c, tx, b.undo)
          /\ ChainMeta(n) = SaidAfter(tx, n, before).meta
          /\ ChainVerifier(n) = SaidAfter(tx, n, before).verifier
      BY <1>3, <1>7 DEF tx
    <3>5. CASE Exists(passets, n)
      BY <1>1, <1>3, <2>2, <3>3, <3>4, <3>5, DisconnectReissue, Zenon
    <3>6. CASE ~Exists(passets, n)
      <4>1. CleanPart(c, n)
        BY <2>2, <3>4, <3>6, Zenon DEF UndoPart
      <4>2. ~FreshMatches(n)
        <5>1. FitsIn(chain, n) => ChainMeta(n) # None
          <6>1. FitsIn(chain, n) => before.meta \in Meta
            BY <1>1, <3>3, Zenon DEF Said
          <6>2. FitsIn(chain, n) => ReissuedMeta(before.meta, tx) # None
            BY <3>4, <6>1, MetaFacts, NoneFacts, Zenon
          <6> QED
            BY <2>2, <3>3, <3>4, <6>2 DEF SaidAfter
        <5> QED
          BY <3>6, <5>1, Zenon DEF FreshMatches
      <4>3. LayersAgree(n)' /\ (FreshMatches(n) => FreshMatches(n)')
        BY <1>5, <3>1, <3>3, <4>1, <4>2
      <4> QED
        BY <4>3
    <3> QED
      BY <3>5, <3>6, Zenon
  <2> QED
    BY <2>1, <2>2
<1> HIDE DEF gone
<1>8. LayersAgree(n)' /\ (n \notin stale' => FreshMatches(n)')
  BY <1>2, <1>4, <1>6, <1>7, Zenon
<1> QED
  BY <1>8

-----------------------------------------------------------------------------
(* ReadMeta and ReadVerifier: the read caches hold what the databases hold. *)
LEMMA ReadStep ==
  ASSUME TypeOK, NEW k \in Asset, ReadMeta(k) \/ ReadVerifier(k), NEW n \in Asset,
         LayersAgree(n), n \notin stale => FreshMatches(n)
  PROVE  LayersAgree(n)' /\ (n \notin stale' => FreshMatches(n)')
<1>1. /\ metaLru \in [Asset -> Meta \cup {None}] /\ verLru \in [Asset -> STRING \cup {None}]
      /\ metaLru[n] \in {None, metaDB[n]} /\ verLru[n] \in {None, verDB[n]}
  BY Zenon DEF TypeOK, LayersAgree
<1>2. /\ chain' = chain /\ passets' = passets /\ metaDB' = metaDB /\ verDB' = verDB
      /\ stale' = stale
      /\ metaLru'[n] \in {None, metaDB[n]} /\ verLru'[n] \in {None, verDB[n]}
  <2>1. CASE ReadMeta(k)
    BY <1>1, <2>1, Zenon DEF ReadMeta
  <2>2. CASE ReadVerifier(k)
    BY <1>1, <2>2, Zenon DEF ReadVerifier
  <2> QED
    BY <2>1, <2>2, Zenon
<1>3. SamePart(passets', passets, n)
  BY <1>2, Zenon DEF SamePart
<1>4. /\ Or(metaLru[n], metaDB[n])' = Or(metaLru[n], metaDB[n])
      /\ Or(verLru[n], verDB[n])' = Or(verLru[n], verDB[n])
  BY <1>1, <1>2 DEF Or
<1>5. /\ IssuedIn(chain, n)' <=> IssuedIn(chain, n)
      /\ OneIssue(chain, n)' <=> OneIssue(chain, n)
      /\ FitsIn(chain, n)' <=> FitsIn(chain, n)
  BY <1>2, Zenon
<1>6. ChainMeta(n)' = ChainMeta(n) /\ ChainVerifier(n)' = ChainVerifier(n)
  BY <1>2 DEF ChainMeta, ChainVerifier
<1>7. LayersAgree(n)' /\ (FreshMatches(n) => FreshMatches(n)')
  BY <1>2, <1>3, <1>4, <1>5, <1>6, SameAsset, Zenon
<1> QED
  BY <1>2, <1>7

(* The chain says nothing of an asset that it does not name.                *)
LEMMA UnnamedAsset ==
  ASSUME TypeOK, OnePerBlock, NEW n \in Asset, ~Named(n)
  PROVE  /\ ~IssuedIn(chain, n) /\ FitsIn(chain, n)
         /\ ChainMeta(n) = None /\ ChainVerifier(n) = None
<1> DEFINE f == SaidUpTo(chain, n)
           S == {h \in 0..Len(chain) : f[h] = Unsaid}
<1>1. chain \in Seq(ChainBlock) /\ Len(chain) \in Nat /\ DOMAIN chain = 1..Len(chain)
  BY TypeFacts
<1>2. ASSUME NEW h \in 1..Len(chain)
      PROVE  /\ chain[h].txs \in Seq(Tx) /\ OneEach(chain[h].txs)
             /\ \A i \in 1..Len(chain[h].txs) : chain[h].txs[i].name # n
  <2>0. chain[h] \in ChainBlock
    BY <1>1
  <2>1. chain[h].txs \in Seq(Tx)
    BY <2>0 DEF ChainBlock
  <2>2. DOMAIN chain[h].txs = 1..Len(chain[h].txs)
    BY <2>1
  <2>3. OneEach(chain[h].txs)
    BY <1>1, <2>2, Zenon DEF OnePerBlock, OnePerAsset, OneEach
  <2>4. ASSUME NEW i \in 1..Len(chain[h].txs) PROVE chain[h].txs[i].name # n
    <3>1. <<h, i>> \in Places
      BY <1>1, <2>2 DEF Places
    <3>2. TxAt(<<h, i>>) = chain[h].txs[i]
      BY Zenon DEF TxAt
    <3> QED
      BY <3>1, <3>2 DEF Named
  <2> QED
    BY <2>1, <2>3, <2>4
<1>3. /\ f[0] = Unsaid
      /\ \A i \in 1..Len(chain) : f[i] = SaidByBlock(chain[i].txs, n, f[i - 1])
      /\ f \in [0..Len(chain) -> Said]
  BY <1>1, SaidUpToFacts
<1> HIDE DEF f
<1>4. 0 \in S
  BY <1>1, <1>3
<1>5. ASSUME NEW h \in 1..Len(chain), h - 1 \in S PROVE h \in S
  <2>1. h \in 0..Len(chain) /\ f[h - 1] = Unsaid /\ Unsaid \in Said
    BY <1>1, <1>5 DEF Unsaid, Said
  <2>2. SaidByBlock(chain[h].txs, n, Unsaid) = Unsaid
    BY <1>2, <2>1, SaidByBlockFacts DEF OneEach
  <2> QED
    BY <1>3, <2>1, <2>2, Zenon
<1>6. \A h \in 0..Len(chain) : h \in S
  <2> HIDE DEF S
  <2> QED
    BY <1>1, <1>4, <1>5, LoopInduction, Zenon
<1>7. ~IssuedIn(chain, n)
  BY <1>2, Zenon DEF IssuedIn, IsIssue
<1>8. FitsIn(chain, n)
  BY <1>2 DEF FitsIn, Fits
<1>9. f[Len(chain)] = Unsaid
  BY <1>1, <1>6
<1>10. ChainMeta(n) = f[Len(chain)].meta /\ ChainVerifier(n) = f[Len(chain)].verifier
  BY Zenon DEF ChainMeta, ChainVerifier, f
<1>11. Unsaid.meta = None /\ Unsaid.verifier = None
  BY Zenon DEF Unsaid
<1> QED
  BY <1>7, <1>8, <1>9, <1>10, <1>11, Zenon

(* DumpCacheToDatabase, of one asset.                                       *)
LEMMA DumpStep ==
  ASSUME TypeOK, OnePerBlock, DumpCacheToDatabase, NEW n \in Asset,
         LayersAgree(n), n \notin stale => FreshMatches(n)
  PROVE  LayersAgree(n)' /\ (n \notin stale' => FreshMatches(n)')
<1> DEFINE written == n \in Rewritten
           touched == passets.verAdd[n] # None \/ passets.verRem[n] # None
<1>1. /\ metaDB'[n] = IF written THEN passets.reissued[n]
                      ELSE Or(passets.add[n], IF n \in passets.rem THEN None ELSE metaDB[n])
      /\ metaLru'[n] = IF written \/ n \in passets.rem THEN None
                       ELSE Or(passets.add[n], metaLru[n])
      /\ verLru'[n] = IF touched THEN None ELSE verLru[n]
      /\ verDB'[n] = DumpedVerifier(n)
  BY Zenon DEF DumpCacheToDatabase, DumpedMetaLru
<1>2. /\ passets' = Clean /\ chain' = chain
      /\ stale' = {m \in stale : m \notin passets.rem \/ m \in Rewritten \/ Named(m)}
  BY Zenon DEF DumpCacheToDatabase
<1>3. CleanPart(passets', n)
  BY <1>2, CleanFacts
<1>4. /\ Exists(passets, n)' <=> metaLru'[n] # None \/ metaDB'[n] # None
      /\ MetaOf(passets, n)' = Or(metaLru'[n], metaDB'[n])
      /\ VerifierOf(passets, n)' = Or(verLru'[n], verDB'[n])
  <2>1. Exists(passets, n)' <=> metaLru'[n] # None \/ metaDB'[n] # None
    BY <1>3, Zenon DEF CleanPart, Exists
  <2>2. MetaOf(passets, n)' = Or(metaLru'[n], metaDB'[n])
    BY <1>3, Zenon DEF CleanPart, MetaOf, Or
  <2>3. VerifierOf(passets, n)' = Or(verLru'[n], verDB'[n])
    BY <1>3 DEF CleanPart, VerifierOf, Or
  <2> QED
    BY <2>1, <2>2, <2>3, Zenon
<1>5. /\ IssuedIn(chain, n)' <=> IssuedIn(chain, n)
      /\ OneIssue(chain, n)' <=> OneIssue(chain, n)
      /\ FitsIn(chain, n)' <=> FitsIn(chain, n)
      /\ ChainMeta(n)' = ChainMeta(n) /\ ChainVerifier(n)' = ChainVerifier(n)
  BY <1>2, Zenon DEF ChainMeta, ChainVerifier
<1>6. /\ written => passets.reissued[n] # None
      /\ n \in passets.rem => passets.add[n] = None
  BY TypeFacts DEF Rewritten
<1>7. passets.reissued[n] # None /\ n \notin passets.rem => written
  BY TypeFacts, CacheFields, Zenon DEF LayersAgree, Rewritten
<1>8. n \in passets.rem /\ ~written =>
         passets.verRem[n] # None /\ ~passets.verRem[n].undoingReissue
  BY TypeFacts, CacheFields, Zenon DEF LayersAgree, Rewritten
<1>9. n \in passets.rem => touched
  BY Zenon DEF LayersAgree
<1> HIDE DEF written
<1>10. metaLru'[n] \in {None, metaDB'[n]} /\ verLru'[n] \in {None, verDB'[n]}
  <2>1. metaLru'[n] \in {None, metaDB'[n]}
    BY <1>1, Zenon DEF LayersAgree, Or
  <2>2. verLru'[n] \in {None, verDB'[n]}
    BY <1>1, <1>9, Zenon DEF LayersAgree, Or, DumpedVerifier
  <2> QED
    BY <2>1, <2>2, Zenon
<1>11. Exists(passets, n) => Exists(passets, n)'
  BY <1>1, <1>4, <1>6, Zenon DEF Exists, Or, LayersAgree
<1>12. LayersAgree(n)'
  BY <1>3, <1>5, <1>10, <1>11, Zenon DEF LayersAgree, CleanPart
<1>13. CASE n \notin stale
  <2>1. FreshMatches(n)
    BY <1>13
  <2>2. MetaOf(passets, n)' = MetaOf(passets, n)
    BY <1>1, <1>4, <1>6, <1>7, <2>1, Zenon DEF FreshMatches, MetaOf, Or
  <2>3. VerifierOf(passets, n)' = VerifierOf(passets, n)
    BY <1>1, <1>4, <1>9, Zenon DEF VerifierOf, Or, DumpedVerifier
  <2>4. Exists(passets, n)' <=> MetaOf(passets, n)' # None
    BY <1>4, Zenon DEF Or
  <2>5. MetaOf(passets, n)' # None => Exists(passets, n)
    BY <2>1, <2>2 DEF FreshMatches
  <2> QED
    BY <1>3, <1>5, <1>11, <1>12, <2>1, <2>2, <2>3, <2>4, <2>5, Zenon DEF FreshMatches, CleanPart
<1>14. CASE n \in stale /\ n \notin stale'
  <2>1. n \in passets.rem /\ ~written /\ ~Named(n)
    BY <1>2, <1>14 DEF written
  <2>2. /\ ~IssuedIn(chain, n) /\ FitsIn(chain, n)
        /\ ChainMeta(n) = None /\ ChainVerifier(n) = None
    BY <2>1, UnnamedAsset, Zenon
  <2>3. metaLru'[n] = None /\ metaDB'[n] = None
    BY <1>1, <1>6, <2>1, Zenon DEF Or
  <2>4. verLru'[n] = None /\ verDB'[n] = None
    BY <1>1, <1>8, <2>1, Zenon DEF DumpedVerifier
  <2>5. ~Exists(passets, n)' /\ MetaOf(passets, n)' = None /\ VerifierOf(passets, n)' = None
    BY <1>4, <2>3, <2>4 DEF Or
  <2> QED
    BY <1>3, <1>5, <1>12, <2>2, <2>5, Zenon DEF FreshMatches, CleanPart
<1> QED
  BY <1>12, <1>13, <1>14

-----------------------------------------------------------------------------
(* Nothing is issued at first, and nothing is found.                        *)
LEMMA AssetInit == Init => AssetInv
<1> SUFFICES ASSUME Init, NEW n \in Asset PROVE LayersAgree(n) /\ FreshMatches(n)
  BY Zenon DEF AssetInv
<1>1. chain = <<>> /\ chain \in Seq(ChainBlock) /\ Len(chain) = 0
  BY DEF Init
<1>2. CleanPart(passets, n)
  BY CleanFacts DEF Init
<1>3. metaLru[n] = None /\ metaDB[n] = None /\ verLru[n] = None /\ verDB[n] = None
  BY DEF Init, Nothing
<1>4. SaidUpTo(chain, n)[Len(chain)] = Unsaid
  BY <1>1, SaidUpToFacts, Zenon
<1>5. ChainMeta(n) = None /\ ChainVerifier(n) = None
  BY <1>4 DEF ChainMeta, ChainVerifier, Unsaid
<1>6. ~IssuedIn(chain, n) /\ OneIssue(chain, n) /\ FitsIn(chain, n)
  BY <1>1 DEF IssuedIn, OneIssue, FitsIn
<1>7. LayersAgree(n)
  BY <1>2, <1>3, <1>6 DEF LayersAgree, CleanPart
<1>8. ~Exists(passets, n)
  BY <1>2, <1>3, Zenon DEF CleanPart, Exists
<1>9. MetaOf(passets, n) = None
  BY <1>2, <1>3, Zenon DEF CleanPart, MetaOf, Or
<1>10. VerifierOf(passets, n) = None
  BY <1>2, <1>3 DEF CleanPart, VerifierOf, Or
<1>11. FreshMatches(n)
  BY <1>2, <1>5, <1>6, <1>8, <1>9, <1>10, Zenon DEF FreshMatches, CleanPart
<1> QED
  BY <1>7, <1>11

(* Every step keeps the invariant.                                          *)
LEMMA AssetNext ==
  ASSUME TypeOK, OnePerBlock, OnePerBlock', AssetInv, [Next]_vars
  PROVE  AssetInv'
<1> SUFFICES ASSUME NEW n \in Asset
             PROVE  LayersAgree(n)' /\ (n \notin stale' => FreshMatches(n)')
  BY DEF AssetInv
<1>0. LayersAgree(n) /\ (n \notin stale => FreshMatches(n))
  BY DEF AssetInv
<1>1. ASSUME NEW txs \in Blocks, ConnectTip(txs)
      PROVE  LayersAgree(n)' /\ (n \notin stale' => FreshMatches(n)')
  BY <1>0, <1>1, ConnectStep
<1>2. CASE DisconnectTip
  BY <1>0, <1>2, DisconnectStep
<1>3. ASSUME NEW k \in Asset, ReadMeta(k) \/ ReadVerifier(k)
      PROVE  LayersAgree(n)' /\ (n \notin stale' => FreshMatches(n)')
  BY <1>0, <1>3, ReadStep, Zenon
<1>4. CASE DumpCacheToDatabase
  BY <1>0, <1>4, DumpStep
<1>5. CASE UNCHANGED vars
  <2>1. /\ chain' = chain /\ passets' = passets /\ metaLru' = metaLru /\ verLru' = verLru
        /\ metaDB' = metaDB /\ verDB' = verDB /\ stale' = stale
    BY <1>5 DEF vars
  <2>2. LayersAgree(n)'
    BY <1>0, <2>1, Zenon DEF LayersAgree, Exists
  <2>3. FreshMatches(n) => FreshMatches(n)'
    BY <2>1 DEF FreshMatches, Exists, MetaOf, VerifierOf, ChainMeta, ChainVerifier
  <2> QED
    BY <1>0, <2>1, <2>2, <2>3
<1> QED
  BY <1>1, <1>2, <1>3, <1>4, <1>5 DEF Next

(* The blocks of a mempool keep it that way.                                *)
LEMMA OnePerBlockNext ==
  ASSUME TypeOK, OnePerBlock, [MempoolNext]_vars
  PROVE  OnePerBlock' /\ [Next]_vars
<1>1. ASSUME NEW txs \in Blocks, OnePerAsset(txs), ConnectTip(txs) PROVE OnePerBlock'
  <2> DEFINE b == [txs |-> txs, undo |-> Connected(txs).undo]
  <2>1. chain' = Append(chain, b)
    BY <1>1 DEF ConnectTip
  <2>2. chain \in Seq(ChainBlock) /\ b.txs = txs
    BY TypeFacts
  <2> HIDE DEF b
  <2>3. /\ DOMAIN chain = 1..Len(chain) /\ DOMAIN chain' = 1..(Len(chain) + 1) /\ Len(chain) \in Nat
        /\ \A h \in 1..Len(chain) : chain'[h] = chain[h]
        /\ chain'[Len(chain) + 1] = b
    BY <2>1, <2>2
  <2> SUFFICES ASSUME NEW h \in DOMAIN chain' PROVE OnePerAsset(chain'[h].txs)
    BY Zenon DEF OnePerBlock
  <2>4. h \in 1..Len(chain) \/ h = Len(chain) + 1
    BY <2>3
  <2> QED
    BY <1>1, <2>2, <2>3, <2>4, Zenon DEF OnePerBlock
<1>2. ASSUME DisconnectTip PROVE OnePerBlock'
  <2>1. chain' = SubSeq(chain, 1, Len(chain) - 1) /\ chain # <<>> /\ chain \in Seq(ChainBlock)
    BY <1>2, TypeFacts DEF DisconnectTip
  <2>2. \A h \in DOMAIN chain' : h \in DOMAIN chain /\ chain'[h] = chain[h]
    BY <2>1
  <2> QED
    BY <2>2, Zenon DEF OnePerBlock
<1>3. ASSUME chain' = chain PROVE OnePerBlock'
  BY <1>3, Zenon DEF OnePerBlock
<1>4. ASSUME \E n \in Asset : ReadMeta(n) \/ ReadVerifier(n) PROVE OnePerBlock'
  BY <1>3, <1>4, Zenon DEF ReadMeta, ReadVerifier
<1>5. ASSUME DumpCacheToDatabase \/ UNCHANGED vars PROVE OnePerBlock'
  BY <1>3, <1>5, Zenon DEF DumpCacheToDatabase, vars
<1>6. OnePerBlock'
  BY <1>1, <1>2, <1>4, <1>5, Zenon DEF MempoolNext
<1>7. MempoolNext => Next
  BY Zenon DEF MempoolNext, Next
<1> QED
  BY <1>6, <1>7, Zenon

(* The invariant holds while blocks have one transaction of an asset at most.  *)
THEOREM AssetInvariance == MempoolSpec => [](TypeOK /\ OnePerBlock /\ AssetInv)
<1>1. Init => TypeOK /\ OnePerBlock /\ AssetInv
  BY AssetInit, TypeInit DEF Init, OnePerBlock
<1>2. TypeOK /\ OnePerBlock /\ AssetInv /\ [MempoolNext]_vars
      => TypeOK' /\ OnePerBlock' /\ AssetInv'
  BY AssetNext, TypeNext, OnePerBlockNext, Zenon
<1> QED
  BY <1>1, <1>2, PTL DEF MempoolSpec

(* The places of the issues of an asset.                                    *)
LEMMA IssuePlaces ==
  ASSUME TypeOK, NEW n \in Asset
  PROVE  LET issues == {p \in Places : TxAt(p).name = n /\ TxAt(p).kind = "issue"}
         IN /\ issues # {} <=> IssuedIn(chain, n)
            /\ OneIssue(chain, n) => \A p, q \in issues : p = q
<1> DEFINE issues == {p \in Places : TxAt(p).name = n /\ TxAt(p).kind = "issue"}
<1>1. chain \in Seq(ChainBlock) /\ Len(chain) \in Nat /\ DOMAIN chain = 1..Len(chain)
  BY TypeFacts
<1>2. ASSUME NEW h \in 1..Len(chain)
      PROVE  DOMAIN chain[h].txs = 1..Len(chain[h].txs)
  <2>1. chain[h] \in ChainBlock
    BY <1>1
  <2>2. chain[h].txs \in Seq(Tx)
    BY <2>1, Zenon DEF ChainBlock
  <2> QED
    BY <2>2
<1>3. ASSUME NEW p \in issues
      PROVE  \E h \in 1..Len(chain) : \E i \in 1..Len(chain[h].txs) :
                p = <<h, i>> /\ IsIssue(chain[h].txs[i], n)
  <2>1. PICK h \in 1..Len(chain) : p \in {<<h, i>> : i \in DOMAIN chain[h].txs}
    BY <1>1, <1>3 DEF Places
  <2>2. PICK i \in 1..Len(chain[h].txs) : p = <<h, i>>
    BY <1>2, <2>1, Zenon
  <2>3. TxAt(p) = chain[h].txs[i]
    BY <2>2, Zenon DEF TxAt
  <2> QED
    BY <1>3, <2>2, <2>3, Zenon DEF IsIssue
<1>4. ASSUME NEW h \in 1..Len(chain), NEW i \in 1..Len(chain[h].txs), IsIssue(chain[h].txs[i], n)
      PROVE  <<h, i>> \in issues
  <2>1. <<h, i>> \in Places
    BY <1>1, <1>2 DEF Places
  <2>2. TxAt(<<h, i>>) = chain[h].txs[i]
    BY Zenon DEF TxAt
  <2> QED
    BY <1>4, <2>1, <2>2, Zenon DEF IsIssue
<1> HIDE DEF issues
<1>5. issues # {} <=> IssuedIn(chain, n)
  BY <1>3, <1>4, Zenon DEF IssuedIn
<1>6. ASSUME OneIssue(chain, n), NEW p \in issues, NEW q \in issues PROVE p = q
  <2>1. PICK h \in 1..Len(chain) : \E i \in 1..Len(chain[h].txs) :
            p = <<h, i>> /\ IsIssue(chain[h].txs[i], n)
    BY <1>3
  <2>2. PICK i \in 1..Len(chain[h].txs) : p = <<h, i>> /\ IsIssue(chain[h].txs[i], n)
    BY <2>1
  <2>3. PICK g \in 1..Len(chain) : \E j \in 1..Len(chain[g].txs) :
            q = <<g, j>> /\ IsIssue(chain[g].txs[j], n)
    BY <1>3, Zenon
  <2>4. PICK j \in 1..Len(chain[g].txs) : q = <<g, j>> /\ IsIssue(chain[g].txs[j], n)
    BY <2>3, Zenon
  <2>5. h = g /\ i = j
    BY <1>6, <2>2, <2>4 DEF OneIssue
  <2> QED
    BY <2>2, <2>4, <2>5, Zenon
<1> QED
  BY <1>5, <1>6 DEF issues

(* CheckIfAssetExists answers for the active chain, however often it was
   reorganised and whenever passets was dumped: a name exists exactly if a
   connected block issues it, the stale ones excepted, and no name is issued
   twice.                                                                   *)
THEOREM AssetsExist == MempoolSpec => []ExistsMatchesChain
<1>1. TypeOK /\ AssetInv => ExistsMatchesChain
  <2> SUFFICES ASSUME TypeOK, AssetInv PROVE ExistsMatchesChain
    OBVIOUS
  <2> SUFFICES ASSUME NEW n \in Asset
               PROVE  LET issues == {p \in Places : TxAt(p).name = n /\ TxAt(p).kind = "issue"}
                      IN /\ \A p, q \in issues : p = q
                         /\ n \notin stale => (Exists(passets, n) <=> issues # {})
    BY Zenon DEF ExistsMatchesChain
  <2> DEFINE issues == {p \in Places : TxAt(p).name = n /\ TxAt(p).kind = "issue"}
  <2>1. issues # {} <=> IssuedIn(chain, n)
    BY IssuePlaces
  <2>2. \A p, q \in issues : p = q
    BY IssuePlaces, Zenon DEF AssetInv, LayersAgree
  <2> HIDE DEF issues
  <2>3. n \notin stale => (Exists(passets, n) <=> issues # {})
    BY <2>1, Zenon DEF AssetInv, LayersAgree, FreshMatches
  <2> QED
    BY <2>2, <2>3 DEF issues
<1> QED
  BY <1>1, AssetInvariance, PTL

(* GetAssetMetaDataIfExists returns what the issue and the reissues of the
   active chain make of the metadata, but for the stale assets: undoing a
   reissue with the undo data of its block restores what was there before.  *)
THEOREM AssetMetadataMatches == MempoolSpec => []MetaMatchesChainUnlessStale
<1>1. AssetInv => MetaMatchesChainUnlessStale
  BY Zenon DEF AssetInv, FreshMatches, MetaMatchesChainUnlessStale
<1> QED
  BY <1>1, AssetInvariance, PTL

(* GetAssetVerifierStringIfExists returns the last verifier string on the active
   chain, but for the stale assets.                                         *)
THEOREM VerifiersMatch == MempoolSpec => []VerifierMatchesChain
<1>1. AssetInv => VerifierMatchesChain
  BY Zenon DEF AssetInv, FreshMatches, VerifierMatchesChain
<1> QED
  BY <1>1, AssetInvariance, PTL
=============================================================================
