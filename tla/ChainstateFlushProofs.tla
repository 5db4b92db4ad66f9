------------------------ MODULE ChainstateFlushProofs -----------------------
(***************************************************************************)
(* Proofs about module ChainstateFlush, for every block tree, every number *)
(* of crashes and every way a flush may be cut short.                      *)
(***************************************************************************)
EXTENDS ChainstateFlush, BlockTreeProofs

(* The node is up: the caches are those of tip.                             *)
Running == pc \in {"run", "coins", "replay", "assets"}

(* The block the coin database was last consistent with, and the old tip of a
   transition; null is the state before the first flush.                    *)
BestBlock == IF best = Null THEN Genesis ELSE best
OldHead == IF heads[2] = Null THEN Genesis ELSE heads[2]

(* The undo data of b and of every block below it was written.              *)
Undoable(idx, b) == \A x \in Ancestors[b] \ {Genesis} : idx[x] = "undo"

(* What ConnectBlock checked of b, read off the chain below b.              *)
SpendsUnspent(b) == Spends[b] \subseteq UtxoAt[Parent[b]] \cup Creates[b]
IssuesNew(b) == Issues[b] \cap AssetsAt(Parent[b]) = {}

(* o is unspent in X exactly if it is in Y.                                 *)
Agree(o, X, Y) == (o \in X) <=> (o \in Y)

(* Where the thread is tells what the coin database holds.                  *)
PhaseInv ==
    /\ pc # "failed"
    /\ pc \in {"run", "assets"} => heads = <<>>
    /\ pc = "replay" => heads # <<>>
    /\ pc \in {"coins", "replay"} /\ heads # <<>> => heads[1] = tip
    /\ pc = "assets" => best = tip
    /\ heads # <<>> /\ pc # "coins" => torn

(* The block index names, with their undo data, the blocks of every chain the
   coin database refers to, and the index in memory is no older.            *)
IndexInv ==
    /\ \A b \in Block \ {Genesis} : index[b] = "undo" \/ indexDB[b] = "undo" => SpendsUnspent(b)
    /\ Running => /\ Undoable(index, tip)
                  /\ \A b \in Block : indexDB[b] = "undo" => index[b] = "undo"
    /\ pc \in {"coins", "replay"} => Undoable(indexDB, tip)
    /\ Undoable(indexDB, BestBlock)
    /\ heads # <<>> => Undoable(indexDB, heads[1]) /\ Undoable(indexDB, OldHead)

(* Memory has the coins of tip, and the database those outside pending; the
   database has the coins of its best block or, in a transition, of each coin
   the old state or the new.                                                *)
CoinsInv ==
    /\ Running => /\ coins = UtxoAt[tip]
                  /\ \A o \in Outpoint \ pending : Agree(o, coins, coinsDB)
    /\ heads = <<>> => coinsDB = UtxoAt[BestBlock]
    /\ heads # <<>> => \A o \in Outpoint : \/ Agree(o, coinsDB, UtxoAt[heads[1]])
                                            \/ Agree(o, coinsDB, UtxoAt[OldHead])

(* Until a crash cuts a full flush short, the asset database is that of the
   best block, except while it is being written.                            *)
AssetsInv ==
    /\ Running => assetsAdd \cap assetsDel = {}
    /\ ~torn =>
         /\ Running => Assets = AssetsAt(tip)
         /\ pc # "assets" /\ heads = <<>> => assetsDB = AssetsAt(BestBlock)
         /\ \A b \in Block \ {Genesis} : index[b] = "undo" \/ indexDB[b] = "undo" => IssuesNew(b)

IInv == TypeOK /\ PhaseInv /\ IndexInv /\ CoinsInv /\ AssetsInv

-----------------------------------------------------------------------------
(* The functions of the model that are defined by recursion along pprev.    *)

LEMMA HeightIsRank == IsRank(nHeight)
<1>1. ASSUME NEW b \in Block \ {Genesis} PROVE nHeight[Parent[b]] < nHeight[b]
  BY HeightAssumption, ParentAssumption
<1> QED
  BY <1>1, HeightAssumption DEF IsRank

(* The UTXO set of a chain is made block by block.                          *)
LEMMA UtxoAtDef ==
  /\ UtxoAt \in [Block -> SUBSET Outpoint]
  /\ UtxoAt[Genesis] = {}
  /\ \A b \in Block \ {Genesis} : UtxoAt[b] = Connected(UtxoAt[Parent[b]], b)
<1> DEFINE V == SUBSET Outpoint
           step == [p \in Block \X V |-> Connected(p[2], p[1])]
           Def(f) == [b \in Block |-> IF b = Genesis THEN {} ELSE Connected(f[Parent[b]], b)]
<1>1. step \in [Block \X V -> V] /\ {} \in V
  BY BlockAssumption DEF Connected
<1>2. PICK f \in [Block -> V] : IsTreeFunction(f, {}, step)
  <2> HIDE DEF V, step
  <2> QED
    BY <1>1, HeightIsRank, TreeRecursion, Zenon
<1>3. f = Def(f)
  <2>1. \A b \in Block \ {Genesis} : step[<<b, f[Parent[b]]>>] = Connected(f[Parent[b]], b)
    BY <1>2, ParentAssumption
  <2> QED
    BY <1>2, <2>1 DEF IsTreeFunction
<1>4. UtxoAt = Def(UtxoAt)
  BY <1>3, Zenon DEF UtxoAt
<1>5. /\ UtxoAt[Genesis] = {}
      /\ \A b \in Block \ {Genesis} : UtxoAt[b] = Connected(UtxoAt[Parent[b]], b)
  BY <1>4, ParentAssumption
<1> DEFINE S == {b \in Block : UtxoAt[b] \subseteq Outpoint}
<1>6. Genesis \in S
  BY <1>5, ParentAssumption
<1>7. ASSUME NEW b \in Block \ {Genesis}, Parent[b] \in S PROVE b \in S
  BY <1>5, <1>7, BlockAssumption DEF Connected
<1>8. \A b \in Block : b \in S
  <2> HIDE DEF S
  <2> QED
    BY <1>6, <1>7, HeightIsRank, TreeInduction
<1> QED
  BY <1>4, <1>5, <1>8

(* The first loop of ReplayBlocks, one iteration at a time.                 *)
LEMMA RollbackDef ==
  ASSUME NEW b \in Block, NEW new \in Block, NEW utxo \in SUBSET Outpoint
  PROVE  Rollback[b][new][utxo] =
           IF b \in Ancestors[new] THEN utxo ELSE Rollback[Parent[b]][new][Undone(utxo, b)]
<1> DEFINE V == [Block -> [SUBSET Outpoint -> SUBSET Outpoint]]
           base == [n \in Block |-> [u \in SUBSET Outpoint |-> u]]
           step == [p \in Block \X V |->
                      [n \in Block |-> [u \in SUBSET Outpoint |->
                         IF p[1] \in Ancestors[n] THEN u ELSE p[2][n][Undone(u, p[1])]]]]
           Def(f) == [c \in Block |->
                      [n \in Block |-> [u \in SUBSET Outpoint |->
                         IF c \in Ancestors[n] THEN u ELSE f[Parent[c]][n][Undone(u, c)]]]]
<1>1. \A c \in Block, u \in SUBSET Outpoint : Undone(u, c) \in SUBSET Outpoint
  BY BlockAssumption DEF Undone
<1>2. step \in [Block \X V -> V] /\ base \in V
  <2>1. ASSUME NEW p \in Block \X V, NEW n \in Block, NEW u \in SUBSET Outpoint
        PROVE  p[2][n][Undone(u, p[1])] \in SUBSET Outpoint
    <3>1. p[1] \in Block /\ p[2] \in V
      OBVIOUS
    <3>2. \A x \in SUBSET Outpoint : p[2][n][x] \in SUBSET Outpoint
      BY <3>1
    <3> QED
      BY <1>1, <3>1, <3>2, Zenon
  <2>2. base \in V
    OBVIOUS
  <2> QED
    BY <2>1, <2>2
<1>3. PICK f \in [Block -> V] : IsTreeFunction(f, base, step)
  <2> HIDE DEF V, step, base
  <2> QED
    BY <1>2, HeightIsRank, TreeRecursion, Zenon
<1>4. f = Def(f)
  <2>1. \A n \in Block : Genesis \in Ancestors[n]
    BY HeightIsRank, AncestorsFacts
  <2>2. \A c \in Block \ {Genesis} : step[<<c, f[Parent[c]]>>] = Def(f)[c]
    BY <1>3, ParentAssumption
  <2>3. base = Def(f)[Genesis]
    BY <2>1, ParentAssumption
  <2> HIDE DEF base, step
  <2>4. \A c \in Block : f[c] = Def(f)[c]
    BY <1>3, <2>2, <2>3 DEF IsTreeFunction
  <2>5. f = [c \in Block |-> f[c]]
    BY <1>3
  <2> QED
    BY <2>4, <2>5
<1>5. Rollback = Def(Rollback)
  BY <1>4, Zenon DEF Rollback
<1>6. Def(Rollback)[b][new][utxo] =
        IF b \in Ancestors[new] THEN utxo ELSE Rollback[Parent[b]][new][Undone(utxo, b)]
  OBVIOUS
<1> HIDE DEF Def
<1> QED
  BY <1>5, <1>6, Zenon

(* The second loop of ReplayBlocks.                                         *)
LEMMA RollforwardDef ==
  ASSUME NEW b \in Block, NEW old \in Block, NEW utxo \in SUBSET Outpoint
  PROVE  Rollforward[b][old][utxo] =
           IF b \in Ancestors[old] THEN utxo ELSE Connected(Rollforward[Parent[b]][old][utxo], b)
<1> DEFINE V == [Block -> [SUBSET Outpoint -> SUBSET Outpoint]]
           base == [n \in Block |-> [u \in SUBSET Outpoint |-> u]]
           step == [p \in Block \X V |->
                      [n \in Block |-> [u \in SUBSET Outpoint |->
                         IF p[1] \in Ancestors[n] THEN u ELSE Connected(p[2][n][u], p[1])]]]
           Def(f) == [c \in Block |->
                      [n \in Block |-> [u \in SUBSET Outpoint |->
                         IF c \in Ancestors[n] THEN u ELSE Connected(f[Parent[c]][n][u], c)]]]
<1>1. \A c \in Block, u \in SUBSET Outpoint : Connected(u, c) \in SUBSET Outpoint
  BY BlockAssumption DEF Connected
<1>2. step \in [Block \X V -> V] /\ base \in V
  <2>1. ASSUME NEW p \in Block \X V, NEW n \in Block, NEW u \in SUBSET Outpoint
        PROVE  Connected(p[2][n][u], p[1]) \in SUBSET Outpoint
    <3>1. p[1] \in Block /\ p[2] \in V
      OBVIOUS
    <3>2. \A x \in SUBSET Outpoint : p[2][n][x] \in SUBSET Outpoint
      BY <3>1
    <3> QED
      BY <1>1, <3>1, <3>2, Zenon
  <2>2. base \in V
    OBVIOUS
  <2> QED
    BY <2>1, <2>2
<1>3. PICK f \in [Block -> V] : IsTreeFunction(f, base, step)
  <2> HIDE DEF V, step, base
  <2> QED
    BY <1>2, HeightIsRank, TreeRecursion, Zenon
<1>4. f = Def(f)
  <2>1. \A n \in Block : Genesis \in Ancestors[n]
    BY HeightIsRank, AncestorsFacts
  <2>2. \A c \in Block \ {Genesis} : step[<<c, f[Parent[c]]>>] = Def(f)[c]
    BY <1>3, ParentAssumption
  <2>3. base = Def(f)[Genesis]
    BY <2>1, ParentAssumption
  <2> HIDE DEF base, step
  <2>4. \A c \in Block : f[c] = Def(f)[c]
    BY <1>3, <2>2, <2>3 DEF IsTreeFunction
  <2>5. f = [c \in Block |-> f[c]]
    BY <1>3
  <2> QED
    BY <2>4, <2>5
<1>5. Rollforward = Def(Rollforward)
  BY <1>4, Zenon DEF Rollforward
<1>6. Def(Rollforward)[b][old][utxo] =
        IF b \in Ancestors[old] THEN utxo ELSE Connected(Rollforward[Parent[b]][old][utxo], b)
  OBVIOUS
<1> HIDE DEF Def
<1> QED
  BY <1>5, <1>6, Zenon

-----------------------------------------------------------------------------
(* Chains of blocks and what they do to a coin.                             *)

(* A block below another one is another one.                                *)
LEMMA ParentBelow ==
  ASSUME NEW b \in Block \ {Genesis}
  PROVE  /\ Parent[b] \in Block /\ Ancestors[b] = {b} \cup Ancestors[Parent[b]]
         /\ b \notin Ancestors[Parent[b]]
<1>1. Parent[b] \in Block /\ nHeight[Parent[b]] < nHeight[b] /\ nHeight[Parent[b]] \in Nat
  BY HeightIsRank, ParentAssumption DEF IsRank
<1>2. Ancestors[b] = {b} \cup Ancestors[Parent[b]]
  BY HeightIsRank, AncestorsDef
<1>3. \A x \in Ancestors[Parent[b]] : x = Parent[b] \/ nHeight[x] < nHeight[Parent[b]]
  BY <1>1, HeightIsRank, AncestorsFacts
<1>4. nHeight[b] \in Nat /\ b # Parent[b]
  BY <1>1, HeightAssumption
<1> QED
  BY <1>1, <1>2, <1>3, <1>4

(* Only what the blocks of a chain created is in its UTXO set.              *)
LEMMA UtxoCreated ==
  ASSUME NEW b \in Block
  PROVE  \A o \in UtxoAt[b] : \E x \in Ancestors[b] : o \in Creates[x]
<1> DEFINE S == {c \in Block : \A o \in UtxoAt[c] : \E x \in Ancestors[c] : o \in Creates[x]}
<1>1. Genesis \in S
  BY UtxoAtDef, ParentAssumption
<1>2. ASSUME NEW c \in Block \ {Genesis}, Parent[c] \in S PROVE c \in S
  <2>1. UtxoAt[c] = Connected(UtxoAt[Parent[c]], c)
    BY UtxoAtDef
  <2>2. \A o \in UtxoAt[c] : o \in UtxoAt[Parent[c]] \/ o \in Creates[c]
    BY <2>1 DEF Connected
  <2>3. \A o \in UtxoAt[Parent[c]] : \E x \in Ancestors[Parent[c]] : o \in Creates[x]
    BY <1>2
  <2>4. Ancestors[c] = {c} \cup Ancestors[Parent[c]]
    BY ParentBelow
  <2> QED
    BY <2>2, <2>3, <2>4
<1>3. \A c \in Block : c \in S
  <2> HIDE DEF S
  <2> QED
    BY <1>1, <1>2, HeightIsRank, TreeInduction
<1> QED
  BY <1>3, Zenon

(* Disconnecting b leaves a coin it touched as it was below b, whatever the
   state it is applied to, and any other coin alone.                        *)
LEMMA UndoneValue ==
  ASSUME NEW b \in Block \ {Genesis}, SpendsUnspent(b), NEW utxo, NEW o
  PROVE  IF o \in Touched(b) THEN Agree(o, Undone(utxo, b), UtxoAt[Parent[b]])
                            ELSE Agree(o, Undone(utxo, b), utxo)
<1>1. o \in Creates[b] => o \notin UtxoAt[Parent[b]]
  BY UtxoCreated, ParentBelow, TxidAssumption
<1> QED
  BY <1>1 DEF SpendsUnspent, Touched, Undone, Agree

(* Connecting b, or rolling forward over it, leaves a coin it touched as it is
   at b, whatever the state it is applied to, and any other coin alone.     *)
LEMMA ConnectedValue ==
  ASSUME NEW b \in Block \ {Genesis}, NEW utxo, NEW o
  PROVE  IF o \in Touched(b) THEN Agree(o, Connected(utxo, b), UtxoAt[b])
                            ELSE Agree(o, Connected(utxo, b), utxo)
  BY UtxoAtDef DEF Touched, Connected, Agree

(* A coin that no block of b's branch touched is at b what it is at f.      *)
LEMMA Untouched ==
  ASSUME NEW b \in Block, NEW f \in Block, NEW o,
         f \in Ancestors[b], \A x \in Branch(b, f) : o \notin Touched(x)
  PROVE  Agree(o, UtxoAt[b], UtxoAt[f])
<1> DEFINE S == {c \in Block : /\ f \in Ancestors[c]
                               /\ \A x \in Branch(c, f) : o \notin Touched(x)
                               => Agree(o, UtxoAt[c], UtxoAt[f])}
<1>1. Genesis \in S
  <2>1. Ancestors[Genesis] = {Genesis}
    BY HeightIsRank, AncestorsDef
  <2> QED
    BY <2>1, ParentAssumption DEF Agree
<1>2. ASSUME NEW c \in Block \ {Genesis}, Parent[c] \in S PROVE c \in S
  <2> SUFFICES ASSUME f \in Ancestors[c], \A x \in Branch(c, f) : o \notin Touched(x)
               PROVE  Agree(o, UtxoAt[c], UtxoAt[f])
    BY Zenon
  <2>1. CASE f = c
    BY <2>1 DEF Agree
  <2>2. CASE f # c
    <3>1. /\ Parent[c] \in Block /\ Ancestors[c] = {c} \cup Ancestors[Parent[c]]
          /\ c \notin Ancestors[Parent[c]]
      BY ParentBelow
    <3>2. f \in Ancestors[Parent[c]]
      BY <2>2, <3>1
    <3>3. c \notin Ancestors[f]
      BY <3>1, <3>2, HeightIsRank, AncestorsFacts
    <3>4. c \in Branch(c, f) /\ \A x \in Branch(Parent[c], f) : x \in Branch(c, f)
      BY <3>1, <3>3 DEF Branch
    <3>5. Agree(o, UtxoAt[Parent[c]], UtxoAt[f])
      BY <1>2, <3>2, <3>4, Zenon
    <3>6. o \notin Touched(c)
      BY <3>4
    <3>7. Agree(o, UtxoAt[c], UtxoAt[Parent[c]])
      BY <3>6, ConnectedValue, UtxoAtDef
    <3> QED
      BY <3>5, <3>7 DEF Agree
  <2> QED
    BY <2>1, <2>2
<1>3. \A c \in Block : c \in S
  <2> HIDE DEF S
  <2> QED
    BY <1>1, <1>2, HeightIsRank, TreeInduction
<1> QED
  BY <1>3, Zenon

-----------------------------------------------------------------------------
(* What ReplayBlocks computes.                                              *)

(* Some block of the set touched the coin.                                  *)
TouchedIn(o, blocks) == \E x \in blocks : o \in Touched(x)

(* Rollback from b to its fork f with new's branch: a coin the branch touched
   is left as it is at f, any other alone.                                  *)
LEMMA RollbackValue ==
  ASSUME NEW b \in Block, NEW new \in Block, NEW f \in Block,
         Ancestors[f] = Ancestors[b] \cap Ancestors[new],
         \A x \in Branch(b, new) : SpendsUnspent(x),
         NEW utxo \in SUBSET Outpoint
  PROVE  /\ Rollback[b][new][utxo] \in SUBSET Outpoint
         /\ \A o \in Outpoint :
               IF TouchedIn(o, Branch(b, new))
               THEN Agree(o, Rollback[b][new][utxo], UtxoAt[f])
               ELSE Agree(o, Rollback[b][new][utxo], utxo)
<1> DEFINE Hyp(c) == /\ Ancestors[f] = Ancestors[c] \cap Ancestors[new]
                     /\ \A x \in Branch(c, new) : SpendsUnspent(x)
           Result(c, u) == /\ Rollback[c][new][u] \in SUBSET Outpoint
                           /\ \A o \in Outpoint :
                                IF TouchedIn(o, Branch(c, new))
                                THEN Agree(o, Rollback[c][new][u], UtxoAt[f])
                                ELSE Agree(o, Rollback[c][new][u], u)
           S == {c \in Block : Hyp(c) => \A u \in SUBSET Outpoint : Result(c, u)}
<1>1. ASSUME NEW c \in Ancestors[new], NEW u \in SUBSET Outpoint PROVE Result(c, u)
  <2>1. c \in Block /\ Branch(c, new) = {}
    BY HeightIsRank, AncestorsFacts DEF Branch
  <2>2. Rollback[c][new][u] = u
    BY <2>1, RollbackDef
  <2> QED
    BY <2>1, <2>2 DEF TouchedIn, Agree
<1>2. Genesis \in S
  <2>1. Genesis \in Ancestors[new]
    BY HeightIsRank, AncestorsFacts
  <2> HIDE DEF Result
  <2> QED
    BY <1>1, <2>1, ParentAssumption
<1>3. ASSUME NEW c \in Block \ {Genesis}, Parent[c] \in S PROVE c \in S
  <2> SUFFICES ASSUME Hyp(c), NEW u \in SUBSET Outpoint, c \notin Ancestors[new]
               PROVE  Result(c, u)
    BY <1>1, Zenon
  <2> DEFINE p == Parent[c]
             w == Undone(u, c)
  <2>1. /\ p \in Block /\ Ancestors[c] = {c} \cup Ancestors[p] /\ c \notin Ancestors[p]
    BY ParentBelow
  <2>2. w \in SUBSET Outpoint
    BY BlockAssumption DEF Undone
  <2>3. Branch(c, new) = {c} \cup Branch(p, new)
    BY <2>1 DEF Branch
  <2>4. Hyp(p)
    BY <2>1, <2>3
  <2>5. Rollback[c][new][u] = Rollback[p][new][w]
    BY RollbackDef
  <2> HIDE DEF p, w
  <2>6. Result(p, w)
    BY <1>3, <2>2, <2>4, Zenon DEF p
  <2>7. f \in Ancestors[p]
    BY <2>4, HeightIsRank, AncestorsFacts
  <2>8. SpendsUnspent(c)
    BY <2>3
  <2>9. ASSUME NEW o \in Outpoint, ~TouchedIn(o, Branch(p, new))
        PROVE  Agree(o, UtxoAt[p], UtxoAt[f])
    <3>1. Branch(p, f) = Branch(p, new)
      BY <2>4 DEF Branch
    <3> QED
      BY <2>1, <2>7, <2>9, <3>1, Untouched DEF TouchedIn
  <2>10. ASSUME NEW o \in Outpoint
         PROVE  IF TouchedIn(o, Branch(c, new))
                THEN Agree(o, Rollback[c][new][u], UtxoAt[f])
                ELSE Agree(o, Rollback[c][new][u], u)
    <3>1. IF TouchedIn(o, Branch(p, new))
          THEN Agree(o, Rollback[c][new][u], UtxoAt[f])
          ELSE Agree(o, Rollback[c][new][u], w)
      BY <2>5, <2>6
    <3>2. TouchedIn(o, Branch(c, new)) <=> o \in Touched(c) \/ TouchedIn(o, Branch(p, new))
      BY <2>3 DEF TouchedIn
    <3>3. IF o \in Touched(c) THEN Agree(o, w, UtxoAt[p]) ELSE Agree(o, w, u)
      BY <2>8, UndoneValue DEF w, p
    <3> QED
      BY <2>9, <3>1, <3>2, <3>3 DEF Agree
  <2> QED
    BY <2>5, <2>6, <2>10
<1>4. \A c \in Block : c \in S
  <2> HIDE DEF S
  <2> QED
    BY <1>2, <1>3, HeightIsRank, TreeInduction
<1>5. Result(b, utxo)
  BY <1>4, Zenon
<1> QED
  BY <1>5, Zenon

(* Rolling forward to b from its fork with old's branch: a coin the branch
   touched is left as it is at b, any other alone.                          *)
LEMMA RollforwardValue ==
  ASSUME NEW b \in Block, NEW old \in Block, NEW utxo \in SUBSET Outpoint
  PROVE  /\ Rollforward[b][old][utxo] \in SUBSET Outpoint
         /\ \A o \in Outpoint :
               IF TouchedIn(o, Branch(b, old))
               THEN Agree(o, Rollforward[b][old][utxo], UtxoAt[b])
               ELSE Agree(o, Rollforward[b][old][utxo], utxo)
<1> DEFINE R(c) == Rollforward[c][old][utxo]
           Result(c) == /\ R(c) \in SUBSET Outpoint
                        /\ \A o \in Outpoint :
                             IF TouchedIn(o, Branch(c, old)) THEN Agree(o, R(c), UtxoAt[c])
                                                             ELSE Agree(o, R(c), utxo)
           S == {c \in Block : Result(c)}
<1>1. ASSUME NEW c \in Ancestors[old] PROVE Result(c)
  <2>1. c \in Block /\ Branch(c, old) = {}
    BY HeightIsRank, AncestorsFacts DEF Branch
  <2>2. R(c) = utxo
    BY <2>1, RollforwardDef
  <2> QED
    BY <2>1, <2>2 DEF TouchedIn, Agree
<1>2. Genesis \in S
  <2>1. Genesis \in Ancestors[old]
    BY HeightIsRank, AncestorsFacts
  <2> HIDE DEF Result
  <2> QED
    BY <1>1, <2>1, ParentAssumption
<1>3. ASSUME NEW c \in Block \ {Genesis}, Parent[c] \in S PROVE c \in S
  <2> SUFFICES ASSUME c \notin Ancestors[old] PROVE Result(c)
    BY <1>1, Zenon
  <2> DEFINE p == Parent[c]
  <2>1. /\ p \in Block /\ Ancestors[c] = {c} \cup Ancestors[p]
    BY ParentBelow
  <2>2. Branch(c, old) = {c} \cup Branch(p, old)
    BY <2>1 DEF Branch
  <2>3. R(c) = Connected(R(p), c)
    BY RollforwardDef
  <2>4. Result(p)
    BY <1>3
  <2>5. UtxoAt[c] = Connected(UtxoAt[p], c)
    BY UtxoAtDef
  <2> HIDE DEF p, R
  <2>6. R(c) \in SUBSET Outpoint
    BY <2>3, <2>4, BlockAssumption DEF Connected
  <2>7. ASSUME NEW o \in Outpoint
        PROVE  IF TouchedIn(o, Branch(c, old)) THEN Agree(o, R(c), UtxoAt[c])
                                               ELSE Agree(o, R(c), utxo)
    <3>1. IF TouchedIn(o, Branch(p, old)) THEN Agree(o, R(p), UtxoAt[p]) ELSE Agree(o, R(p), utxo)
      BY <2>4
    <3>2. TouchedIn(o, Branch(c, old)) <=> o \in Touched(c) \/ TouchedIn(o, Branch(p, old))
      BY <2>2 DEF TouchedIn
    <3>3. IF o \in Touched(c) THEN Agree(o, R(c), UtxoAt[c]) ELSE Agree(o, R(c), R(p))
      BY <2>3, ConnectedValue
    <3>4. o \notin Touched(c) => Agree(o, UtxoAt[c], UtxoAt[p])
      BY <2>5, ConnectedValue
    <3> QED
      BY <3>1, <3>2, <3>3, <3>4 DEF Agree
  <2> QED
    BY <2>6, <2>7
<1>4. \A c \in Block : c \in S
  <2> HIDE DEF S
  <2> QED
    BY <1>2, <1>3, HeightIsRank, TreeInduction
<1>5. Result(b)
  BY <1>4, Zenon
<1> QED
  BY <1>5, Zenon

(* ReplayBlocks repairs every cut flush: if each coin of the database is in the
   old or in the new state, the rollback and the roll-forward make it the UTXO
   set of the new tip, and touch only coins of the blocks of both branches. *)
LEMMA ReplayCorrect ==
  ASSUME NEW old \in Block, NEW new \in Block, NEW utxo \in SUBSET Outpoint,
         \A x \in Branch(old, new) : SpendsUnspent(x),
         \A o \in Outpoint : Agree(o, utxo, UtxoAt[new]) \/ Agree(o, utxo, UtxoAt[old])
  PROVE  /\ Rollforward[new][old][Rollback[old][new][utxo]] = UtxoAt[new]
         /\ \A o \in Outpoint : ~TouchedIn(o, Branch(old, new) \cup Branch(new, old))
                                   => Agree(o, utxo, UtxoAt[new])
<1> DEFINE back == Rollback[old][new][utxo]
           forth == Rollforward[new][old][back]
<1>1. PICK f \in Block : Ancestors[f] = Ancestors[old] \cap Ancestors[new]
  BY HeightIsRank, LastCommonAncestor
<1>2. /\ back \in SUBSET Outpoint
      /\ \A o \in Outpoint : IF TouchedIn(o, Branch(old, new))
                              THEN Agree(o, back, UtxoAt[f]) ELSE Agree(o, back, utxo)
  BY <1>1, RollbackValue
<1> HIDE DEF back
<1>3. /\ forth \in SUBSET Outpoint
      /\ \A o \in Outpoint : IF TouchedIn(o, Branch(new, old))
                              THEN Agree(o, forth, UtxoAt[new]) ELSE Agree(o, forth, back)
  BY <1>2, RollforwardValue
<1> HIDE DEF forth
<1>4. f \in Ancestors[old] /\ f \in Ancestors[new]
  BY <1>1, HeightIsRank, AncestorsFacts
<1>5. Branch(old, f) = Branch(old, new) /\ Branch(new, f) = Branch(new, old)
  BY <1>1 DEF Branch
<1>6. ASSUME NEW o \in Outpoint, ~TouchedIn(o, Branch(new, old))
      PROVE  Agree(o, UtxoAt[new], UtxoAt[f])
  BY <1>4, <1>5, <1>6, Untouched DEF TouchedIn
<1>7. ASSUME NEW o \in Outpoint, ~TouchedIn(o, Branch(old, new))
      PROVE  Agree(o, UtxoAt[old], UtxoAt[f])
  BY <1>4, <1>5, <1>7, Untouched DEF TouchedIn
<1>8. ASSUME NEW o \in Outpoint PROVE Agree(o, forth, UtxoAt[new])
  BY <1>2, <1>3, <1>6, <1>7 DEF Agree
<1>9. forth = UtxoAt[new]
  BY <1>3, <1>8, UtxoAtDef DEF Agree
<1>10. ASSUME NEW o \in Outpoint, ~TouchedIn(o, Branch(old, new) \cup Branch(new, old))
       PROVE  Agree(o, utxo, UtxoAt[new])
  <2>1. ~TouchedIn(o, Branch(old, new)) /\ ~TouchedIn(o, Branch(new, old))
    BY <1>10 DEF TouchedIn
  <2> QED
    BY <1>6, <1>7, <2>1 DEF Agree
<1> QED
  BY <1>9, <1>10 DEF forth, back

-----------------------------------------------------------------------------
(* Facts about the parts of the invariant.                                  *)

(* The assets of a chain are those of the chain below and the block's own.  *)
LEMMA AssetsAtDef ==
  /\ AssetsAt(Genesis) = {}
  /\ \A b \in Block \ {Genesis} : AssetsAt(b) = AssetsAt(Parent[b]) \cup Issues[b]
<1>1. AssetsAt(Genesis) = {}
  BY HeightIsRank, AncestorsDef, BlockAssumption DEF AssetsAt
<1>2. ASSUME NEW b \in Block \ {Genesis} PROVE AssetsAt(b) = AssetsAt(Parent[b]) \cup Issues[b]
  BY ParentBelow DEF AssetsAt
<1> QED
  BY <1>1, <1>2

LEMMA UndoableFacts ==
  ASSUME NEW idx
  PROVE  /\ Undoable(idx, Genesis)
         /\ \A b \in Block \ {Genesis} :
               Undoable(idx, b) <=> idx[b] = "undo" /\ Undoable(idx, Parent[b])
<1>1. Undoable(idx, Genesis)
  BY HeightIsRank, AncestorsDef DEF Undoable
<1>2. ASSUME NEW b \in Block \ {Genesis}
      PROVE  Undoable(idx, b) <=> idx[b] = "undo" /\ Undoable(idx, Parent[b])
  BY ParentBelow DEF Undoable
<1> QED
  BY <1>1, <1>2

(* What is on record stays on record in an index that forgets no undo data. *)
LEMMA UndoableKept ==
  ASSUME NEW idx, NEW idy, NEW b \in Block, Undoable(idx, b),
         \A x \in Block : idx[x] = "undo" => idy[x] = "undo"
  PROVE  Undoable(idy, b)
<1>1. Ancestors[b] \subseteq Block
  BY HeightIsRank, AncestorsDef
<1> QED
  BY <1>1 DEF Undoable

LEMMA HeadsFacts ==
  ASSUME TypeOK
  PROVE  /\ BestBlock \in Block
         /\ heads # <<>> => /\ heads[1] \in Block /\ OldHead \in Block /\ best = Null
                            /\ heads[2] \in Block \cup {Null} /\ heads = <<heads[1], heads[2]>>
  BY ParentAssumption DEF TypeOK, BestBlock, OldHead

-----------------------------------------------------------------------------
LEMMA InitIInv == Init => IInv
<1> SUFFICES ASSUME Init PROVE IInv
  OBVIOUS
<1>1. TypeOK
  <2>1. /\ index \in [Block -> {"none", "data", "undo"}]
        /\ indexDB \in [Block -> {"none", "data", "undo"}]
    BY DEF Init
  <2>2. crashes \in 0..MaxCrashes
    BY BlockAssumption DEF Init
  <2>3. torn \in BOOLEAN
    BY Zenon DEF Init
  <2> QED
    BY <2>1, <2>2, <2>3, ParentAssumption DEF Init, TypeOK
<1>2. PhaseInv
  BY DEF Init, PhaseInv
<1>3. BestBlock = Genesis /\ tip = Genesis
  BY DEF Init, BestBlock
<1>4. IndexInv
  <2>1. \A b \in Block : index[b] # "undo" /\ indexDB[b] # "undo"
    BY DEF Init
  <2>2. Undoable(index, Genesis) /\ Undoable(indexDB, Genesis)
    BY UndoableFacts
  <2>3. heads = <<>> /\ pc = "run"
    BY DEF Init
  <2> QED
    BY <1>3, <2>1, <2>2, <2>3 DEF IndexInv
<1>5. CoinsInv
  BY <1>3, UtxoAtDef DEF Init, CoinsInv, Agree
<1>6. AssetsInv
  <2>1. Assets = {} /\ assetsDB = {} /\ assetsAdd = {}
    BY DEF Init, Assets
  <2>2. \A b \in Block : index[b] # "undo" /\ indexDB[b] # "undo"
    BY DEF Init
  <2> QED
    BY <1>3, <2>1, <2>2, AssetsAtDef DEF AssetsInv
<1> QED
  BY <1>1, <1>2, <1>4, <1>5, <1>6 DEF IInv

LEMMA AcceptBlockStep ==
  ASSUME IInv, NEW b \in Block, AcceptBlock(b)
  PROVE  IInv'
<1>1. /\ pc = "run" /\ b # Genesis /\ index[b] = "none"
      /\ index' = [index EXCEPT ![b] = "data"]
      /\ pc' = pc /\ tip' = tip /\ coins' = coins /\ pending' = pending
      /\ assetsAdd' = assetsAdd /\ assetsDel' = assetsDel /\ indexDB' = indexDB
      /\ coinsDB' = coinsDB /\ best' = best /\ heads' = heads /\ assetsDB' = assetsDB
      /\ crashes' = crashes /\ torn' = torn
  BY DEF AcceptBlock, disk
<1>2. index \in [Block -> {"none", "data", "undo"}] /\ tip \in Block
  BY DEF IInv, TypeOK
<1>3. \A x \in Block : index'[x] = "undo" <=> index[x] = "undo"
  BY <1>1, <1>2
<1>4. TypeOK'
  BY <1>1 DEF IInv, TypeOK
<1>5. PhaseInv'
  BY <1>1 DEF IInv, PhaseInv
<1>6. IndexInv'
  <2>1. Undoable(index, tip) => Undoable(index', tip)
    BY <1>2, <1>3, UndoableKept
  <2>2. BestBlock' = BestBlock /\ OldHead' = OldHead /\ Running' = Running
    BY <1>1 DEF BestBlock, OldHead, Running
  <2> QED
    BY <1>1, <1>3, <2>1, <2>2 DEF IInv, IndexInv, Undoable
<1>7. CoinsInv'
  BY <1>1 DEF IInv, CoinsInv, Running, BestBlock, OldHead
<1>8. AssetsInv'
  <2>1. Assets' = Assets /\ BestBlock' = BestBlock /\ Running' = Running
    BY <1>1 DEF Assets, BestBlock, Running
  <2> QED
    BY <1>1, <1>3, <2>1 DEF IInv, AssetsInv
<1> QED
  BY <1>4, <1>5, <1>6, <1>7, <1>8 DEF IInv

LEMMA ConnectTipStep ==
  ASSUME IInv, NEW b \in Block, ConnectTip(b)
  PROVE  IInv'
<1>1. /\ pc = "run" /\ b # Genesis /\ Parent[b] = tip
      /\ Spends[b] \subseteq coins \cup Creates[b] /\ Issues[b] \cap Assets = {}
      /\ tip' = b /\ index' = [index EXCEPT ![b] = "undo"]
      /\ coins' = Connected(coins, b) /\ pending' = pending \cup Touched(b)
      /\ assetsAdd' = assetsAdd \cup Issues[b] /\ assetsDel' = assetsDel \ Issues[b]
      /\ pc' = pc /\ indexDB' = indexDB /\ coinsDB' = coinsDB /\ best' = best
      /\ heads' = heads /\ assetsDB' = assetsDB /\ crashes' = crashes /\ torn' = torn
  BY DEF ConnectTip, disk
<1>2. /\ index \in [Block -> {"none", "data", "undo"}] /\ tip \in Block
      /\ heads = <<>> /\ Running /\ Running'
  BY <1>1 DEF IInv, TypeOK, PhaseInv, Running
<1>3. \A x \in Block : index'[x] = "undo" <=> index[x] = "undo" \/ x = b
  BY <1>1, <1>2
<1>4. coins = UtxoAt[tip]
  BY <1>2 DEF IInv, CoinsInv
<1>5. TypeOK'
  <2>1. /\ coins' \subseteq Outpoint /\ pending' \subseteq Outpoint
        /\ assetsAdd' \subseteq Asset /\ assetsDel' \subseteq Asset
    BY <1>1, BlockAssumption DEF IInv, TypeOK, Connected, Touched
  <2> QED
    BY <1>1, <1>2, <2>1 DEF IInv, TypeOK
<1>6. PhaseInv'
  BY <1>1, <1>2 DEF IInv, PhaseInv
<1>7. IndexInv'
  <2>1. Undoable(index', tip')
    <3>1. Undoable(index, tip)
      BY <1>2 DEF IInv, IndexInv
    <3>2. Undoable(index', tip)
      BY <1>2, <1>3, <3>1, UndoableKept
    <3> QED
      BY <1>1, <1>3, <3>2, UndoableFacts
  <2>2. SpendsUnspent(b)
    BY <1>1, <1>4 DEF SpendsUnspent
  <2>3. BestBlock' = BestBlock
    BY <1>1 DEF BestBlock
  <2> QED
    BY <1>1, <1>2, <1>3, <2>1, <2>2, <2>3 DEF IInv, IndexInv, Undoable
<1>8. CoinsInv'
  <2>1. coins' = UtxoAt[tip']
    BY <1>1, <1>4, UtxoAtDef
  <2>2. \A o \in Outpoint \ pending' : Agree(o, coins', coinsDB')
    <3>1. \A o \in Outpoint \ pending : Agree(o, coins, coinsDB)
      BY <1>2 DEF IInv, CoinsInv
    <3>2. \A o : o \notin Touched(b) => Agree(o, coins', coins)
      BY <1>1, ConnectedValue
    <3> QED
      BY <1>1, <3>1, <3>2 DEF Agree
  <2>3. coinsDB' = UtxoAt[BestBlock'] /\ heads' = <<>>
    BY <1>1, <1>2 DEF IInv, CoinsInv, BestBlock
  <2> QED
    BY <2>1, <2>2, <2>3 DEF CoinsInv
<1>9. AssetsInv'
  <2>1. assetsAdd' \cap assetsDel' = {}
    BY <1>1, <1>2 DEF IInv, AssetsInv
  <2>2. Assets' = Assets \cup Issues[b]
    BY <1>1 DEF Assets
  <2>3. ASSUME ~torn PROVE Assets = AssetsAt(tip)
    BY <1>2, <2>3 DEF IInv, AssetsInv
  <2>4. ASSUME ~torn PROVE Assets' = AssetsAt(tip') /\ IssuesNew(b)
    BY <1>1, <2>2, <2>3, <2>4, AssetsAtDef DEF IssuesNew
  <2>5. BestBlock' = BestBlock
    BY <1>1 DEF BestBlock
  <2> QED
    BY <1>1, <1>2, <1>3, <2>1, <2>4, <2>5 DEF IInv, AssetsInv
<1> QED
  BY <1>5, <1>6, <1>7, <1>8, <1>9 DEF IInv

LEMMA DisconnectTipStep ==
  ASSUME IInv, DisconnectTip
  PROVE  IInv'
<1>1. /\ pc = "run" /\ tip # Genesis /\ index[tip] = "undo"
      /\ tip' = Parent[tip] /\ index' = index
      /\ coins' = Undone(coins, tip) /\ pending' = pending \cup Touched(tip)
      /\ assetsAdd' = assetsAdd \ Issues[tip] /\ assetsDel' = assetsDel \cup Issues[tip]
      /\ pc' = pc /\ indexDB' = indexDB /\ coinsDB' = coinsDB /\ best' = best
      /\ heads' = heads /\ assetsDB' = assetsDB /\ crashes' = crashes /\ torn' = torn
  BY DEF DisconnectTip, disk
<1>2. /\ tip \in Block \ {Genesis} /\ tip' \in Block
      /\ heads = <<>> /\ Running /\ Running'
  BY <1>1, ParentAssumption DEF IInv, TypeOK, PhaseInv, Running
<1>3. coins = UtxoAt[tip] /\ SpendsUnspent(tip)
  BY <1>1, <1>2 DEF IInv, CoinsInv, IndexInv
<1>4. TypeOK'
  <2>1. /\ coins' \subseteq Outpoint /\ pending' \subseteq Outpoint
        /\ assetsAdd' \subseteq Asset /\ assetsDel' \subseteq Asset
    BY <1>1, <1>2, BlockAssumption DEF IInv, TypeOK, Undone, Touched
  <2> QED
    BY <1>1, <1>2, <2>1 DEF IInv, TypeOK
<1>5. PhaseInv'
  BY <1>1, <1>2 DEF IInv, PhaseInv
<1>6. IndexInv'
  <2>1. Undoable(index', tip')
    BY <1>1, <1>2, UndoableFacts DEF IInv, IndexInv
  <2>2. BestBlock' = BestBlock
    BY <1>1 DEF BestBlock
  <2> QED
    BY <1>1, <1>2, <2>1, <2>2 DEF IInv, IndexInv, Undoable
<1>7. CoinsInv'
  <2>1. \A o : IF o \in Touched(tip) THEN Agree(o, coins', UtxoAt[tip'])
                                     ELSE Agree(o, coins', coins)
    BY <1>1, <1>2, <1>3, UndoneValue
  <2>2. \A o : o \notin Touched(tip) => Agree(o, UtxoAt[tip], UtxoAt[tip'])
    BY <1>1, <1>2, ConnectedValue, UtxoAtDef
  <2>3. coins' = UtxoAt[tip']
    BY <1>3, <2>1, <2>2 DEF Agree
  <2>4. \A o \in Outpoint \ pending' : Agree(o, coins', coinsDB')
    <3>1. \A o \in Outpoint \ pending : Agree(o, coins, coinsDB)
      BY <1>2 DEF IInv, CoinsInv
    <3> QED
      BY <1>1, <2>1, <3>1 DEF Agree
  <2>5. coinsDB' = UtxoAt[BestBlock'] /\ heads' = <<>>
    BY <1>1, <1>2 DEF IInv, CoinsInv, BestBlock
  <2> QED
    BY <2>3, <2>4, <2>5 DEF CoinsInv
<1>8. AssetsInv'
  <2>1. assetsAdd' \cap assetsDel' = {}
    BY <1>1, <1>2 DEF IInv, AssetsInv
  <2>2. Assets' = Assets \ Issues[tip]
    BY <1>1 DEF Assets
  <2>3. ASSUME ~torn PROVE Assets = AssetsAt(tip) /\ IssuesNew(tip)
    BY <1>1, <1>2, <2>3 DEF IInv, AssetsInv
  <2>4. ASSUME ~torn PROVE Assets' = AssetsAt(tip')
    BY <1>1, <1>2, <2>2, <2>3, <2>4, AssetsAtDef DEF IssuesNew
  <2>5. BestBlock' = BestBlock
    BY <1>1 DEF BestBlock
  <2> QED
    BY <1>1, <1>2, <2>1, <2>4, <2>5 DEF IInv, AssetsInv
<1> QED
  BY <1>4, <1>5, <1>6, <1>7, <1>8 DEF IInv

LEMMA WriteBlockIndexStep ==
  ASSUME IInv, WriteBlockIndex
  PROVE  IInv'
<1>1. /\ pc = "run" /\ indexDB' = index /\ pc' \in {"run", "coins"}
      /\ tip' = tip /\ index' = index /\ coins' = coins /\ pending' = pending
      /\ assetsAdd' = assetsAdd /\ assetsDel' = assetsDel
      /\ coinsDB' = coinsDB /\ best' = best /\ heads' = heads /\ assetsDB' = assetsDB
      /\ crashes' = crashes /\ torn' = torn
  BY DEF WriteBlockIndex, mem
<1>2. /\ tip \in Block /\ heads = <<>> /\ Running /\ Running'
      /\ BestBlock' = BestBlock /\ BestBlock \in Block
  BY <1>1, HeadsFacts DEF IInv, TypeOK, PhaseInv, Running, BestBlock
<1>3. TypeOK'
  BY <1>1 DEF IInv, TypeOK
<1>4. PhaseInv'
  BY <1>1, <1>2 DEF IInv, PhaseInv
<1>5. IndexInv'
  <2>1. Undoable(index, BestBlock)
    BY <1>2, UndoableKept DEF IInv, IndexInv
  <2> QED
    BY <1>1, <1>2, <2>1 DEF IInv, IndexInv
<1>6. CoinsInv'
  BY <1>1, <1>2 DEF IInv, CoinsInv
<1>7. AssetsInv'
  <2>1. Assets' = Assets
    BY <1>1 DEF Assets
  <2> QED
    BY <1>1, <1>2, <2>1 DEF IInv, AssetsInv
<1> QED
  BY <1>3, <1>4, <1>5, <1>6, <1>7 DEF IInv

(* A coin that is written has its value in memory, any other its old one.   *)
LEMMA StoredValue ==
  ASSUME NEW S, NEW o
  PROVE  IF o \in S THEN Agree(o, Stored(S), coins) ELSE Agree(o, Stored(S), coinsDB)
  BY DEF Stored, Agree

LEMMA PartialBatchStep ==
  ASSUME IInv, PartialBatch
  PROVE  IInv'
<1>1. /\ pc \in {"coins", "replay"}
      /\ heads' = <<tip, OldTip>> /\ best' = Null
      /\ pc' = pc /\ tip' = tip /\ index' = index /\ coins' = coins
      /\ assetsAdd' = assetsAdd /\ assetsDel' = assetsDel /\ indexDB' = indexDB
      /\ assetsDB' = assetsDB /\ crashes' = crashes /\ torn' = torn
  BY DEF PartialBatch
<1>2. PICK S \in SUBSET pending \ {{}} : coinsDB' = Stored(S) /\ pending' = pending \ S
  BY DEF PartialBatch
<1>3. /\ tip \in Block /\ Running /\ Running' /\ OldTip \in Block \cup {Null}
      /\ coins \subseteq Outpoint /\ coinsDB \subseteq Outpoint /\ pending \subseteq Outpoint
  BY <1>1, HeadsFacts DEF IInv, TypeOK, Running, OldTip
<1>4. /\ heads' # <<>> /\ heads'[1] = tip /\ heads'[2] = OldTip
      /\ BestBlock' = Genesis /\ OldHead' = (IF OldTip = Null THEN Genesis ELSE OldTip)
  BY <1>1 DEF BestBlock, OldHead
<1>5. OldHead' = IF heads = <<>> THEN BestBlock ELSE OldHead
  BY <1>4, HeadsFacts DEF IInv, TypeOK, OldTip, BestBlock, OldHead
<1>6. OldHead' \in Block /\ Undoable(indexDB, OldHead')
  BY <1>5, HeadsFacts DEF IInv, IndexInv
<1>7. TypeOK'
  <2>1. coinsDB' \subseteq Outpoint /\ pending' \subseteq Outpoint
    BY <1>2, <1>3 DEF Stored
  <2>2. heads' \in Block \X (Block \cup {Null})
    BY <1>1, <1>3
  <2> QED
    BY <1>1, <1>3, <2>1, <2>2 DEF IInv, TypeOK
<1>8. PhaseInv'
  BY <1>1, <1>4 DEF IInv, PhaseInv
<1>9. IndexInv'
  <2>1. Undoable(indexDB, tip) /\ Undoable(indexDB, Genesis)
    BY <1>1, UndoableFacts DEF IInv, IndexInv
  <2> QED
    BY <1>1, <1>3, <1>4, <1>6, <2>1 DEF IInv, IndexInv
<1>10. CoinsInv'
  <2>1. coins = UtxoAt[tip] /\ \A o \in Outpoint \ pending : Agree(o, coins, coinsDB)
    BY <1>3 DEF IInv, CoinsInv
  <2>2. ASSUME NEW o \in Outpoint
        PROVE  Agree(o, coinsDB, UtxoAt[tip]) \/ Agree(o, coinsDB, UtxoAt[OldHead'])
    <3>1. CASE heads = <<>>
      BY <1>5, <3>1 DEF IInv, CoinsInv, Agree
    <3>2. CASE heads # <<>>
      BY <1>1, <1>5, <3>2 DEF IInv, CoinsInv, PhaseInv
    <3> QED
      BY <3>1, <3>2
  <2>3. ASSUME NEW o \in Outpoint
        PROVE  IF o \in S THEN Agree(o, coinsDB', coins) ELSE Agree(o, coinsDB', coinsDB)
    BY <1>2, StoredValue
  <2>4. \A o \in Outpoint \ pending' : Agree(o, coins', coinsDB')
    BY <1>1, <1>2, <2>1, <2>3 DEF Agree
  <2>5. \A o \in Outpoint : \/ Agree(o, coinsDB', UtxoAt[tip])
                            \/ Agree(o, coinsDB', UtxoAt[OldHead'])
    BY <2>1, <2>2, <2>3 DEF Agree
  <2> QED
    BY <1>1, <1>4, <2>1, <2>4, <2>5 DEF CoinsInv
<1>11. AssetsInv'
  <2>1. Assets' = Assets
    BY <1>1 DEF Assets
  <2> QED
    BY <1>1, <1>3, <1>4, <2>1 DEF IInv, AssetsInv
<1> QED
  BY <1>7, <1>8, <1>9, <1>10, <1>11 DEF IInv

LEMMA FinalBatchStep ==
  ASSUME IInv, FinalBatch
  PROVE  IInv'
<1>1. /\ pc \in {"coins", "replay"} /\ coinsDB' = Stored(pending) /\ pending' = {}
      /\ heads' = <<>> /\ best' = tip /\ pc' = (IF pc = "coins" THEN "assets" ELSE "run")
      /\ tip' = tip /\ index' = index /\ coins' = coins
      /\ assetsAdd' = assetsAdd /\ assetsDel' = assetsDel /\ indexDB' = indexDB
      /\ assetsDB' = assetsDB /\ crashes' = crashes /\ torn' = torn
  BY DEF FinalBatch
<1>2. /\ tip \in Block /\ tip # Null /\ Running /\ Running' /\ BestBlock' = tip
      /\ coins \subseteq Outpoint /\ coinsDB \subseteq Outpoint /\ pending \subseteq Outpoint
  BY <1>1, BlockAssumption DEF IInv, TypeOK, Running, BestBlock
<1>3. coins = UtxoAt[tip] /\ \A o \in Outpoint \ pending : Agree(o, coins, coinsDB)
  BY <1>2 DEF IInv, CoinsInv
<1>4. coinsDB' = coins
  BY <1>1, <1>2, <1>3 DEF Stored, Agree
<1>5. TypeOK'
  BY <1>1, <1>2, <1>4 DEF IInv, TypeOK
<1>6. PhaseInv'
  BY <1>1 DEF IInv, PhaseInv
<1>7. IndexInv'
  BY <1>1, <1>2 DEF IInv, IndexInv
<1>8. CoinsInv'
  BY <1>1, <1>2, <1>3, <1>4 DEF CoinsInv, Agree
<1>9. AssetsInv'
  <2>1. Assets' = Assets
    BY <1>1 DEF Assets
  <2>2. ~torn => pc' = "assets"
    BY <1>1 DEF IInv, PhaseInv
  <2> QED
    BY <1>1, <1>2, <2>1, <2>2 DEF IInv, AssetsInv
<1> QED
  BY <1>5, <1>6, <1>7, <1>8, <1>9 DEF IInv

(* A step of the asset dump leaves what a look-up finds.                    *)
LEMMA DumpStep ==
  ASSUME IInv, pc = "assets", pc' = "assets",
         mem' = mem, indexDB' = indexDB, coinsDB' = coinsDB, best' = best, heads' = heads,
         crashes' = crashes, torn' = torn,
         assetsDB' \subseteq Asset, Assets' = Assets
  PROVE  IInv'
<1>1. /\ tip' = tip /\ index' = index /\ coins' = coins /\ pending' = pending
      /\ assetsAdd' = assetsAdd /\ assetsDel' = assetsDel
  BY DEF mem
<1>2. Running /\ Running' /\ BestBlock' = BestBlock /\ OldHead' = OldHead
  BY DEF Running, BestBlock, OldHead
<1>3. TypeOK'
  BY <1>1 DEF IInv, TypeOK
<1>4. PhaseInv'
  BY <1>1 DEF IInv, PhaseInv
<1>5. IndexInv'
  BY <1>1, <1>2 DEF IInv, IndexInv
<1>6. CoinsInv'
  BY <1>1, <1>2 DEF IInv, CoinsInv
<1>7. AssetsInv'
  BY <1>1, <1>2 DEF IInv, AssetsInv
<1> QED
  BY <1>3, <1>4, <1>5, <1>6, <1>7 DEF IInv

LEMMA DumpEraseStep ==
  ASSUME IInv, NEW a \in Asset, DumpErase(a)
  PROVE  IInv'
<1>1. assetsDB' \subseteq Asset /\ Assets' = Assets
  BY DEF IInv, TypeOK, DumpErase, mem, Assets
<1> QED
  BY <1>1, DumpStep DEF DumpErase

LEMMA DumpWriteStep ==
  ASSUME IInv, NEW a \in Asset, DumpWrite(a)
  PROVE  IInv'
<1>1. assetsDB' \subseteq Asset /\ Assets' = Assets
  BY DEF IInv, TypeOK, DumpWrite, mem, Assets
<1> QED
  BY <1>1, DumpStep DEF DumpWrite

LEMMA DumpDoneStep ==
  ASSUME IInv, DumpDone
  PROVE  IInv'
<1>1. /\ pc = "assets" /\ assetsDel \cap assetsDB = {} /\ assetsAdd \subseteq assetsDB
      /\ assetsAdd' = {} /\ assetsDel' = {} /\ pc' = "run"
      /\ tip' = tip /\ index' = index /\ coins' = coins /\ pending' = pending
      /\ indexDB' = indexDB /\ coinsDB' = coinsDB /\ best' = best /\ heads' = heads
      /\ assetsDB' = assetsDB /\ crashes' = crashes /\ torn' = torn
  BY DEF DumpDone, disk
<1>2. /\ tip \in Block /\ tip # Null /\ best = tip
      /\ Running /\ Running' /\ BestBlock' = tip /\ BestBlock = tip
  BY <1>1, BlockAssumption DEF IInv, TypeOK, PhaseInv, Running, BestBlock
<1>3. TypeOK'
  BY <1>1 DEF IInv, TypeOK
<1>4. PhaseInv'
  BY <1>1 DEF IInv, PhaseInv
<1>5. IndexInv'
  BY <1>1, <1>2, <1>4 DEF IInv, IndexInv, PhaseInv
<1>6. CoinsInv'
  BY <1>1, <1>2, <1>4 DEF IInv, CoinsInv, PhaseInv
<1>7. AssetsInv'
  <2>1. Assets' = Assets /\ Assets' = assetsDB
    BY <1>1 DEF Assets
  <2> QED
    BY <1>1, <1>2, <2>1 DEF IInv, AssetsInv
<1> QED
  BY <1>3, <1>4, <1>5, <1>6, <1>7 DEF IInv

LEMMA CrashStep ==
  ASSUME IInv, Crash
  PROVE  IInv'
<1>1. /\ crashes < MaxCrashes /\ pc' = "down" /\ crashes' = crashes + 1
      /\ tip' = tip /\ index' = index /\ coins' = coins /\ pending' = pending
      /\ assetsAdd' = assetsAdd /\ assetsDel' = assetsDel
      /\ indexDB' = indexDB /\ coinsDB' = coinsDB /\ best' = best /\ heads' = heads
      /\ assetsDB' = assetsDB
  BY DEF Crash, mem, disk
<1>2. torn' \in BOOLEAN
  BY Zenon DEF Crash
<1>3. ~torn' => ~torn /\ heads = <<>> /\ pc # "assets"
  BY Zenon DEF Crash
<1>4. ~Running' /\ BestBlock' = BestBlock /\ OldHead' = OldHead
  BY <1>1 DEF Running, BestBlock, OldHead
<1>5. TypeOK'
  <2>1. crashes' \in 0..MaxCrashes
    BY <1>1, BlockAssumption DEF IInv, TypeOK
  <2> QED
    BY <1>1, <1>2, <2>1 DEF IInv, TypeOK
<1>6. PhaseInv'
  BY <1>1, <1>3 DEF IInv, PhaseInv
<1>7. IndexInv'
  BY <1>1, <1>4 DEF IInv, IndexInv
<1>8. CoinsInv'
  BY <1>1, <1>4 DEF IInv, CoinsInv
<1>9. AssetsInv'
  BY <1>1, <1>3, <1>4 DEF IInv, AssetsInv
<1> QED
  BY <1>5, <1>6, <1>7, <1>8, <1>9 DEF IInv

(* Start-up adds at most the genesis block to the index it loads.           *)
LEMMA LoadedIndexFacts ==
  ASSUME TypeOK
  PROVE  /\ LoadedIndex \in [Block -> {"none", "data", "undo"}]
         /\ LoadedIndex[Genesis] # "none"
         /\ \A b \in Block \ {Genesis} : LoadedIndex[b] = indexDB[b]
         /\ \A b \in Block : LoadedIndex[b] = "undo" <=> indexDB[b] = "undo"
         /\ \A b \in Block : Undoable(indexDB, b) =>
               Undoable(LoadedIndex, b) /\ \A x \in Ancestors[b] : LoadedIndex[x] # "none"
<1>1. /\ LoadedIndex \in [Block -> {"none", "data", "undo"}]
      /\ LoadedIndex[Genesis] # "none"
      /\ \A b \in Block \ {Genesis} : LoadedIndex[b] = indexDB[b]
      /\ \A b \in Block : LoadedIndex[b] = "undo" <=> indexDB[b] = "undo"
  BY ParentAssumption DEF TypeOK, LoadedIndex
<1>2. ASSUME NEW b \in Block, Undoable(indexDB, b)
      PROVE  Undoable(LoadedIndex, b) /\ \A x \in Ancestors[b] : LoadedIndex[x] # "none"
  <2>1. Undoable(LoadedIndex, b)
    BY <1>1, <1>2, UndoableKept
  <2> QED
    BY <1>1, <2>1 DEF Undoable
<1> QED
  BY <1>1, <1>2

LEMMA RestartStep ==
  ASSUME IInv, Restart
  PROVE  IInv'
<1>1. /\ pc = "down" /\ heads = <<>> /\ index' = LoadedIndex
      /\ coins' = coinsDB /\ pending' = {} /\ assetsAdd' = {} /\ assetsDel' = {}
      /\ indexDB' = indexDB /\ coinsDB' = coinsDB /\ best' = best /\ heads' = heads
      /\ assetsDB' = assetsDB /\ crashes' = crashes /\ torn' = torn
  BY DEF Restart, disk
<1>2. BestBlock \in Block /\ Undoable(indexDB, BestBlock)
  BY HeadsFacts DEF IInv, IndexInv
<1>3. BestBlock \in Ancestors[BestBlock]
  BY <1>2, HeightIsRank, AncestorsFacts
<1>4. Undoable(LoadedIndex, BestBlock) /\ LoadedIndex[BestBlock] # "none"
  BY <1>2, <1>3, LoadedIndexFacts DEF IInv
<1>5. pc' = "run" /\ tip' = BestBlock
  BY <1>1, <1>4 DEF Restart, BestBlock
<1>6. Running' /\ BestBlock' = BestBlock
  BY <1>1, <1>5 DEF Running, BestBlock
<1>7. TypeOK'
  BY <1>1, <1>2, <1>5, LoadedIndexFacts DEF IInv, TypeOK
<1>8. PhaseInv'
  BY <1>1, <1>5 DEF PhaseInv
<1>9. IndexInv'
  <2>1. \A b \in Block : index'[b] = "undo" <=> indexDB[b] = "undo"
    BY <1>1, LoadedIndexFacts DEF IInv
  <2> QED
    BY <1>1, <1>2, <1>4, <1>5, <1>6, <2>1 DEF IInv, IndexInv
<1>10. CoinsInv'
  BY <1>1, <1>5, <1>6 DEF IInv, CoinsInv, Agree
<1>11. AssetsInv'
  <2>1. Assets' = assetsDB
    BY <1>1 DEF Assets
  <2>2. \A b \in Block : index'[b] = "undo" <=> indexDB[b] = "undo"
    BY <1>1, LoadedIndexFacts DEF IInv
  <2> QED
    BY <1>1, <1>5, <1>6, <2>1, <2>2 DEF IInv, AssetsInv
<1> QED
  BY <1>7, <1>8, <1>9, <1>10, <1>11 DEF IInv

LEMMA RestartReplayStep ==
  ASSUME IInv, RestartReplay
  PROVE  IInv'
<1> DEFINE new == heads[1]
           down == Branch(OldHead, new)
           up == Branch(new, OldHead)
<1>1. /\ pc = "down" /\ heads # <<>> /\ index' = LoadedIndex
      /\ indexDB' = indexDB /\ coinsDB' = coinsDB /\ best' = best /\ heads' = heads
      /\ assetsDB' = assetsDB /\ crashes' = crashes /\ torn' = torn
  BY DEF RestartReplay, disk
<1>2. /\ new \in Block /\ OldHead \in Block /\ best = Null /\ torn
      /\ Undoable(indexDB, new) /\ Undoable(indexDB, OldHead)
  BY <1>1, HeadsFacts DEF IInv, IndexInv, PhaseInv
<1>3. /\ Genesis \in Ancestors[new] /\ new \in Ancestors[new] /\ OldHead \in Ancestors[OldHead]
      /\ Ancestors[new] \subseteq Block /\ Ancestors[OldHead] \subseteq Block
  BY <1>2, HeightIsRank, AncestorsFacts, AncestorsDef
<1>4. /\ Undoable(LoadedIndex, new) /\ Undoable(LoadedIndex, OldHead)
      /\ \A x \in Ancestors[new] \cup Ancestors[OldHead] : LoadedIndex[x] # "none"
  BY <1>2, LoadedIndexFacts DEF IInv
<1>5. /\ LoadedIndex[new] # "none" /\ LoadedIndex[OldHead] # "none"
      /\ \A x \in down : x \in Block \ {Genesis} /\ indexDB[x] = "undo" /\ LoadedIndex[x] = "undo"
      /\ \A x \in up : LoadedIndex[x] # "none"
  BY <1>2, <1>3, <1>4 DEF Branch, Undoable
<1>6. /\ pc' = "replay" /\ tip' = new
      /\ coins' = Rollforward[new][OldHead][Rollback[OldHead][new][coinsDB]]
      /\ pending' = UNION {Touched(x) : x \in down \cup up}
      /\ assetsAdd' = {} /\ assetsDel' = assetsDB \cap UNION {Issues[x] : x \in down}
  BY <1>1, <1>5 DEF RestartReplay, OldHead, ReplayedTip, RolledBack
<1>7. /\ coins' = UtxoAt[new]
      /\ \A o \in Outpoint \ pending' : Agree(o, coins', coinsDB)
  <2>1. \A x \in down : SpendsUnspent(x)
    BY <1>5 DEF IInv, IndexInv
  <2>2. \A o \in Outpoint : Agree(o, coinsDB, UtxoAt[new]) \/ Agree(o, coinsDB, UtxoAt[OldHead])
    BY <1>1 DEF IInv, CoinsInv
  <2>3. coinsDB \in SUBSET Outpoint
    BY DEF IInv, TypeOK
  <2>4. /\ Rollforward[new][OldHead][Rollback[OldHead][new][coinsDB]] = UtxoAt[new]
        /\ \A o \in Outpoint : ~TouchedIn(o, down \cup up) => Agree(o, coinsDB, UtxoAt[new])
    BY <1>2, <2>1, <2>2, <2>3, ReplayCorrect
  <2>5. \A o \in Outpoint \ pending' : ~TouchedIn(o, down \cup up)
    BY <1>6 DEF TouchedIn
  <2> QED
    BY <1>6, <2>4, <2>5 DEF Agree
<1>8. Running' /\ BestBlock' = BestBlock /\ OldHead' = OldHead
  BY <1>1, <1>6 DEF Running, BestBlock, OldHead
<1>9. TypeOK'
  <2>1. coins' \subseteq Outpoint
    BY <1>2, <1>7, UtxoAtDef
  <2>2. pending' \subseteq Outpoint
    BY <1>3, <1>6, BlockAssumption DEF Branch, Touched
  <2>3. assetsAdd' \subseteq Asset /\ assetsDel' \subseteq Asset
    BY <1>6 DEF IInv, TypeOK
  <2> QED
    BY <1>1, <1>2, <1>6, <2>1, <2>2, <2>3, LoadedIndexFacts DEF IInv, TypeOK
<1>10. PhaseInv'
  BY <1>1, <1>2, <1>6 DEF PhaseInv
<1>11. IndexInv'
  <2>1. \A b \in Block : index'[b] = "undo" <=> indexDB[b] = "undo"
    BY <1>1, LoadedIndexFacts DEF IInv
  <2> QED
    BY <1>1, <1>2, <1>4, <1>6, <1>8, <2>1 DEF IInv, IndexInv
<1>12. CoinsInv'
  BY <1>1, <1>6, <1>7, <1>8 DEF IInv, CoinsInv
<1>13. AssetsInv'
  BY <1>1, <1>2, <1>6 DEF AssetsInv
<1> QED
  BY <1>9, <1>10, <1>11, <1>12, <1>13 DEF IInv

LEMMA UnchangedStep ==
  ASSUME IInv, UNCHANGED vars
  PROVE  IInv'
<1>1. /\ pc' = pc /\ tip' = tip /\ index' = index /\ coins' = coins /\ pending' = pending
      /\ assetsAdd' = assetsAdd /\ assetsDel' = assetsDel /\ indexDB' = indexDB
      /\ coinsDB' = coinsDB /\ best' = best /\ heads' = heads /\ assetsDB' = assetsDB
      /\ crashes' = crashes /\ torn' = torn
  BY DEF vars, mem, disk
<1>2. TypeOK' /\ PhaseInv'
  BY <1>1 DEF IInv, TypeOK, PhaseInv
<1>3. Running' = Running /\ BestBlock' = BestBlock /\ OldHead' = OldHead /\ Assets' = Assets
  BY <1>1 DEF Running, BestBlock, OldHead, Assets
<1>4. IndexInv' /\ CoinsInv' /\ AssetsInv'
  BY <1>1, <1>3 DEF IInv, IndexInv, CoinsInv, AssetsInv
<1> QED
  BY <1>2, <1>4 DEF IInv

LEMMA IInvStep == IInv /\ [Next]_vars => IInv'
<1> SUFFICES ASSUME IInv, [Next]_vars PROVE IInv'
  OBVIOUS
<1>1. CASE \E b \in Block : AcceptBlock(b) \/ ConnectTip(b)
  BY <1>1, AcceptBlockStep, ConnectTipStep
<1>2. CASE DisconnectTip
  BY <1>2, DisconnectTipStep
<1>3. CASE WriteBlockIndex \/ PartialBatch \/ FinalBatch
  BY <1>3, WriteBlockIndexStep, PartialBatchStep, FinalBatchStep
<1>4. CASE \E a \in Asset : DumpErase(a) \/ DumpWrite(a)
  BY <1>4, DumpEraseStep, DumpWriteStep
<1>5. CASE DumpDone \/ Crash
  BY <1>5, DumpDoneStep, CrashStep
<1>6. CASE Restart \/ RestartReplay
  BY <1>6, RestartStep, RestartReplayStep
<1>7. CASE UNCHANGED vars
  BY <1>7, UnchangedStep
<1> QED
  BY <1>1, <1>2, <1>3, <1>4, <1>5, <1>6, <1>7, Zenon DEF Next

-----------------------------------------------------------------------------
(* The inductive invariant holds in every reachable state.                  *)
THEOREM Invariance == Spec => []IInv
  BY InitIInv, IInvStep, PTL DEF Spec

(* The variables have their types.                                          *)
THEOREM TypeCorrect == Spec => []TypeOK
<1>1. IInv => TypeOK
  BY DEF IInv
<1> QED
  BY <1>1, Invariance, PTL

(* What a running node reads through pcoinsTip is the UTXO set of its active
   chain, whatever was connected, disconnected and flushed, and wherever in a
   flush, or in the flush of ReplayBlocks, the node died before.            *)
THEOREM CoinsCorrect == Spec => []CoinsMatchTip
<1>1. IInv => CoinsMatchTip
  BY DEF IInv, CoinsInv, Running, CoinsMatchTip
<1> QED
  BY <1>1, Invariance, PTL

(* A coin database without head blocks is the UTXO set of its best block:
   "mark the database as consistent with hashBlock again" is true of every
   state BatchWrite leaves.                                                 *)
THEOREM DatabaseConsistent == Spec => []DatabaseMatchesBest
<1>1. IInv => DatabaseMatchesBest
  BY UtxoAtDef DEF IInv, CoinsInv, BestBlock, DatabaseMatchesBest
<1> QED
  BY <1>1, Invariance, PTL

(* assert(old_heads[0] == hashBlock) in CCoinsViewDB::BatchWrite never fails:
   the flush of a replay that was itself cut short is for the same tip.     *)
THEOREM HeadsAgree == Spec => []ReplayFlushesSameTip
<1>1. IInv => ReplayFlushesSameTip
  BY DEF IInv, PhaseInv, ReplayFlushesSameTip
<1> QED
  BY <1>1, Invariance, PTL

(* As long as no crash cut a full flush short, the assets a running node finds
   are those its active chain issued.                                       *)
THEOREM AssetsCorrect == Spec => []AssetsMatchTipUnlessTorn
<1>1. IInv => AssetsMatchTipUnlessTorn
  BY DEF IInv, AssetsInv, Running, AssetsMatchTipUnlessTorn
<1> QED
  BY <1>1, Invariance, PTL

(* Start-up never refuses: LoadChainTip finds the best block, and ReplayBlocks
   both heads, the undo data of the old branch and the blocks of the new one,
   since FlushStateToDisk writes the block index before the coins.          *)
THEOREM StartUpSucceeds == Spec => [](pc # "failed")
<1>1. IInv => pc # "failed"
  BY DEF IInv, PhaseInv
<1> QED
  BY <1>1, Invariance, PTL
=============================================================================
