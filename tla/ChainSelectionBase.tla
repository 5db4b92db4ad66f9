------------------------- MODULE ChainSelectionBase -------------------------
(***************************************************************************)
(* Proofs about module ChainSelection, for any tree of blocks and any      *)
(* order in which headers, blocks and calls arrive: the block tree ranked  *)
(* by work, the queue of ReceivedBlockTransactions, what each action does  *)
(* to each variable, and the invariant Base that needs nothing but that.   *)
(***************************************************************************)
EXTENDS ChainSelection, BlockTreeProofs

-----------------------------------------------------------------------------
(* The tree, ranked by nChainWork.                                          *)

LEMMA WorkRank == IsRank(nChainWork)
  BY TreeAssumption DEF IsRank

LEMMA Tree ==
  /\ Genesis \in Block /\ Ancestors[Genesis] = {Genesis}
  /\ \A b \in Block : /\ nChainWork[b] \in Nat /\ b \in Nat
                      /\ Ancestors[b] \subseteq Block /\ b \in Ancestors[b]
                      /\ Genesis \in Ancestors[b]
  /\ \A b \in Block \ {Genesis} : /\ Parent[b] \in Block
                                  /\ nChainWork[Parent[b]] < nChainWork[b]
                                  /\ Ancestors[b] = {b} \cup Ancestors[Parent[b]]
                                  /\ b \notin Ancestors[Parent[b]]
  /\ \A b \in Block : \A x \in Ancestors[b] :
       /\ Ancestors[x] \subseteq Ancestors[b]
       /\ nChainWork[x] <= nChainWork[b]
       /\ x = b \/ nChainWork[x] < nChainWork[b]
<1>1. \A b \in Block : nChainWork[b] \in Nat /\ b \in Nat
  BY TreeAssumption
<1>2. /\ Genesis \in Block
      /\ \A b \in Block \ {Genesis} : Parent[b] \in Block /\ nChainWork[Parent[b]] < nChainWork[b]
  BY TreeAssumption, ParentAssumption
<1>3. /\ Ancestors[Genesis] = {Genesis}
      /\ \A b \in Block \ {Genesis} : Ancestors[b] = {b} \cup Ancestors[Parent[b]]
  BY WorkRank, AncestorsDef
<1>4. \A b \in Block :
        /\ b \in Ancestors[b] /\ Genesis \in Ancestors[b]
        /\ \A x \in Ancestors[b] : /\ x \in Block /\ Ancestors[x] \subseteq Ancestors[b]
                                   /\ x = b \/ nChainWork[x] < nChainWork[b]
  BY WorkRank, AncestorsFacts
<1>5. \A b \in Block : \A x \in Ancestors[b] : nChainWork[x] <= nChainWork[b]
  BY <1>1, <1>4
<1>6. \A b \in Block \ {Genesis} : b \notin Ancestors[Parent[b]]
  <2>1. ASSUME NEW b \in Block \ {Genesis}, b \in Ancestors[Parent[b]] PROVE FALSE
    <3>1. nChainWork[b] <= nChainWork[Parent[b]] /\ nChainWork[Parent[b]] < nChainWork[b]
      BY <1>2, <1>5, <2>1
    <3>2. nChainWork[b] \in Nat /\ nChainWork[Parent[b]] \in Nat
      BY <1>1, <1>2
    <3> QED
      BY <3>1, <3>2
  <2> QED
    BY <2>1
<1> QED
  BY <1>1, <1>2, <1>3, <1>4, <1>5, <1>6

LEMMA Linear ==
  ASSUME NEW b \in Block, NEW x \in Ancestors[b], NEW y \in Ancestors[b],
         nChainWork[x] <= nChainWork[y]
  PROVE  x \in Ancestors[y]
  BY WorkRank, AncestorsLinear

LEMMA ChainIn ==
  ASSUME NEW T, \A c \in T \ {Genesis} : Parent[c] \in T, NEW b \in Block, b \in T
  PROVE  Ancestors[b] \subseteq T
  BY WorkRank, AncestorsClosed

LEMMA HighestIs ==
  ASSUME NEW b \in Block, NEW S \in SUBSET Ancestors[b], S # {}
  PROVE  Highest(S) \in S /\ \A c \in S : nChainWork[c] <= nChainWork[Highest(S)]
<1>1. \E h \in S : \A c \in S : nChainWork[c] <= nChainWork[h]
  BY WorkRank, HighestBlock
<1> QED
  BY <1>1 DEF Highest

(* Two blocks that are on one chain are comparable; of two blocks that are not,
   neither is an ancestor of the other.                                     *)
LEMMA Comparable ==
  ASSUME NEW b \in Block, NEW x \in Ancestors[b], NEW y \in Ancestors[b]
  PROVE  x \in Ancestors[y] \/ y \in Ancestors[x]
<1>1. nChainWork[x] <= nChainWork[y] \/ nChainWork[y] <= nChainWork[x]
  BY Tree
<1> QED
  BY <1>1, Linear

-----------------------------------------------------------------------------
(* CBlockIndexWorkComparator is a strict total order.                       *)

LEMMA WorseOrder ==
  ASSUME NEW sq \in [Block -> Int], NEW a \in Block, NEW b \in Block, NEW c \in Block
  PROVE  /\ ~WorseBy(sq, a, a)
         /\ WorseBy(sq, a, b) => ~WorseBy(sq, b, a)
         /\ a # b => WorseBy(sq, a, b) \/ WorseBy(sq, b, a)
         /\ WorseBy(sq, a, b) /\ WorseBy(sq, b, c) => WorseBy(sq, a, c)
         /\ WorseBy(sq, a, b) /\ ~WorseBy(sq, c, b) => WorseBy(sq, a, c)
         /\ ~WorseBy(sq, a, b) /\ ~WorseBy(sq, b, c) => ~WorseBy(sq, a, c)
         /\ WorseBy(sq, a, b) => nChainWork[a] <= nChainWork[b]
         /\ nChainWork[a] < nChainWork[b] => WorseBy(sq, a, b)
         /\ ~WorseBy(sq, a, b) => nChainWork[b] <= nChainWork[a]
<1>1. /\ sq[a] \in Int /\ sq[b] \in Int /\ sq[c] \in Int /\ a \in Nat /\ b \in Nat /\ c \in Nat
      /\ nChainWork[a] \in Nat /\ nChainWork[b] \in Nat /\ nChainWork[c] \in Nat
  BY Tree
<1> QED
  BY <1>1 DEF WorseBy

(* A non-empty set of blocks has a greatest one in any strict total order R. *)
LEMMA GreatestExists ==
  ASSUME NEW R, NEW S \in SUBSET Block, S # {},
         \A a \in Block : <<a, a>> \notin R,
         \A a, b, c \in Block : <<a, b>> \in R /\ <<c, b>> \notin R => <<c, a>> \notin R,
         \A a, b \in Block : <<a, b>> \in R => <<b, a>> \notin R
  PROVE  \E b \in S : \A c \in S : <<b, c>> \notin R
<1>1. PICK enum \in Seq(Block) : \A b \in Block : \E n \in 1..Len(enum) : enum[n] = b
  BY TreeAssumption DEF IsFiniteSet
<1> DEFINE Upto(n) == {enum[i] : i \in 1..n} \cap S
           HasBest(n) == Upto(n) # {} => \E b \in Upto(n) : \A c \in Upto(n) : <<b, c>> \notin R
           T == {n \in 0..Len(enum) : HasBest(n)}
<1>2. Len(enum) \in Nat /\ 0 \in T
  OBVIOUS
<1>3. ASSUME NEW n \in 1..Len(enum), HasBest(n - 1) PROVE HasBest(n)
  <2>1. 1..n = 1..(n - 1) \cup {n}
    OBVIOUS
  <2>2. Upto(n) = IF enum[n] \in S THEN Upto(n - 1) \cup {enum[n]} ELSE Upto(n - 1)
    BY <2>1
  <2>3. Upto(n - 1) \subseteq Block /\ enum[n] \in Block
    OBVIOUS
  <2>4. HasBest(n - 1)
    BY <1>3
  <2> HIDE DEF Upto
  <2>5. CASE enum[n] \notin S
    BY <2>2, <2>4, <2>5
  <2>6. CASE enum[n] \in S /\ Upto(n - 1) = {}
    <3>1. Upto(n) = {enum[n]} /\ <<enum[n], enum[n]>> \notin R
      BY <2>2, <2>3, <2>6
    <3> QED
      BY <3>1
  <2>7. CASE enum[n] \in S /\ Upto(n - 1) # {}
    <3>1. PICK b \in Upto(n - 1) : \A c \in Upto(n - 1) : <<b, c>> \notin R
      BY <2>4, <2>7
    <3> DEFINE w == IF <<b, enum[n]>> \in R THEN enum[n] ELSE b
    <3>2. Upto(n) = Upto(n - 1) \cup {enum[n]} /\ w \in Upto(n)
      BY <2>2, <2>7
    <3>3. ASSUME NEW c \in Upto(n - 1) PROVE <<w, c>> \notin R
      BY <2>3, <3>1
    <3>4. <<w, enum[n]>> \notin R
      BY <2>3
    <3> HIDE DEF w
    <3> QED
      BY <3>2, <3>3, <3>4
  <2> QED
    BY <2>5, <2>6, <2>7
<1>4. \A n \in 0..Len(enum) : n \in T
  <2> HIDE DEF HasBest
  <2>1. ASSUME NEW n \in 1..Len(enum), n - 1 \in T PROVE n \in T
    BY <1>3, <2>1
  <2> HIDE DEF T
  <2> QED
    BY <1>2, <2>1, LoopInduction
<1>5. Upto(Len(enum)) = S
  BY <1>1
<1>6. HasBest(Len(enum))
  <2>1. Len(enum) \in 0..Len(enum)
    BY <1>2
  <2>2. Len(enum) \in T
    BY <1>4, <2>1, Zenon
  <2> HIDE DEF HasBest
  <2> QED
    BY <2>2
<1> HIDE DEF Upto
<1> QED
  BY <1>5, <1>6

LEMMA BestExists ==
  ASSUME NEW sq \in [Block -> Int], NEW S \in SUBSET Block, S # {}
  PROVE  \E b \in S : \A c \in S : ~WorseBy(sq, b, c)
<1> DEFINE R == {p \in Block \X Block : WorseBy(sq, p[1], p[2])}
<1>1. \A a, b \in Block : <<a, b>> \in R <=> WorseBy(sq, a, b)
  OBVIOUS
<1> HIDE DEF R
<1>2. \A a, b, c \in Block : /\ <<a, a>> \notin R
                             /\ <<a, b>> \in R => <<b, a>> \notin R
                             /\ <<a, b>> \in R /\ <<c, b>> \notin R => <<c, a>> \notin R
  BY <1>1, WorseOrder
<1>3. \E b \in S : \A c \in S : <<b, c>> \notin R
  BY <1>2, GreatestExists
<1> QED
  BY <1>1, <1>3

LEMMA MaxBlockIs == MaxBlock \in Nat /\ \A b \in Block : b <= MaxBlock
<1> DEFINE R == {p \in Block \X Block : p[1] < p[2]}
<1>1. \A a, b \in Block : <<a, b>> \in R <=> a < b
  OBVIOUS
<1> HIDE DEF R
<1>2. \A a, b, c \in Block : /\ <<a, a>> \notin R
                             /\ <<a, b>> \in R => <<b, a>> \notin R
                             /\ <<a, b>> \in R /\ <<c, b>> \notin R => <<c, a>> \notin R
  BY <1>1, Tree
<1>3. \E m \in Block : \A c \in Block : <<m, c>> \notin R
  <2>1. Block \in SUBSET Block /\ Block # {}
    BY ParentAssumption
  <2> QED
    BY <1>2, <2>1, GreatestExists
<1>4. \A b \in Block : b \in Nat
  BY TreeAssumption
<1>5. PICK m \in Block : \A c \in Block : <<m, c>> \notin R
  BY <1>3
<1>6. ASSUME NEW c \in Block PROVE c <= m
  <2>1. ~(m < c) /\ m \in Nat /\ c \in Nat
    BY <1>1, <1>4, <1>5
  <2> QED
    BY <2>1
<1>7. MaxBlock \in Block /\ \A b \in Block : b <= MaxBlock
  <2>1. \E x \in Block : \A b \in Block : b <= x
    BY <1>6
  <2> QED
    BY <2>1, Zenon DEF MaxBlock
<1> QED
  BY <1>4, <1>7

LEMMA BestIs ==
  ASSUME NEW S \in SUBSET Block, S # {}, nSequenceId \in [Block -> Int]
  PROVE  Best(S) \in S /\ \A c \in S : ~Worse(Best(S), c)
<1>1. \E b \in S : \A c \in S : ~Worse(b, c)
  BY BestExists DEF Worse
<1> QED
  BY <1>1 DEF Best


-----------------------------------------------------------------------------
(* The queue of ReceivedBlockTransactions.                                  *)

LEMMA SeqFacts ==
  ASSUME NEW X, NEW s \in Seq(X)
  PROVE  /\ Len(s) \in Nat /\ DOMAIN s = 1..Len(s) /\ \A i \in 1..Len(s) : s[i] \in X
         /\ Members(s) = {s[i] : i \in 1..Len(s)} /\ Members(s) \subseteq X
         /\ \A x \in Members(s) : \E i \in 1..Len(s) : s[i] = x
         /\ \A i \in 1..Len(s) : s[i] \in Members(s)
  BY DEF Members

LEMMA Concat ==
  ASSUME NEW X, NEW s \in Seq(X), NEW t \in Seq(X)
  PROVE  /\ s \o t \in Seq(X) /\ Len(s \o t) = Len(s) + Len(t)
         /\ \A i \in 1..Len(s) : (s \o t)[i] = s[i]
         /\ \A i \in 1..Len(t) : (s \o t)[Len(s) + i] = t[i]
         /\ Members(s \o t) = Members(s) \cup Members(t)
<1>1. /\ s \o t \in Seq(X) /\ Len(s \o t) = Len(s) + Len(t)
      /\ \A i \in 1..Len(s) : (s \o t)[i] = s[i]
      /\ \A i \in 1..Len(t) : (s \o t)[Len(s) + i] = t[i]
  OBVIOUS
<1>2. Len(s) \in Nat /\ Len(t) \in Nat
  OBVIOUS
<1>3. ASSUME NEW x \in Members(s \o t) PROVE x \in Members(s) \cup Members(t)
  <2>1. PICK i \in 1..Len(s) + Len(t) : (s \o t)[i] = x
    BY <1>1, SeqFacts
  <2>2. CASE i <= Len(s)
    BY <1>1, <1>2, <2>1, <2>2, SeqFacts
  <2>3. CASE i > Len(s)
    <3>1. i - Len(s) \in 1..Len(t) /\ Len(s) + (i - Len(s)) = i
      BY <1>2, <2>3
    <3>2. x = t[i - Len(s)]
      BY <1>1, <2>1, <3>1
    <3> QED
      BY <3>1, <3>2, SeqFacts
  <2> QED
    BY <1>2, <2>2, <2>3
<1>4. ASSUME NEW x \in Members(s) PROVE x \in Members(s \o t)
  <2>1. PICK i \in 1..Len(s) : s[i] = x
    BY SeqFacts
  <2>2. i \in 1..Len(s \o t) /\ (s \o t)[i] = x
    BY <1>1, <1>2, <2>1
  <2> QED
    BY <1>1, <2>2, SeqFacts
<1>5. ASSUME NEW x \in Members(t) PROVE x \in Members(s \o t)
  <2>1. PICK i \in 1..Len(t) : t[i] = x
    BY SeqFacts
  <2>2. Len(s) + i \in 1..Len(s \o t) /\ (s \o t)[Len(s) + i] = x
    BY <1>1, <1>2, <2>1
  <2> QED
    BY <1>1, <2>2, SeqFacts
<1> QED
  BY <1>1, <1>3, <1>4, <1>5

(* What a round makes of the queue.                                         *)
Round(q, n) == IF n > Len(q) THEN q ELSE q \o unlinked[q[n]]

LEMMA QueueLoop ==
  ASSUME NEW b \in Block, unlinked \in [Block -> Seq(Block)]
  PROVE  \E f :
            /\ NewlyLinked(b) = f[MaxBlock + 1]
            /\ f[0] = <<b>>
            /\ \A n \in 1..MaxBlock + 1 : f[n] = Round(f[n - 1], n)
<1> DEFINE N == MaxBlock + 1
           Def(f) == [n \in 0..N |->
                        IF n = 0 THEN <<b>>
                        ELSE LET q == f[n - 1]
                             IN IF n > Len(q) THEN q ELSE q \o unlinked[q[n]]]
           V == Seq(Block)
           step == [p \in Nat \X V |-> IF p[1] = 0 THEN p[2] ELSE Round(p[2], p[1])]
<1>1. N \in Nat /\ <<b>> \in V
  BY MaxBlockIs
<1>2. ASSUME NEW q \in V, NEW n \in Nat \ {0} PROVE Round(q, n) \in V
  <2>1. CASE n > Len(q)
    BY <2>1 DEF Round
  <2>2. CASE ~(n > Len(q))
    <3>1. q[n] \in Block
      BY <2>2
    <3> QED
      BY <2>2, <3>1, Concat DEF Round
  <2> QED
    BY <2>1, <2>2
<1>3. step \in [Nat \X V -> V]
  <2>1. ASSUME NEW p \in Nat \X V
        PROVE  (IF p[1] = 0 THEN p[2] ELSE Round(p[2], p[1])) \in V
    <3> HIDE DEF V
    <3>1. p[1] \in Nat /\ p[2] \in V
      OBVIOUS
    <3> QED
      BY <1>2, <3>1
  <2> HIDE DEF V
  <2> QED
    BY <2>1
<1>4. PICK g \in [0..N -> V] : IsLoop(g, <<b>>, step, N)
  <2> HIDE DEF step, V, N
  <2> QED
    BY <1>1, <1>3, LoopExists, Zenon
<1>5. ASSUME NEW n \in 1..N PROVE g[n] = Round(g[n - 1], n)
  <2>1. n \in Nat /\ n - 1 \in 0..N /\ n # 0 /\ n \in 0..N
    BY <1>1
  <2> HIDE DEF V
  <2>2. g[n - 1] \in V
    BY <2>1
  <2>3. step[<<n, g[n - 1]>>] = Round(g[n - 1], n)
    BY <2>1, <2>2
  <2> HIDE DEF step
  <2>4. g[n] = step[<<n, g[n - 1]>>]
    BY <1>4, <2>1 DEF IsLoop
  <2> QED
    BY <2>3, <2>4
<1>6. g[0] = <<b>>
  <2> HIDE DEF step, V, N
  <2>1. 0 \in 0..N
    BY <1>1
  <2> QED
    BY <1>4, <2>1 DEF IsLoop
<1>7. g = Def(g)
  <2>1. g = [n \in 0..N |-> g[n]]
    OBVIOUS
  <2>2. \A n \in 0..N : n = 0 \/ n \in 1..N
    BY <1>1
  <2> HIDE DEF step, V
  <2>3. \A n \in 0..N : g[n] = Def(g)[n]
    BY <1>5, <1>6, <2>2 DEF Round
  <2> QED
    BY <2>1, <2>3
<1> DEFINE F == CHOOSE f : f = Def(f)
<1>8. F = Def(F)
  <2> HIDE DEF Def
  <2> QED
    BY <1>7, Zenon
<1>9. NewlyLinked(b) = F[N]
  BY DEF NewlyLinked
<1> HIDE DEF F
<1>10. F[0] = <<b>> /\ \A n \in 1..N : F[n] = Round(F[n - 1], n)
  <2>1. 0 \in 0..N /\ \A n \in 1..N : n \in 0..N /\ n # 0
    BY <1>1
  <2> QED
    BY <1>8, <2>1 DEF Round
<1> QED
  BY <1>9, <1>10, Zenon


(* mapBlocksUnlinked has every block under its parent.                      *)
Waits ==
  /\ unlinked \in [Block -> Seq(Block)]
  /\ \A p \in Block : \A d \in Members(unlinked[p]) : d # Genesis /\ Parent[d] = p

(* The queue q of block b after n rounds: every block but b was waiting for one
   that had its round, and what waited for those is in the queue.           *)
IsQueue(q, b, n) ==
  /\ q \in Seq(Block) /\ b \in Members(q)
  /\ \A i \in 1..Len(q) :
       q[i] = b \/ \E j \in 1..n : j <= Len(q) /\ q[i] \in Members(unlinked[q[j]])
  /\ \A j \in 1..n : j <= Len(q) => Members(unlinked[q[j]]) \subseteq Members(q)

Injective(s) == \A i, j \in 1..Len(s) : s[i] = s[j] => i = j

LEMMA AppendFacts ==
  ASSUME NEW X, NEW s \in Seq(X), NEW x \in X
  PROVE  /\ Append(s, x) \in Seq(X) /\ Members(Append(s, x)) = Members(s) \cup {x}
         /\ Injective(s) /\ x \notin Members(s) => Injective(Append(s, x))
<1> DEFINE t == Append(s, x)
           n == Len(s)
<1>1. /\ t \in Seq(X) /\ Len(t) = n + 1 /\ t[n + 1] = x /\ n \in Nat
      /\ \A i \in 1..n : t[i] = s[i]
  OBVIOUS
<1>2. 1..(n + 1) = 1..n \cup {n + 1} /\ n + 1 \notin 1..n
  BY <1>1
<1>3. Members(t) = {t[i] : i \in 1..(n + 1)} /\ Members(s) = {s[i] : i \in 1..n}
  <2>1. Members(t) = {t[i] : i \in 1..Len(t)}
    BY <1>1, SeqFacts, Zenon
  <2> HIDE DEF t
  <2> QED
    BY <1>1, <2>1, SeqFacts
<1> HIDE DEF t, n
<1>4. Members(t) = Members(s) \cup {x}
  BY <1>1, <1>2, <1>3
<1>5. ASSUME Injective(s), x \notin Members(s) PROVE Injective(t)
  <2>1. \A i, j \in 1..n : s[i] = s[j] => i = j
    BY <1>5 DEF Injective, n
  <2>2. \A i \in 1..n : s[i] # x
    BY <1>3, <1>5
  <2>3. \A i, j \in 1..(n + 1) : t[i] = t[j] => i = j
    BY <1>1, <1>2, <2>1, <2>2
  <2> QED
    BY <1>1, <2>3 DEF Injective
<1> QED
  BY <1>1, <1>4, <1>5 DEF t

LEMMA RoundFacts ==
  ASSUME NEW b \in Block, Waits, NEW n \in Nat \ {0}, NEW q, IsQueue(q, b, n - 1)
  PROVE  /\ IsQueue(Round(q, n), b, n)
         /\ Injective(q) /\ (\A p \in Block : Injective(unlinked[p]) /\ b \notin Members(unlinked[p]))
              => Injective(Round(q, n))
<1> DEFINE k == Len(q)
<1>1. q \in Seq(Block) /\ b \in Members(q) /\ k \in Nat
  BY DEF IsQueue
<1>2. \A j \in 1..n : j \in 1..(n - 1) \/ j = n
  OBVIOUS
<1>3. CASE n > k
  <2>1. Round(q, n) = q
    BY <1>3 DEF Round
  <2>2. \A j \in 1..(n - 1) : j \in 1..n
    OBVIOUS
  <2>3. \A j \in 1..n : j <= k => j \in 1..(n - 1)
    BY <1>1, <1>3
  <2>4. IsQueue(q, b, n)
    BY <2>2, <2>3 DEF IsQueue
  <2> QED
    BY <2>1, <2>4
<1>4. CASE ~(n > k)
  <2>1. n \in 1..k /\ q[n] \in Block
    BY <1>1, <1>4
  <2> DEFINE t == unlinked[q[n]]
             r == q \o t
  <2>2. Round(q, n) = r /\ t \in Seq(Block)
    BY <1>4, <2>1 DEF Round, Waits
  <2>3. /\ r \in Seq(Block) /\ Len(r) = k + Len(t) /\ Len(t) \in Nat
        /\ \A i \in 1..k : r[i] = q[i]
        /\ \A i \in 1..Len(t) : r[k + i] = t[i]
        /\ Members(r) = Members(q) \cup Members(t)
    BY <1>1, <2>2, Concat
  <2>4. \A i \in 1..Len(r) : i \in 1..k \/ \E l \in 1..Len(t) : i = k + l
    <3>1. ASSUME NEW i \in 1..Len(r), i \notin 1..k PROVE \E l \in 1..Len(t) : i = k + l
      <4>1. i - k \in 1..Len(t) /\ i = k + (i - k)
        BY <1>1, <2>3, <3>1
      <4> QED
        BY <4>1
    <3> QED
      BY <3>1
  <2> HIDE DEF r, t
  <2>5. ASSUME NEW i \in 1..Len(r)
        PROVE  r[i] = b \/ \E j \in 1..n : j <= Len(r) /\ r[i] \in Members(unlinked[r[j]])
    <3>1. CASE i \in 1..k
      <4>1. r[i] = q[i] /\ \A j \in 1..(n - 1) : j <= k => j \in 1..n /\ j <= Len(r) /\ r[j] = q[j]
        BY <1>1, <2>3, <3>1
      <4>2. q[i] = b \/ \E j \in 1..(n - 1) : j <= k /\ q[i] \in Members(unlinked[q[j]])
        BY <3>1 DEF IsQueue
      <4> QED
        BY <4>1, <4>2
    <3>2. CASE i \notin 1..k
      <4>1. PICK l \in 1..Len(t) : i = k + l
        BY <2>4, <3>2
      <4>2. r[i] = t[l] /\ t[l] \in Members(t)
        BY <2>2, <2>3, <4>1, SeqFacts
      <4>3. n \in 1..n /\ n <= Len(r) /\ r[n] = q[n]
        BY <1>1, <2>1, <2>3
      <4> QED
        BY <4>2, <4>3 DEF t
    <3> QED
      BY <3>1, <3>2
  <2>6. ASSUME NEW j \in 1..n, j <= Len(r) PROVE Members(unlinked[r[j]]) \subseteq Members(r)
    <3>1. j \in 1..k /\ r[j] = q[j] /\ j <= k
      BY <1>1, <2>1, <2>3
    <3>2. CASE j = n
      BY <2>3, <3>1, <3>2 DEF t
    <3>3. CASE j # n
      <4>1. j \in 1..(n - 1)
        BY <3>3
      <4> QED
        BY <2>3, <3>1, <4>1 DEF IsQueue
    <3> QED
      BY <3>2, <3>3
  <2>7. IsQueue(r, b, n)
    BY <1>1, <2>3, <2>5, <2>6 DEF IsQueue
  <2>8. ASSUME Injective(q), \A p \in Block : Injective(unlinked[p]) /\ b \notin Members(unlinked[p])
        PROVE  Injective(r)
    <3>1. Injective(t) /\ b \notin Members(t)
      BY <2>1, <2>8 DEF t
    <3>2. ASSUME NEW i \in 1..k, NEW l \in 1..Len(t), q[i] = t[l] PROVE FALSE
      <4>1. t[l] \in Members(t) /\ Parent[t[l]] = q[n] /\ q[i] # b
        <5>1. t[l] \in Members(t)
          BY <2>2, SeqFacts
        <5> QED
          BY <2>1, <3>1, <3>2, <5>1 DEF t, Waits
      <4>2. PICK j \in 1..(n - 1) : j <= k /\ q[i] \in Members(unlinked[q[j]])
        BY <4>1 DEF IsQueue
      <4>3. j \in 1..k /\ q[j] \in Block /\ j # n
        BY <1>1, <4>2
      <4>4. Parent[q[i]] = q[j]
        BY <4>2, <4>3 DEF Waits
      <4>5. q[j] = q[n]
        BY <3>2, <4>1, <4>4
      <4> QED
        BY <2>1, <2>8, <4>3, <4>5 DEF Injective
    <3>3. ASSUME NEW i \in 1..Len(r), NEW j \in 1..Len(r), r[i] = r[j] PROVE i = j
      <4>1. CASE i \in 1..k /\ j \in 1..k
        BY <2>3, <2>8, <3>3, <4>1 DEF Injective
      <4>2. CASE i \in 1..k /\ j \notin 1..k
        BY <2>3, <2>4, <3>2, <3>3, <4>2
      <4>3. CASE i \notin 1..k /\ j \in 1..k
        BY <2>3, <2>4, <3>2, <3>3, <4>3
      <4>4. CASE i \notin 1..k /\ j \notin 1..k
        BY <2>3, <2>4, <3>1, <3>3, <4>4 DEF Injective
      <4> QED
        BY <4>1, <4>2, <4>3, <4>4
    <3> QED
      BY <3>3 DEF Injective
  <2> QED
    BY <2>2, <2>7, <2>8
<1> QED
  BY <1>1, <1>3, <1>4


(* The blocks that ReceivedBlockTransactions links with b: each but b waited
   for another of them.  When no block waits twice and b does not wait, they
   are all the blocks that waited, directly or not, for b.                  *)
LEMMA QueueFacts ==
  ASSUME NEW b \in Block, Waits
  PROVE  /\ NewlyLinked(b) \in Seq(Block) /\ b \in Members(NewlyLinked(b))
         /\ \A d \in Members(NewlyLinked(b)) :
              \/ d = b
              \/ /\ Parent[d] \in Members(NewlyLinked(b)) /\ d # Genesis
                 /\ d \in Members(unlinked[Parent[d]])
         /\ (\A p \in Block : Injective(unlinked[p]) /\ b \notin Members(unlinked[p]))
              => \A p \in Members(NewlyLinked(b)) :
                   Members(unlinked[p]) \subseteq Members(NewlyLinked(b))
<1> DEFINE N == MaxBlock + 1
           Once == \A p \in Block : Injective(unlinked[p]) /\ b \notin Members(unlinked[p])
<1>1. N \in Nat /\ \A d \in Block : d \in 0..(N - 1)
  BY MaxBlockIs, Tree
<1>2. PICK f : /\ NewlyLinked(b) = f[N] /\ f[0] = <<b>>
               /\ \A n \in 1..N : f[n] = Round(f[n - 1], n)
  BY QueueLoop DEF Waits
<1> HIDE DEF N
<1> DEFINE S == {n \in 0..N : IsQueue(f[n], b, n) /\ (Once => Injective(f[n]))}
<1>3. 0 \in S
  <2>1. <<b>> \in Seq(Block) /\ Len(<<b>>) = 1 /\ <<b>>[1] = b
    OBVIOUS
  <2>2. b \in Members(<<b>>) /\ \A i \in 1..1 : i = 1
    <3>1. 1 \in DOMAIN <<b>>
      OBVIOUS
    <3> QED
      BY <2>1, <3>1 DEF Members
  <2>3. IsQueue(<<b>>, b, 0) /\ Injective(<<b>>)
    BY <2>1, <2>2 DEF IsQueue, Injective
  <2> QED
    BY <1>1, <1>2, <2>3
<1>4. ASSUME NEW n \in 1..N, n - 1 \in S PROVE n \in S
  <2>1. n \in Nat \ {0} /\ n \in 0..N
    BY <1>1
  <2>2. IsQueue(f[n - 1], b, n - 1) /\ (Once => Injective(f[n - 1])) /\ f[n] = Round(f[n - 1], n)
    BY <1>2, <1>4
  <2>3. IsQueue(f[n], b, n) /\ (Once => Injective(f[n]))
    BY <2>1, <2>2, RoundFacts
  <2> QED
    BY <2>1, <2>3
<1>5. N \in S
  <2>1. N \in 0..N
    BY <1>1
  <2> HIDE DEF S
  <2> QED
    BY <1>1, <1>3, <1>4, <2>1, LoopInduction
<1> DEFINE q == f[N]
<1>6. IsQueue(q, b, N) /\ (Once => Injective(q)) /\ q = NewlyLinked(b)
  BY <1>2, <1>5
<1> HIDE DEF q
<1>7. q \in Seq(Block) /\ b \in Members(q)
  BY <1>6 DEF IsQueue
<1>8. ASSUME NEW d \in Members(q), d # b
      PROVE  Parent[d] \in Members(q) /\ d # Genesis /\ d \in Members(unlinked[Parent[d]])
  <2>1. PICK i \in 1..Len(q) : q[i] = d
    BY <1>7, SeqFacts
  <2>2. PICK j \in 1..N : j <= Len(q) /\ q[i] \in Members(unlinked[q[j]])
    BY <1>6, <1>8, <2>1 DEF IsQueue
  <2>3. q[j] \in Block /\ q[j] \in Members(q)
    BY <1>7, <2>2, SeqFacts
  <2> QED
    BY <2>1, <2>2, <2>3 DEF Waits
<1>9. ASSUME Once, NEW p \in Members(q) PROVE Members(unlinked[p]) \subseteq Members(q)
  <2>1. PICK j \in 1..Len(q) : q[j] = p
    BY <1>7, SeqFacts
  <2>2. Len(q) \in Nat /\ q \in [1..Len(q) -> 0..(N - 1)]
    <3>1. Len(q) \in Nat /\ q \in [1..Len(q) -> Block]
      BY <1>7
    <3> QED
      BY <1>1, <3>1
  <2>3. Len(q) <= N
    <3>1. \A i, l \in 1..Len(q) : q[i] = q[l] => i = l
      BY <1>6, <1>9 DEF Injective
    <3> QED
      BY <1>1, <2>2, <3>1, PigeonHole
  <2>4. j \in 1..N /\ j <= Len(q)
    BY <1>1, <2>2, <2>3
  <2> QED
    BY <1>6, <2>1, <2>4 DEF IsQueue
<1> QED
  BY <1>6, <1>7, <1>8, <1>9


-----------------------------------------------------------------------------
(* FindMostWorkChain and ActivateBestChainStep.                             *)

LEMMA FindFacts ==
  ASSUME candidates \subseteq Block, nSequenceId \in [Block -> Int]
  PROVE  \/ FindMostWorkChain = None /\ \A c \in candidates : ~Usable(c)
         \/ /\ FindMostWorkChain \in candidates /\ Usable(FindMostWorkChain)
            /\ FindMostWorkChain # None
            /\ \A c \in candidates : Usable(c) => ~Worse(FindMostWorkChain, c)
<1> DEFINE S == {c \in candidates : Usable(c)}
<1>1. CASE S = {}
  BY <1>1 DEF FindMostWorkChain
<1>2. CASE S # {}
  <2>1. FindMostWorkChain = Best(S) /\ S \in SUBSET Block
    BY <1>2 DEF FindMostWorkChain
  <2>2. Best(S) \in S /\ \A c \in S : ~Worse(Best(S), c)
    BY <1>2, <2>1, BestIs
  <2>3. Best(S) # None
    BY <2>1, <2>2, TreeAssumption
  <2> QED
    BY <2>1, <2>2, <2>3
<1> QED
  BY <1>1, <1>2

(* What FindMostWorkChain discards is off chainActive and has a failed block
   off chainActive in its chain.                                            *)
LEMMA DiscardedFacts ==
  ASSUME candidates \subseteq Block, tip \in Block, NEW d \in Discarded
  PROVE  /\ d \in Block /\ d \notin Ancestors[tip]
         /\ \E c \in candidates : d \in Ancestors[c]
         /\ \E h \in Ancestors[d] : h \in Failed
         /\ ~Usable(d)
<1>1. PICK c \in candidates : ~Usable(c) /\ d \in Walked(c)
  BY DEF Discarded
<1> DEFINE S == OffChain(c) \cap Failed
           h == Highest(S)
<1>2. c \in Block /\ S \in SUBSET Ancestors[c] /\ S # {}
  BY <1>1 DEF Usable, OffChain
<1> HIDE DEF S
<1>3. h \in S
  BY <1>2, HighestIs
<1>4. d \in OffChain(c) /\ nChainWork[d] >= nChainWork[h]
  BY <1>1 DEF Walked, S
<1>5. d \in Ancestors[c] /\ h \in Ancestors[c] /\ h \in Failed
      /\ d \notin Ancestors[tip] /\ h \notin Ancestors[tip] /\ d \in Block /\ h \in Block
  BY <1>2, <1>3, <1>4, Tree DEF S, OffChain
<1>6. h \in Ancestors[d]
  <2>1. nChainWork[h] <= nChainWork[d]
    BY <1>4, <1>5, Tree
  <2> QED
    BY <1>2, <1>5, <2>1, Linear
<1> QED
  BY <1>5, <1>6 DEF Usable, OffChain

(* The block that becomes the tip on the way to mw.                         *)
Moved(mw) == Highest(Connected(mw) \cup {Fork(mw)})

LEMMA ForkFacts ==
  ASSUME NEW mw \in Block, tip \in Block
  PROVE  /\ Fork(mw) \in Block
         /\ Ancestors[Fork(mw)] = Ancestors[mw] \cap Ancestors[tip]
         /\ nChainWork[Fork(mw)] <= nChainWork[tip]
<1> DEFINE S == Ancestors[mw] \cap Ancestors[tip]
<1>1. S \in SUBSET Ancestors[mw] /\ S # {}
  BY Tree
<1>2. Fork(mw) \in S /\ \A c \in S : nChainWork[c] <= nChainWork[Fork(mw)]
  BY <1>1, HighestIs DEF Fork
<1>3. Fork(mw) \in Block /\ nChainWork[Fork(mw)] <= nChainWork[tip]
      /\ Ancestors[Fork(mw)] \subseteq S
  BY <1>2, Tree
<1>4. ASSUME NEW x \in S PROVE x \in Ancestors[Fork(mw)]
  BY <1>2, Linear
<1> QED
  BY <1>3, <1>4

LEMMA MovedFacts ==
  ASSUME NEW mw \in Block, tip \in Block
  PROVE  /\ Moved(mw) \in Block /\ Moved(mw) \in Ancestors[mw]
         /\ Moved(mw) \in Connected(mw) \cup {Fork(mw)}
         /\ Connected(mw) \subseteq OffChain(mw) /\ Rejected(mw) \subseteq OffChain(mw)
         /\ Rejected(mw) \subseteq Unconnectable
         /\ Connected(mw) \cap Unconnectable = {}
         /\ \A d \in Connected(mw) : nChainWork[d] <= nChainWork[Moved(mw)]
         /\ Ancestors[Moved(mw)] \subseteq Ancestors[tip] \cup Connected(mw)
         /\ Connected(mw) = {} => /\ Moved(mw) = Fork(mw)
                                  /\ nChainWork[Moved(mw)] <= nChainWork[tip]
<1> DEFINE S == Connected(mw) \cup {Fork(mw)}
<1>1. /\ Connected(mw) \subseteq OffChain(mw) /\ Rejected(mw) \subseteq OffChain(mw)
      /\ Rejected(mw) \subseteq Unconnectable
  BY DEF Connected, Rejected, Reached
<1>2. /\ Fork(mw) \in Block /\ Fork(mw) \in Ancestors[mw] /\ Fork(mw) \in Ancestors[tip]
      /\ Ancestors[Fork(mw)] \subseteq Ancestors[tip] /\ nChainWork[Fork(mw)] <= nChainWork[tip]
  BY ForkFacts, Tree
<1>3. OffChain(mw) \subseteq Ancestors[mw] /\ Ancestors[mw] \subseteq Block
  BY Tree DEF OffChain
<1>4. S \in SUBSET Ancestors[mw] /\ S # {}
  BY <1>1, <1>2, <1>3
<1>5. Moved(mw) \in S /\ \A d \in S : nChainWork[d] <= nChainWork[Moved(mw)]
  BY <1>4, HighestIs DEF Moved
<1>6. Connected(mw) \cap Unconnectable = {}
  BY <1>1, <1>3, Tree DEF Connected
<1>7. ASSUME NEW d \in Connected(mw), NEW x \in Ancestors[d], x \notin Ancestors[tip]
      PROVE  x \in Connected(mw)
  <2>1. d \in Ancestors[mw] /\ d \in Block
    BY <1>1, <1>3
  <2>2. x \in OffChain(mw) /\ Ancestors[x] \subseteq Ancestors[d] /\ x \in Block
    BY <1>7, <2>1, Tree DEF OffChain
  <2>3. ASSUME NEW e \in (OffChain(mw) \cap Ancestors[x]) \ {x}
        PROVE  nChainWork[e] <= nChainWork[tip]
    <3>1. e # d
      <4>1. nChainWork[e] < nChainWork[x] /\ nChainWork[x] <= nChainWork[d]
            /\ nChainWork[x] \in Nat /\ nChainWork[d] \in Nat
        BY <1>7, <2>1, <2>2, <2>3, Tree
      <4> QED
        BY <4>1
    <3> QED
      BY <2>2, <2>3, <3>1 DEF Connected, Reached
  <2> QED
    BY <2>2, <2>3 DEF Connected, Reached
<1>8. Ancestors[Moved(mw)] \subseteq Ancestors[tip] \cup Connected(mw)
  <2>1. CASE Moved(mw) = Fork(mw)
    BY <1>2, <2>1
  <2>2. CASE Moved(mw) \in Connected(mw)
    BY <1>7, <2>2
  <2> QED
    BY <1>5, <2>1, <2>2
<1>9. Connected(mw) = {} => Moved(mw) = Fork(mw)
  BY <1>5
<1>10. Moved(mw) \in Block /\ Moved(mw) \in Ancestors[mw]
  BY <1>3, <1>4, <1>5
<1> QED
  BY <1>1, <1>2, <1>5, <1>6, <1>8, <1>9, <1>10


(* Without a rejected block the round ends above the old tip when mw is.    *)
LEMMA WorkKept ==
  ASSUME NEW mw \in Block, tip \in Block, Rejected(mw) = {},
         nChainWork[tip] <= nChainWork[mw]
  PROVE  nChainWork[tip] <= nChainWork[Moved(mw)]
<1>1. OffChain(mw) \subseteq Block /\ OffChain(mw) \subseteq Ancestors[mw]
  BY Tree DEF OffChain
<1>2. /\ nChainWork[tip] \in Nat /\ nChainWork[mw] \in Nat /\ nChainWork[Moved(mw)] \in Nat
      /\ \A e \in OffChain(mw) : nChainWork[e] \in Nat
  BY <1>1, MovedFacts, Tree
<1>3. ASSUME NEW d \in Reached(mw) PROVE d \in Connected(mw)
  <2> DEFINE U == Ancestors[d] \cap OffChain(mw) \cap Unconnectable
  <2> SUFFICES ASSUME U # {} PROVE FALSE
    BY <1>3 DEF Connected
  <2>1. U \in SUBSET Block /\ U # {}
    BY <1>1
  <2>2. PICK u \in U : \A v \in U : nChainWork[u] <= nChainWork[v]
    <3> HIDE DEF U
    <3> QED
      BY <2>1, WorkRank, LeastBlock
  <2>3. /\ d \in OffChain(mw) /\ d \in Block /\ u \in Block /\ u \in Ancestors[d]
        /\ u \in Ancestors[mw] /\ u \notin Ancestors[tip] /\ Ancestors[u] \subseteq Ancestors[d]
    BY <1>1, <2>2, Tree DEF Reached, OffChain
  <2>4. u # Genesis /\ Parent[u] \in Block /\ Ancestors[u] = {u} \cup Ancestors[Parent[u]]
        /\ nChainWork[Parent[u]] < nChainWork[u] /\ Parent[u] \in Ancestors[u]
    BY <2>3, Tree
  <2>5. ASSUME NEW x \in Ancestors[u], x \notin Ancestors[tip] PROVE x \in Reached(mw)
    <3>1. x \in OffChain(mw) /\ x \in Ancestors[d] /\ Ancestors[x] \subseteq Ancestors[d]
      BY <1>1, <2>3, <2>5, Tree DEF OffChain
    <3>2. ASSUME NEW e \in (OffChain(mw) \cap Ancestors[x]) \ {x}
          PROVE  nChainWork[e] <= nChainWork[tip]
      <4>1. e # d
        <5>1. nChainWork[e] < nChainWork[x] /\ nChainWork[x] <= nChainWork[d]
          BY <2>3, <3>1, <3>2, <1>1, Tree
        <5>2. nChainWork[e] \in Nat /\ nChainWork[x] \in Nat /\ nChainWork[d] \in Nat
          BY <1>2, <2>3, <3>1, <3>2
        <5> QED
          BY <5>1, <5>2
      <4> QED
        BY <1>3, <3>1, <3>2, <4>1 DEF Reached
    <3> QED
      BY <3>1, <3>2 DEF Reached
  <2>6. u \in Reached(mw) /\ u \in Unconnectable
    BY <2>2, <2>3, <2>5, Tree
  <2>7. Parent[u] \in Ancestors[tip] \/ Parent[u] \in Connected(mw)
    <3>1. ASSUME Parent[u] \notin Ancestors[tip],
                 NEW v \in Ancestors[Parent[u]] \cap OffChain(mw) \cap Unconnectable
          PROVE  FALSE
      <4>1. v \in U
        BY <2>3, <2>4
      <4>2. nChainWork[u] <= nChainWork[v] /\ nChainWork[v] <= nChainWork[Parent[u]]
            /\ nChainWork[u] \in Nat /\ nChainWork[v] \in Nat /\ nChainWork[Parent[u]] \in Nat
        BY <2>2, <2>3, <2>4, <4>1, <1>1, Tree
      <4> QED
        BY <2>4, <4>2
    <3> QED
      BY <2>4, <2>5, <3>1 DEF Connected
  <2>8. u \in Rejected(mw)
    BY <2>6, <2>7 DEF Rejected
  <2> QED
    BY <2>8
<1>4. CASE mw \in Ancestors[tip]
  <2>1. mw = tip
    BY <1>2, <1>4, Tree
  <2>2. OffChain(mw) = {}
    BY <2>1 DEF OffChain
  <2>3. Moved(mw) = Fork(mw)
    BY <2>2, MovedFacts
  <2>4. tip \in Ancestors[Fork(mw)] /\ Fork(mw) \in Block
    BY <2>1, ForkFacts, Tree
  <2> QED
    BY <2>3, <2>4, Tree
<1>5. CASE mw \notin Ancestors[tip]
  <2> DEFINE W == {e \in OffChain(mw) : nChainWork[e] > nChainWork[tip]}
  <2>1. mw \in OffChain(mw)
    BY <1>5, Tree DEF OffChain
  <2>2. CASE W = {}
    <3>1. mw \in Reached(mw)
      BY <1>2, <2>1, <2>2 DEF Reached
    <3>2. nChainWork[mw] <= nChainWork[Moved(mw)]
      BY <1>3, <3>1, MovedFacts
    <3> QED
      BY <1>2, <3>2
  <2>3. CASE W # {}
    <3>1. W \in SUBSET Block
      BY <1>1
    <3>2. PICK e \in W : \A v \in W : nChainWork[e] <= nChainWork[v]
      <4> HIDE DEF W
      <4> QED
        BY <2>3, <3>1, WorkRank, LeastBlock
    <3>3. ASSUME NEW v \in (OffChain(mw) \cap Ancestors[e]) \ {e}
          PROVE  nChainWork[v] <= nChainWork[tip]
      <4>1. nChainWork[v] < nChainWork[e] /\ nChainWork[v] \in Nat /\ nChainWork[e] \in Nat
        BY <1>1, <1>2, <3>2, <3>3, Tree
      <4>2. v \notin W
        BY <3>2, <4>1
      <4> QED
        BY <1>2, <3>3, <4>1, <4>2
    <3>4. e \in Reached(mw)
      BY <3>2, <3>3 DEF Reached
    <3>5. nChainWork[e] <= nChainWork[Moved(mw)] /\ nChainWork[tip] < nChainWork[e]
      BY <1>2, <1>3, <3>2, <3>4, MovedFacts
    <3> QED
      BY <1>2, <3>2, <3>5
  <2> QED
    BY <2>2, <2>3
<1> QED
  BY <1>4, <1>5


-----------------------------------------------------------------------------
(* What holds for any number of threads and whatever the operator does: the
   types, and that chains of linked blocks are linked.                      *)

Base ==
  /\ TypeOK
  /\ candidates \subseteq linked
  /\ \A b \in linked \ {Genesis} : Parent[b] \in linked
  /\ \A t \in Thread : mostWork[t] \in linked \cup {None}
  /\ Waits

LEMMA BaseFacts ==
  ASSUME Base
  PROVE  /\ mapBlockIndex \subseteq Block /\ haveData \subseteq mapBlockIndex
         /\ linked \subseteq haveData /\ candidates \subseteq linked /\ tip \in linked
         /\ linked \subseteq Block /\ candidates \subseteq Block /\ tip \in Block
         /\ haveData \subseteq Block /\ Failed \subseteq mapBlockIndex
         /\ \A b \in linked : Ancestors[b] \subseteq linked
         /\ \A b \in mapBlockIndex : Ancestors[b] \subseteq mapBlockIndex
         /\ nSequenceId \in [Block -> Int]
         /\ Waits
<1>1. /\ mapBlockIndex \subseteq Block /\ haveData \subseteq mapBlockIndex
      /\ linked \subseteq haveData /\ candidates \subseteq linked /\ tip \in linked
      /\ linked \subseteq Block /\ candidates \subseteq Block /\ tip \in Block
      /\ haveData \subseteq Block /\ Failed \subseteq mapBlockIndex
      /\ nSequenceId \in [Block -> Int]
      /\ Waits
  BY DEF Base, TypeOK, Failed
<1>2. ASSUME NEW b \in linked PROVE Ancestors[b] \subseteq linked
  BY <1>1, ChainIn DEF Base
<1>3. ASSUME NEW b \in mapBlockIndex PROVE Ancestors[b] \subseteq mapBlockIndex
  BY <1>1, ChainIn DEF Base, TypeOK
<1> QED
  BY <1>1, <1>2, <1>3

LEMMA WaitsKept ==
  ASSUME Waits, unlinked' = unlinked
  PROVE  Waits'
BY DEF Waits, Members

LEMMA BaseInit == Init => Base
<1> SUFFICES ASSUME Init PROVE Base
  OBVIOUS
<1>1. /\ mapBlockIndex = {Genesis} /\ haveData = {Genesis} /\ linked = {Genesis}
      /\ validScripts = {Genesis} /\ failedValid = {} /\ failedChild = {}
      /\ gFailedBlocks = {} /\ candidates = {Genesis} /\ tip = Genesis
  BY DEF Init
<1>2. /\ nSequenceId \in [Block -> Int] /\ nBlockSequenceId \in Nat
      /\ nBlockReverseSequenceId \in Int /\ nLastPreciousChainwork \in Nat
  BY DEF Init
<1>3. /\ unlinked \in [Block -> Seq(haveData)] /\ unlinked \in [Block -> Seq(Block)]
      /\ \A p \in Block : unlinked[p] = <<>>
  BY <1>1 DEF Init
<1>4. /\ pc \in [Thread -> {"idle", "activate"}] /\ mostWork \in [Thread -> Block \cup {None}]
      /\ \A t \in Thread : mostWork[t] = None
  BY DEF Init
<1>5. Waits
  BY <1>3 DEF Waits, Members
<1>6. TypeOK
  BY <1>1, <1>2, <1>3, <1>4, ParentAssumption DEF TypeOK
<1> QED
  BY <1>1, <1>4, <1>5, <1>6 DEF Base

(* The outcomes of ProcessNewBlock: what they share, and what AcceptBlock does
   with a block it ignores, refuses, links with those that waited for it, or
   sets aside until its parent is linked.                                   *)
BlockArrives(t, b) ==
  /\ pc[t] = "idle" /\ b # Genesis /\ b \notin Failed /\ Parent[b] \in mapBlockIndex
  /\ mapBlockIndex' = mapBlockIndex \cup {b}
  /\ validScripts' = validScripts /\ failedChild' = failedChild
  /\ gFailedBlocks' = gFailedBlocks /\ tip' = tip
  /\ nBlockReverseSequenceId' = nBlockReverseSequenceId
  /\ nLastPreciousChainwork' = nLastPreciousChainwork

Ignore(t) ==
  /\ haveData' = haveData /\ linked' = linked /\ unlinked' = unlinked
  /\ failedValid' = failedValid /\ candidates' = candidates
  /\ nSequenceId' = nSequenceId /\ nBlockSequenceId' = nBlockSequenceId
  /\ Activate(t)

Refuse(b) ==
  /\ b \notin haveData /\ failedValid' = failedValid \cup {b}
  /\ haveData' = haveData /\ linked' = linked /\ unlinked' = unlinked
  /\ candidates' = candidates /\ pc' = pc /\ mostWork' = mostWork
  /\ nSequenceId' = nSequenceId /\ nBlockSequenceId' = nBlockSequenceId

Link(t, b) ==
  /\ b \notin haveData /\ haveData' = haveData \cup {b} /\ failedValid' = failedValid
  /\ Parent[b] \in linked /\ linked' = linked \cup Members(NewlyLinked(b))
  /\ nSequenceId' = [d \in Block |-> IF d \in Members(NewlyLinked(b))
       THEN nBlockSequenceId + (CHOOSE i \in DOMAIN NewlyLinked(b) : NewlyLinked(b)[i] = d) - 1
       ELSE nSequenceId[d]]
  /\ nBlockSequenceId' = nBlockSequenceId + Len(NewlyLinked(b))
  /\ candidates' = candidates \cup
       {d \in Members(NewlyLinked(b)) : ~WorseBy(nSequenceId', d, tip)}
  /\ unlinked' = [p \in Block |-> IF p \in Members(NewlyLinked(b)) THEN <<>> ELSE unlinked[p]]
  /\ Activate(t)

SetAside(t, b) ==
  /\ b \notin haveData /\ haveData' = haveData \cup {b} /\ failedValid' = failedValid
  /\ Parent[b] \notin linked /\ linked' = linked
  /\ nSequenceId' = nSequenceId /\ nBlockSequenceId' = nBlockSequenceId
  /\ candidates' = candidates
  /\ unlinked' = IF Parent[b] \in Failed THEN unlinked
                 ELSE [unlinked EXCEPT ![Parent[b]] = Append(@, b)]
  /\ Activate(t)

LEMMA BlockCases ==
  ASSUME Base, NEW t \in Thread, NEW b \in Block, NEW r \in BOOLEAN, ProcessNewBlock(t, b, r)
  PROVE  /\ BlockArrives(t, b)
         /\ Ignore(t) \/ Refuse(b) \/ Link(t, b) \/ SetAside(t, b)
<1>1. b \notin Failed /\ Parent[b] \in mapBlockIndex /\ b # Genesis /\ pc[t] = "idle"
  BY BaseFacts DEF ProcessNewBlock, HeaderAccepted, NewHeader, Base, TypeOK
<1>2. /\ mapBlockIndex' = mapBlockIndex \cup {b} /\ tip' = tip
      /\ nBlockReverseSequenceId' = nBlockReverseSequenceId
      /\ nLastPreciousChainwork' = nLastPreciousChainwork
  BY DEF ProcessNewBlock, prec
<1>3. CASE b \in haveData \/ (~r /\ nChainWork[b] <= nChainWork[tip])
  <2>1. UNCHANGED <<haveData, linked, unlinked, flags, ids, candidates>> /\ Activate(t)
    BY <1>3 DEF ProcessNewBlock
  <2> QED
    BY <1>1, <1>2, <2>1 DEF flags, ids, Ignore, BlockArrives
<1>4. CASE ~(b \in haveData \/ (~r /\ nChainWork[b] <= nChainWork[tip])) /\ b \in Unacceptable
  <2>1. /\ failedValid' = failedValid \cup {b}
        /\ UNCHANGED <<haveData, linked, unlinked, validScripts, failedChild,
                       gFailedBlocks, ids, candidates, pc, mostWork>>
    BY <1>4 DEF ProcessNewBlock
  <2> QED
    BY <1>1, <1>2, <1>4, <2>1 DEF ids, Refuse, BlockArrives
<1>5. CASE ~(b \in haveData \/ (~r /\ nChainWork[b] <= nChainWork[tip])) /\ b \notin Unacceptable
  <2>1. ReceivedBlockTransactions(b) /\ UNCHANGED flags /\ Activate(t)
    BY <1>5 DEF ProcessNewBlock
  <2>2. BlockArrives(t, b) /\ failedValid' = failedValid
    BY <1>1, <1>2, <2>1 DEF flags, BlockArrives
  <2>3. CASE Parent[b] \in linked
    BY <1>5, <2>1, <2>2, <2>3 DEF ReceivedBlockTransactions, Link
  <2>4. CASE Parent[b] \notin linked
    BY <1>5, <2>1, <2>2, <2>4 DEF ReceivedBlockTransactions, SetAside, ids
  <2> QED
    BY <2>2, <2>3, <2>4
<1> QED
  BY <1>3, <1>4, <1>5

LEMMA ActivateFacts ==
  ASSUME Base, NEW t \in Thread, Activate(t)
  PROVE  /\ pc' \in [Thread -> {"idle", "activate"}] /\ mostWork' \in [Thread -> Block \cup {None}]
         /\ \A u \in Thread : mostWork'[u] = mostWork[u] \/ mostWork'[u] = None
         /\ pc'[t] = "activate" /\ mostWork'[t] = None
         /\ \A u \in Thread \ {t} : pc'[u] = pc[u] /\ mostWork'[u] = mostWork[u]
  BY DEF Activate, Base, TypeOK


LEMMA LinkFacts ==
  ASSUME Base, NEW t \in Thread, NEW b \in Block, Link(t, b)
  PROVE  /\ Members(NewlyLinked(b)) \subseteq haveData' /\ b \in Members(NewlyLinked(b))
         /\ nSequenceId' \in [Block -> Int] /\ nBlockSequenceId' \in Nat
         /\ candidates' \subseteq linked'
         /\ \A d \in Members(NewlyLinked(b)) \ {b} :
              /\ Parent[d] \in Members(NewlyLinked(b)) /\ d # Genesis
              /\ d \in Members(unlinked[Parent[d]]) /\ d \in haveData
<1> DEFINE new == NewlyLinked(b)
<1>1. /\ new \in Seq(Block) /\ b \in Members(new) /\ Members(new) \subseteq Block
      /\ \A d \in Members(new) :
           \/ d = b
           \/ /\ Parent[d] \in Members(new) /\ d # Genesis
              /\ d \in Members(unlinked[Parent[d]])
  BY BaseFacts, QueueFacts, SeqFacts
<1>2. unlinked \in [Block -> Seq(haveData)]
  BY DEF Base, TypeOK
<1> HIDE DEF new
<1>3. ASSUME NEW d \in Members(new), d # b PROVE d \in haveData
  <2>1. Parent[d] \in Block /\ d \in Members(unlinked[Parent[d]])
    BY <1>1, <1>3, Tree
  <2>2. unlinked[Parent[d]] \in Seq(haveData)
    BY <1>2, <2>1
  <2> QED
    BY <2>1, <2>2, SeqFacts
<1>4. nSequenceId' \in [Block -> Int]
  <2>1. ASSUME NEW d \in Members(new)
        PROVE  nBlockSequenceId + (CHOOSE i \in DOMAIN new : new[i] = d) - 1 \in Int
    <3>1. \E i \in DOMAIN new : new[i] = d
      BY DEF Members
    <3>2. (CHOOSE i \in DOMAIN new : new[i] = d) \in DOMAIN new
      BY <3>1, Zenon
    <3>3. DOMAIN new \subseteq Int /\ nBlockSequenceId \in Int
      BY <1>1, SeqFacts DEF Base, TypeOK
    <3>4. \A x, y \in Int : x + y - 1 \in Int
      OBVIOUS
    <3> QED
      BY <3>2, <3>3, <3>4
  <2>2. nSequenceId' = [d \in Block |-> IF d \in Members(new)
          THEN nBlockSequenceId + (CHOOSE i \in DOMAIN new : new[i] = d) - 1
          ELSE nSequenceId[d]]
    BY DEF Link, new
  <2>3. \A d \in Block : nSequenceId[d] \in Int
    BY BaseFacts
  <2> QED
    BY <2>1, <2>2, <2>3
<1>5. nBlockSequenceId' \in Nat
  <2>1. Len(new) \in Nat /\ nBlockSequenceId \in Nat
    BY <1>1 DEF Base, TypeOK
  <2> QED
    BY <2>1 DEF Link, new
<1>6. candidates' \subseteq linked'
  BY BaseFacts DEF Link
<1> QED
  BY <1>1, <1>3, <1>4, <1>5, <1>6 DEF new, Link

(* What a thread inside ActivateBestChain works towards, and what it discards
   in choosing it.                                                          *)
Target(t) == IF mostWork[t] = None THEN FindMostWorkChain ELSE mostWork[t]

Gone(t) == IF mostWork[t] = None THEN Discarded ELSE {}

LEMMA GoneFacts ==
  ASSUME Base, NEW t \in Thread, NEW d \in Gone(t)
  PROVE  /\ d \in linked /\ d \notin Ancestors[tip] /\ ~Usable(d)
         /\ \E h \in Ancestors[d] : h \in Failed
<1>1. d \in Discarded
  BY DEF Gone
<1>2. candidates \subseteq Block /\ tip \in Block
  BY BaseFacts
<1>3. PICK c \in candidates : d \in Ancestors[c]
  BY <1>1, <1>2, DiscardedFacts
<1>4. d \in linked
  BY <1>3, BaseFacts
<1> QED
  BY <1>1, <1>2, <1>4, DiscardedFacts

LEMMA TargetFacts ==
  ASSUME Base, NEW t \in Thread
  PROVE  Target(t) = None \/ /\ Target(t) \in linked /\ Target(t) \in Block
                             /\ Ancestors[Target(t)] \subseteq linked
<1>1. FindMostWorkChain = None \/ FindMostWorkChain \in candidates
  BY BaseFacts, FindFacts
<1>2. Target(t) = None \/ Target(t) \in linked
  BY <1>1, BaseFacts DEF Target, Base
<1> QED
  BY <1>2, BaseFacts

LEMMA DoneEffects ==
  ASSUME NEW t \in Thread, ActivateDone(t)
  PROVE  /\ pc[t] = "activate" /\ Target(t) \in {None, tip}
         /\ candidates' = candidates \ Gone(t)
         /\ failedChild' = failedChild \cup (Gone(t) \ Failed)
         /\ pc' = [pc EXCEPT ![t] = "idle"] /\ mostWork' = [mostWork EXCEPT ![t] = None]
         /\ mapBlockIndex' = mapBlockIndex /\ haveData' = haveData /\ linked' = linked
         /\ unlinked' = unlinked /\ validScripts' = validScripts /\ failedValid' = failedValid
         /\ gFailedBlocks' = gFailedBlocks /\ tip' = tip
         /\ nSequenceId' = nSequenceId /\ nBlockSequenceId' = nBlockSequenceId
         /\ nBlockReverseSequenceId' = nBlockReverseSequenceId
         /\ nLastPreciousChainwork' = nLastPreciousChainwork
  BY Zenon DEF ActivateDone, Target, Gone, data, ids, prec

LEMMA StepEffects ==
  ASSUME NEW t \in Thread, ActivateBestChainStep(t)
  PROVE  /\ pc[t] = "activate" /\ Target(t) # None /\ Target(t) # tip
         /\ tip' = Moved(Target(t))
         /\ validScripts' = validScripts \cup (Connected(Target(t)) \ Failed)
         /\ gFailedBlocks' = gFailedBlocks \cup Rejected(Target(t))
         /\ failedValid' = failedValid \cup Rejected(Target(t))
         /\ failedChild' = failedChild \cup (Gone(t) \ Failed)
         /\ candidates' = (IF Connected(Target(t)) = {} THEN candidates \ Gone(t)
                           ELSE Pruned(candidates \ Gone(t), tip')) \ Rejected(Target(t))
         /\ IF tip' = Target(t) /\ Rejected(Target(t)) = {}
            THEN pc' = [pc EXCEPT ![t] = "idle"] /\ mostWork' = [mostWork EXCEPT ![t] = None]
            ELSE pc' = pc /\ mostWork' = [mostWork EXCEPT ![t] =
                   IF Rejected(Target(t)) = {} THEN Target(t) ELSE None]
         /\ mapBlockIndex' = mapBlockIndex /\ haveData' = haveData /\ linked' = linked
         /\ unlinked' = unlinked
         /\ nSequenceId' = nSequenceId /\ nBlockSequenceId' = nBlockSequenceId
         /\ nBlockReverseSequenceId' = nBlockReverseSequenceId
         /\ nLastPreciousChainwork' = nLastPreciousChainwork
<1> DEFINE mw == Target(t)
           gone == Gone(t)
<1>1. /\ pc[t] = "activate" /\ mw \notin {None, tip}
      /\ tip' = Highest(Connected(mw) \cup {Fork(mw)})
      /\ validScripts' = validScripts \cup (Connected(mw) \ Failed)
      /\ InvalidBlockFound(Rejected(mw))
      /\ failedChild' = failedChild \cup (gone \ Failed)
      /\ candidates' = (IF Connected(mw) = {} THEN candidates \ gone
                        ELSE Pruned(candidates \ gone, tip')) \ Rejected(mw)
      /\ IF tip' = mw /\ Rejected(mw) = {}
         THEN pc' = [pc EXCEPT ![t] = "idle"] /\ mostWork' = [mostWork EXCEPT ![t] = None]
         ELSE UNCHANGED pc /\ mostWork' = [mostWork EXCEPT ![t] =
                IF Rejected(mw) = {} THEN mw ELSE None]
      /\ UNCHANGED <<data, ids, prec>>
  BY Zenon DEF ActivateBestChainStep, Target, Gone
<1> HIDE DEF mw, gone
<1>2. tip' = Moved(mw) /\ mw # None /\ mw # tip
  BY <1>1 DEF Moved
<1>3. /\ gFailedBlocks' = gFailedBlocks \cup Rejected(mw) /\ failedValid' = failedValid \cup Rejected(mw)
  BY <1>1 DEF InvalidBlockFound
<1>4. /\ mapBlockIndex' = mapBlockIndex /\ haveData' = haveData /\ linked' = linked
      /\ unlinked' = unlinked
      /\ nSequenceId' = nSequenceId /\ nBlockSequenceId' = nBlockSequenceId
      /\ nBlockReverseSequenceId' = nBlockReverseSequenceId
      /\ nLastPreciousChainwork' = nLastPreciousChainwork
  BY <1>1 DEF data, ids, prec
<1>5. IF tip' = mw /\ Rejected(mw) = {}
      THEN pc' = [pc EXCEPT ![t] = "idle"] /\ mostWork' = [mostWork EXCEPT ![t] = None]
      ELSE pc' = pc /\ mostWork' = [mostWork EXCEPT ![t] =
             IF Rejected(mw) = {} THEN mw ELSE None]
  BY <1>1, Zenon
<1> QED
  BY <1>1, <1>2, <1>3, <1>4, <1>5, Zenon DEF mw, gone


(* InvalidateBlock in the terms of the tree.                                *)
LEMMA InvalidateEffects ==
  ASSUME Base, NEW t \in Thread, NEW b \in Operated, InvalidateBlock(t, b)
  PROVE  /\ pc[t] = "idle" /\ b \in mapBlockIndex /\ b # Genesis /\ b \in Block
         /\ tip' = IF b \in Ancestors[tip] THEN Parent[b] ELSE tip
         /\ tip' \in Ancestors[tip] /\ b \notin Ancestors[tip'] /\ tip' \in Block
         /\ nChainWork[tip'] <= nChainWork[tip]
         /\ failedChild' \subseteq failedChild \cup Ancestors[tip]
         /\ failedChild \subseteq failedChild'
         /\ \A d \in failedChild' \ failedChild : b \in Ancestors[d]
         /\ candidates' \subseteq linked
         /\ \A c \in candidates' : c \in candidates \/ ~Worse(c, tip')
         /\ failedValid' = failedValid \cup {b} /\ gFailedBlocks' = gFailedBlocks \cup {b}
         /\ Activate(t)
         /\ mapBlockIndex' = mapBlockIndex /\ haveData' = haveData /\ linked' = linked
         /\ unlinked' = unlinked /\ validScripts' = validScripts
         /\ nSequenceId' = nSequenceId /\ nBlockSequenceId' = nBlockSequenceId
         /\ nBlockReverseSequenceId' = nBlockReverseSequenceId
         /\ nLastPreciousChainwork' = nLastPreciousChainwork
<1> DEFINE cut == IF b \in Ancestors[tip] THEN Ancestors[tip] \ Ancestors[b] ELSE {}
<1>1. /\ pc[t] = "idle" /\ b \in mapBlockIndex /\ b # Genesis /\ b \in Block /\ tip \in Block
  BY BaseFacts, TreeAssumption DEF InvalidateBlock
<1>2. /\ tip' = IF b \in Ancestors[tip] THEN Parent[b] ELSE tip
      /\ failedChild' = failedChild \cup cut
      /\ candidates' = (candidates \ (cut \cup {b})) \cup
             {c \in linked \ (Failed \cup cut \cup {b}) : ~Worse(c, tip')}
  BY DEF InvalidateBlock
<1>3. /\ failedValid' = failedValid \cup {b} /\ gFailedBlocks' = gFailedBlocks \cup {b}
      /\ Activate(t)
      /\ mapBlockIndex' = mapBlockIndex /\ haveData' = haveData /\ linked' = linked
      /\ unlinked' = unlinked /\ validScripts' = validScripts
      /\ nSequenceId' = nSequenceId /\ nBlockSequenceId' = nBlockSequenceId
      /\ nBlockReverseSequenceId' = nBlockReverseSequenceId
      /\ nLastPreciousChainwork' = nLastPreciousChainwork
  BY DEF InvalidateBlock, data, ids, prec
<1>4. cut \subseteq Ancestors[tip] /\ \A d \in cut : b \in Ancestors[d]
  BY <1>1, Comparable
<1>5. CASE b \in Ancestors[tip]
  <2>1. /\ tip' = Parent[b] /\ Parent[b] \in Block /\ b \notin Ancestors[Parent[b]]
        /\ Parent[b] \in Ancestors[b] /\ Ancestors[b] \subseteq Ancestors[tip]
    BY <1>1, <1>2, <1>5, Tree
  <2>2. Parent[b] \in Ancestors[tip] /\ nChainWork[Parent[b]] <= nChainWork[tip]
    BY <1>1, <2>1, Tree
  <2> HIDE DEF cut
  <2> QED
    BY <1>1, <1>2, <1>3, <1>4, <2>1, <2>2, BaseFacts
<1>6. CASE b \notin Ancestors[tip]
  <2>1. tip' = tip /\ tip \in Ancestors[tip] /\ nChainWork[tip] <= nChainWork[tip]
    BY <1>1, <1>2, <1>6, Tree
  <2> HIDE DEF cut
  <2> QED
    BY <1>1, <1>2, <1>3, <1>4, <1>6, <2>1, BaseFacts
<1> QED
  BY <1>5, <1>6


(* ResetBlockFailureFlags only clears flags and only adds candidates.       *)
LEMMA ResetEffects ==
  ASSUME NEW t \in Thread, NEW b \in Operated, ResetBlockFailureFlags(t, b)
  PROVE  /\ pc[t] = "idle" /\ failedValid' \subseteq failedValid
         /\ failedChild' \subseteq failedChild /\ gFailedBlocks' \subseteq gFailedBlocks
         /\ candidates' \subseteq linked \cup candidates /\ candidates \subseteq candidates'
         /\ \A c \in candidates' : c \in candidates \/ Worse(tip, c)
         /\ Activate(t)
         /\ mapBlockIndex' = mapBlockIndex /\ haveData' = haveData /\ linked' = linked
         /\ unlinked' = unlinked /\ validScripts' = validScripts /\ tip' = tip
         /\ nSequenceId' = nSequenceId /\ nBlockSequenceId' = nBlockSequenceId
         /\ nBlockReverseSequenceId' = nBlockReverseSequenceId
         /\ nLastPreciousChainwork' = nLastPreciousChainwork
<1> DEFINE below == {d \in mapBlockIndex : b \in Ancestors[d] /\ d \notin haveData \ Failed}
<1>1. /\ pc[t] = "idle"
      /\ failedValid' = failedValid \ (below \cup Ancestors[b])
      /\ failedChild' = failedChild \ (below \cup Ancestors[b])
      /\ gFailedBlocks' = gFailedBlocks \ below
      /\ candidates' = candidates \cup {d \in below \cap linked : Worse(tip, d)}
      /\ Activate(t)
      /\ mapBlockIndex' = mapBlockIndex /\ haveData' = haveData /\ linked' = linked
      /\ unlinked' = unlinked /\ validScripts' = validScripts /\ tip' = tip
      /\ nSequenceId' = nSequenceId /\ nBlockSequenceId' = nBlockSequenceId
      /\ nBlockReverseSequenceId' = nBlockReverseSequenceId
      /\ nLastPreciousChainwork' = nLastPreciousChainwork
  BY DEF ResetBlockFailureFlags, data, ids, prec
<1> HIDE DEF below
<1> QED
  BY <1>1

(* A step is one of these.                                                  *)
LEMMA NextCases ==
  ASSUME Next
  PROVE  \/ \E b \in Block : AcceptBlockHeader(b) \/ RejectBlockHeader(b)
         \/ \E t \in Thread, b \in Block, r \in BOOLEAN : ProcessNewBlock(t, b, r)
         \/ \E t \in Thread : ActivateDone(t) \/ ActivateBestChainStep(t)
         \/ \E t \in Thread, b \in Operated :
              \/ PreciousBlock(t, b) /\ b \in Block
              \/ InvalidateBlock(t, b) \/ ResetBlockFailureFlags(t, b)
BY TreeAssumption DEF Next, Activation

LEMMA BaseNext == Base /\ [Next]_vars => Base'
<1>BaseStutter. Base /\ UNCHANGED vars => Base'
  <2> SUFFICES ASSUME Base, UNCHANGED vars PROVE Base'
    OBVIOUS
  <2>1. /\ mapBlockIndex' = mapBlockIndex /\ haveData' = haveData /\ linked' = linked
        /\ unlinked' = unlinked /\ validScripts' = validScripts /\ failedValid' = failedValid
        /\ failedChild' = failedChild /\ gFailedBlocks' = gFailedBlocks /\ tip' = tip
        /\ nSequenceId' = nSequenceId /\ nBlockSequenceId' = nBlockSequenceId
        /\ nBlockReverseSequenceId' = nBlockReverseSequenceId
        /\ nLastPreciousChainwork' = nLastPreciousChainwork
        /\ candidates' = candidates /\ pc' = pc /\ mostWork' = mostWork
    BY DEF vars, data, flags, ids, prec
  <2>2. Waits'
    BY <2>1, WaitsKept DEF Base
  <2>3. TypeOK'
    BY <2>1 DEF Base, TypeOK
  <2> QED
    BY <2>1, <2>2, <2>3 DEF Base
<1>BaseHeader. ASSUME Base, NEW b \in Block, AcceptBlockHeader(b) \/ RejectBlockHeader(b)
               PROVE  Base'
  <2> USE <1>BaseHeader
  <2>1. /\ b \notin mapBlockIndex /\ Parent[b] \in mapBlockIndex /\ b # Genesis
        /\ Ancestors[Parent[b]] \subseteq mapBlockIndex
    BY BaseFacts DEF AcceptBlockHeader, RejectBlockHeader, NewHeader, Base, TypeOK
  <2>2. /\ mapBlockIndex' = mapBlockIndex \cup {b} \/ mapBlockIndex' = mapBlockIndex
        /\ haveData' = haveData /\ linked' = linked /\ unlinked' = unlinked
        /\ validScripts' = validScripts /\ failedValid' = failedValid
        /\ failedChild' \subseteq failedChild \cup Ancestors[Parent[b]]
        /\ gFailedBlocks' = gFailedBlocks
        /\ nSequenceId' = nSequenceId /\ nBlockSequenceId' = nBlockSequenceId
        /\ nBlockReverseSequenceId' = nBlockReverseSequenceId
        /\ nLastPreciousChainwork' = nLastPreciousChainwork
        /\ candidates' = candidates /\ tip' = tip /\ pc' = pc /\ mostWork' = mostWork
    <3>1. CASE AcceptBlockHeader(b)
      BY <3>1 DEF AcceptBlockHeader, flags, ids, prec
    <3>2. CASE RejectBlockHeader(b)
      BY <3>2 DEF RejectBlockHeader, data, ids, prec
    <3> QED
      BY <3>1, <3>2
  <2>3. TypeOK'
    BY <2>1, <2>2 DEF Base, TypeOK
  <2>4. Waits'
    BY <2>2 DEF Base, Waits, Members
  <2> QED
    BY <2>2, <2>3, <2>4 DEF Base
<1>BaseLink. ASSUME Base, NEW t \in Thread, NEW b \in Block, BlockArrives(t, b), Link(t, b)
             PROVE  Base'
  <2> USE <1>BaseLink
  <2> DEFINE New == Members(NewlyLinked(b))
  <2>1. /\ New \subseteq haveData' /\ b \in New /\ haveData' = haveData \cup {b}
        /\ linked' = linked \cup New /\ Parent[b] \in linked
        /\ \A d \in New \ {b} : /\ Parent[d] \in New /\ d # Genesis
                                /\ d \in Members(unlinked[Parent[d]]) /\ d \in haveData
        /\ nSequenceId' \in [Block -> Int] /\ nBlockSequenceId' \in Nat /\ candidates' \subseteq linked'
    BY LinkFacts DEF Link
  <2>2. /\ mapBlockIndex' = mapBlockIndex \cup {b} /\ Parent[b] \in mapBlockIndex /\ b # Genesis
        /\ validScripts' = validScripts /\ failedChild' = failedChild /\ failedValid' = failedValid
        /\ gFailedBlocks' = gFailedBlocks /\ tip' = tip
        /\ nBlockReverseSequenceId' = nBlockReverseSequenceId
        /\ nLastPreciousChainwork' = nLastPreciousChainwork
        /\ unlinked' = [p \in Block |-> IF p \in New THEN <<>> ELSE unlinked[p]]
    BY DEF BlockArrives, Link
  <2> HIDE DEF New
  <2>3. /\ pc' \in [Thread -> {"idle", "activate"}] /\ mostWork' \in [Thread -> Block \cup {None}]
        /\ \A u \in Thread : mostWork'[u] = mostWork[u] \/ mostWork'[u] = None
    BY ActivateFacts DEF Link
  <2>4. unlinked' \in [Block -> Seq(haveData')] /\ Waits'
    <3>1. unlinked \in [Block -> Seq(haveData)] /\ Waits
      BY DEF Base, TypeOK
    <3>2. \A p \in Block : unlinked[p] \in Seq(haveData')
      BY <2>1, <3>1
    <3>3. unlinked' \in [Block -> Seq(haveData')] /\ unlinked' \in [Block -> Seq(Block)]
      BY <2>2, <3>1, <3>2 DEF Waits
    <3>4. ASSUME NEW p \in Block, NEW d \in Members(unlinked'[p]) PROVE d # Genesis /\ Parent[d] = p
      <4>1. CASE p \in New
        BY <2>2, <3>4, <4>1 DEF Members
      <4>2. CASE p \notin New
        BY <2>2, <3>1, <3>4, <4>2 DEF Waits
      <4> QED
        BY <4>1, <4>2
    <3> QED
      BY <3>3, <3>4 DEF Waits, Members
  <2>5. TypeOK'
    BY <2>1, <2>2, <2>3, <2>4 DEF Base, TypeOK
  <2>6. \A d \in linked' \ {Genesis} : Parent[d] \in linked'
    BY <2>1 DEF Base
  <2>7. \A u \in Thread : mostWork'[u] \in linked' \cup {None}
    BY <2>1, <2>3 DEF Base
  <2> QED
    BY <2>1, <2>4, <2>5, <2>6, <2>7 DEF Base
<1>BaseSetAside. ASSUME Base, NEW t \in Thread, NEW b \in Block, BlockArrives(t, b), SetAside(t, b)
                 PROVE  Base'
  <2> USE <1>BaseSetAside
  <2>1. /\ haveData' = haveData \cup {b} /\ linked' = linked
        /\ mapBlockIndex' = mapBlockIndex \cup {b} /\ Parent[b] \in mapBlockIndex /\ b # Genesis
        /\ validScripts' = validScripts /\ failedChild' = failedChild /\ failedValid' = failedValid
        /\ gFailedBlocks' = gFailedBlocks /\ tip' = tip /\ candidates' = candidates
        /\ nBlockReverseSequenceId' = nBlockReverseSequenceId
        /\ nLastPreciousChainwork' = nLastPreciousChainwork
        /\ nSequenceId' = nSequenceId /\ nBlockSequenceId' = nBlockSequenceId
    BY DEF BlockArrives, SetAside
  <2>2. /\ pc' \in [Thread -> {"idle", "activate"}] /\ mostWork' \in [Thread -> Block \cup {None}]
        /\ \A u \in Thread : mostWork'[u] = mostWork[u] \/ mostWork'[u] = None
    BY ActivateFacts DEF SetAside
  <2>3. /\ unlinked \in [Block -> Seq(haveData)] /\ Waits /\ Parent[b] \in Block
        /\ mapBlockIndex \subseteq Block /\ haveData \subseteq Block
    BY <2>1, BaseFacts DEF Base, TypeOK
  <2>4. unlinked' \in [Block -> Seq(haveData')] /\ Waits'
    <3>1. CASE unlinked' = unlinked
      <4>1. unlinked \in [Block -> Seq(haveData')]
        BY <2>1, <2>3
      <4> QED
        BY <2>3, <3>1, <4>1 DEF Waits, Members
    <3>2. CASE unlinked' = [unlinked EXCEPT ![Parent[b]] = Append(@, b)]
      <4> DEFINE s == unlinked[Parent[b]]
      <4>1. s \in Seq(haveData) /\ s \in Seq(haveData') /\ s \in Seq(Block)
        BY <2>1, <2>3 DEF Waits
      <4>2. /\ Append(s, b) \in Seq(haveData') /\ Append(s, b) \in Seq(Block)
            /\ Members(Append(s, b)) = Members(s) \cup {b}
        <5>1. b \in haveData'
          BY <2>1
        <5> QED
          BY <4>1, <5>1, AppendFacts
      <4>3. \A p \in Block : unlinked'[p] = IF p = Parent[b] THEN Append(s, b) ELSE unlinked[p]
        BY <2>3, <3>2
      <4>4. unlinked' \in [Block -> Seq(haveData')] /\ unlinked' \in [Block -> Seq(Block)]
        <5>1. \A p \in Block : unlinked[p] \in Seq(haveData') /\ unlinked[p] \in Seq(Block)
          BY <2>1, <2>3 DEF Waits
        <5> HIDE DEF s
        <5> QED
          BY <2>3, <3>2, <4>2, <4>3, <5>1
      <4>5. ASSUME NEW p \in Block, NEW d \in Members(unlinked'[p]) PROVE d # Genesis /\ Parent[d] = p
        BY <2>1, <2>3, <4>2, <4>3, <4>5 DEF Waits
      <4> QED
        BY <4>4, <4>5 DEF Waits, Members
    <3> QED
      BY <3>1, <3>2 DEF SetAside
  <2>5. TypeOK'
    BY <2>1, <2>2, <2>4 DEF Base, TypeOK
  <2> QED
    BY <2>1, <2>2, <2>4, <2>5 DEF Base
<1>BaseIgnoreRefuse. ASSUME Base, NEW t \in Thread, NEW b \in Block, BlockArrives(t, b), Ignore(t) \/ Refuse(b)
                     PROVE  Base'
  <2> USE <1>BaseIgnoreRefuse
  <2>1. /\ haveData' = haveData /\ linked' = linked /\ unlinked' = unlinked
        /\ mapBlockIndex' = mapBlockIndex \cup {b} /\ Parent[b] \in mapBlockIndex /\ b # Genesis
        /\ validScripts' = validScripts /\ failedChild' = failedChild
        /\ failedValid' \subseteq failedValid \cup {b}
        /\ gFailedBlocks' = gFailedBlocks /\ tip' = tip /\ candidates' = candidates
        /\ nBlockReverseSequenceId' = nBlockReverseSequenceId
        /\ nLastPreciousChainwork' = nLastPreciousChainwork
        /\ nSequenceId' = nSequenceId /\ nBlockSequenceId' = nBlockSequenceId
    BY DEF BlockArrives, Ignore, Refuse
  <2>2. /\ pc' \in [Thread -> {"idle", "activate"}] /\ mostWork' \in [Thread -> Block \cup {None}]
        /\ \A u \in Thread : mostWork'[u] = mostWork[u] \/ mostWork'[u] = None
    <3>1. CASE Ignore(t)
      BY <3>1, ActivateFacts DEF Ignore
    <3>2. CASE Refuse(b)
      BY <3>2 DEF Refuse, Base, TypeOK
    <3> QED
      BY <3>1, <3>2
  <2>3. Waits'
    BY <2>1, WaitsKept DEF Base
  <2>4. TypeOK'
    BY <2>1, <2>2 DEF Base, TypeOK
  <2> QED
    BY <2>1, <2>2, <2>3, <2>4 DEF Base
<1>BaseBlock. ASSUME Base, NEW t \in Thread, NEW b \in Block, NEW r \in BOOLEAN, ProcessNewBlock(t, b, r)
              PROVE  Base'
  BY <1>BaseBlock, BlockCases, <1>BaseIgnoreRefuse, <1>BaseLink, <1>BaseSetAside
<1>BaseDone. ASSUME Base, NEW t \in Thread, ActivateDone(t)
             PROVE  Base'
  <2> USE <1>BaseDone
  <2>1. /\ candidates' = candidates \ Gone(t)
        /\ failedChild' = failedChild \cup (Gone(t) \ Failed)
        /\ pc' = [pc EXCEPT ![t] = "idle"] /\ mostWork' = [mostWork EXCEPT ![t] = None]
        /\ mapBlockIndex' = mapBlockIndex /\ haveData' = haveData /\ linked' = linked
        /\ unlinked' = unlinked /\ validScripts' = validScripts /\ failedValid' = failedValid
        /\ gFailedBlocks' = gFailedBlocks /\ tip' = tip
        /\ nSequenceId' = nSequenceId /\ nBlockSequenceId' = nBlockSequenceId
        /\ nBlockReverseSequenceId' = nBlockReverseSequenceId
        /\ nLastPreciousChainwork' = nLastPreciousChainwork
    BY DoneEffects
  <2>2. Gone(t) \subseteq linked /\ linked \subseteq mapBlockIndex
    BY GoneFacts, BaseFacts
  <2>3. /\ pc' \in [Thread -> {"idle", "activate"}] /\ mostWork' \in [Thread -> Block \cup {None}]
        /\ \A u \in Thread : mostWork'[u] = mostWork[u] \/ mostWork'[u] = None
    BY <2>1 DEF Base, TypeOK
  <2>4. Waits'
    BY <2>1, WaitsKept DEF Base
  <2>5. TypeOK'
    BY <2>1, <2>2, <2>3 DEF Base, TypeOK
  <2> QED
    BY <2>1, <2>3, <2>4, <2>5 DEF Base
<1>BaseStep. ASSUME Base, NEW t \in Thread, ActivateBestChainStep(t)
             PROVE  Base'
  <2> USE <1>BaseStep
  <2> DEFINE mw == Target(t)
  <2>1. /\ mw # None /\ tip' = Moved(mw)
        /\ validScripts' = validScripts \cup (Connected(mw) \ Failed)
        /\ gFailedBlocks' = gFailedBlocks \cup Rejected(mw)
        /\ failedValid' = failedValid \cup Rejected(mw)
        /\ failedChild' = failedChild \cup (Gone(t) \ Failed)
        /\ candidates' = (IF Connected(mw) = {} THEN candidates \ Gone(t)
                          ELSE Pruned(candidates \ Gone(t), tip')) \ Rejected(mw)
        /\ IF tip' = mw /\ Rejected(mw) = {}
           THEN pc' = [pc EXCEPT ![t] = "idle"] /\ mostWork' = [mostWork EXCEPT ![t] = None]
           ELSE pc' = pc /\ mostWork' = [mostWork EXCEPT ![t] =
                  IF Rejected(mw) = {} THEN mw ELSE None]
        /\ mapBlockIndex' = mapBlockIndex /\ haveData' = haveData /\ linked' = linked
        /\ unlinked' = unlinked
        /\ nSequenceId' = nSequenceId /\ nBlockSequenceId' = nBlockSequenceId
        /\ nBlockReverseSequenceId' = nBlockReverseSequenceId
        /\ nLastPreciousChainwork' = nLastPreciousChainwork
    BY StepEffects, Zenon
  <2>2. mw \in linked /\ mw \in Block /\ Ancestors[mw] \subseteq linked /\ tip \in Block
    BY <2>1, TargetFacts, BaseFacts
  <2> HIDE DEF mw
  <2>3. /\ Moved(mw) \in linked /\ Connected(mw) \subseteq linked /\ Rejected(mw) \subseteq linked
    BY <2>2, MovedFacts DEF OffChain
  <2>4. Gone(t) \subseteq linked /\ linked \subseteq haveData /\ haveData \subseteq mapBlockIndex
    BY GoneFacts, BaseFacts
  <2>5. candidates' \subseteq candidates
    BY <2>1 DEF Pruned
  <2>6. /\ pc' \in [Thread -> {"idle", "activate"}]
        /\ mostWork' \in [Thread -> Block \cup {None}]
        /\ \A u \in Thread : mostWork'[u] \in {mostWork[u], mw, None}
    <3>1. pc \in [Thread -> {"idle", "activate"}] /\ mostWork \in [Thread -> Block \cup {None}]
      BY DEF Base, TypeOK
    <3>2. CASE tip' = mw /\ Rejected(mw) = {}
      BY <2>1, <3>1, <3>2
    <3>3. CASE ~(tip' = mw /\ Rejected(mw) = {})
      <4>1. pc' = pc /\ (\/ mostWork' = [mostWork EXCEPT ![t] = mw]
                         \/ mostWork' = [mostWork EXCEPT ![t] = None])
        BY <2>1, <3>3
      <4> QED
        BY <2>2, <3>1, <4>1
    <3> QED
      BY <3>2, <3>3
  <2>7. Waits'
    BY <2>1, WaitsKept DEF Base
  <2>8. TypeOK'
    BY <2>1, <2>3, <2>4, <2>5, <2>6 DEF Base, TypeOK
  <2>9. \A u \in Thread : mostWork'[u] \in linked' \cup {None}
    BY <2>1, <2>2, <2>6 DEF Base
  <2> QED
    BY <2>1, <2>5, <2>7, <2>8, <2>9 DEF Base
<1>BasePrecious. ASSUME Base, NEW t \in Thread, NEW b \in Block, PreciousBlock(t, b)
                 PROVE  Base'
  <2> USE <1>BasePrecious
  <2> DEFINE rev == IF nChainWork[tip] > nLastPreciousChainwork THEN -1
                    ELSE nBlockReverseSequenceId
  <2>1. /\ nSequenceId' = [nSequenceId EXCEPT ![b] = rev]
        /\ nBlockReverseSequenceId' = rev - 1 /\ nLastPreciousChainwork' = nChainWork[tip]
        /\ candidates' \subseteq candidates \cup ({b} \cap linked)
        /\ Activate(t)
        /\ mapBlockIndex' = mapBlockIndex /\ haveData' = haveData /\ linked' = linked
        /\ unlinked' = unlinked /\ validScripts' = validScripts /\ failedValid' = failedValid
        /\ failedChild' = failedChild
        /\ gFailedBlocks' = gFailedBlocks /\ tip' = tip /\ nBlockSequenceId' = nBlockSequenceId
    BY DEF PreciousBlock, data, flags
  <2>2. rev \in Int /\ rev - 1 \in Int /\ nChainWork[tip] \in Nat
    <3>1. nChainWork[tip] \in Nat
      BY BaseFacts, TreeAssumption
    <3>2. nBlockReverseSequenceId \in Int
      BY DEF Base, TypeOK
    <3> QED
      BY <3>1, <3>2
  <2> HIDE DEF rev
  <2>3. /\ pc' \in [Thread -> {"idle", "activate"}] /\ mostWork' \in [Thread -> Block \cup {None}]
        /\ \A u \in Thread : mostWork'[u] = mostWork[u] \/ mostWork'[u] = None
    BY <2>1, ActivateFacts
  <2>4. nSequenceId' \in [Block -> Int]
    BY <2>1, <2>2 DEF Base, TypeOK
  <2>5. Waits'
    BY <2>1, WaitsKept DEF Base
  <2>6. TypeOK'
    BY <2>1, <2>2, <2>3, <2>4 DEF Base, TypeOK
  <2> QED
    BY <2>1, <2>3, <2>5, <2>6 DEF Base
<1>BaseInvalidate. ASSUME Base, NEW t \in Thread, NEW b \in Operated, InvalidateBlock(t, b)
                   PROVE  Base'
  <2> USE <1>BaseInvalidate
  <2>1. /\ b \in mapBlockIndex /\ tip' \in Ancestors[tip]
        /\ failedChild' \subseteq failedChild \cup Ancestors[tip]
        /\ candidates' \subseteq linked
        /\ failedValid' = failedValid \cup {b} /\ gFailedBlocks' = gFailedBlocks \cup {b}
        /\ Activate(t)
        /\ mapBlockIndex' = mapBlockIndex /\ haveData' = haveData /\ linked' = linked
        /\ unlinked' = unlinked /\ validScripts' = validScripts
        /\ nSequenceId' = nSequenceId /\ nBlockSequenceId' = nBlockSequenceId
        /\ nBlockReverseSequenceId' = nBlockReverseSequenceId
        /\ nLastPreciousChainwork' = nLastPreciousChainwork
    BY InvalidateEffects
  <2>2. tip' \in linked /\ Ancestors[tip] \subseteq mapBlockIndex /\ linked \subseteq mapBlockIndex
    BY <2>1, BaseFacts
  <2>3. /\ pc' \in [Thread -> {"idle", "activate"}] /\ mostWork' \in [Thread -> Block \cup {None}]
        /\ \A u \in Thread : mostWork'[u] = mostWork[u] \/ mostWork'[u] = None
    BY <2>1, ActivateFacts
  <2>4. Waits'
    BY <2>1, WaitsKept DEF Base
  <2>5. TypeOK'
    BY <2>1, <2>2, <2>3 DEF Base, TypeOK
  <2> QED
    BY <2>1, <2>3, <2>4, <2>5 DEF Base
<1>BaseReset. ASSUME Base, NEW t \in Thread, NEW b \in Operated, ResetBlockFailureFlags(t, b)
              PROVE  Base'
  <2> USE <1>BaseReset
  <2>1. /\ failedValid' \subseteq failedValid
        /\ failedChild' \subseteq failedChild /\ gFailedBlocks' \subseteq gFailedBlocks
        /\ candidates' \subseteq linked \cup candidates
        /\ Activate(t)
        /\ mapBlockIndex' = mapBlockIndex /\ haveData' = haveData /\ linked' = linked
        /\ unlinked' = unlinked /\ validScripts' = validScripts /\ tip' = tip
        /\ nSequenceId' = nSequenceId /\ nBlockSequenceId' = nBlockSequenceId
        /\ nBlockReverseSequenceId' = nBlockReverseSequenceId
        /\ nLastPreciousChainwork' = nLastPreciousChainwork
    BY ResetEffects
  <2>2. candidates' \subseteq linked /\ linked \subseteq mapBlockIndex
    BY <2>1, BaseFacts
  <2>3. /\ pc' \in [Thread -> {"idle", "activate"}] /\ mostWork' \in [Thread -> Block \cup {None}]
        /\ \A u \in Thread : mostWork'[u] = mostWork[u] \/ mostWork'[u] = None
    BY <2>1, ActivateFacts
  <2>4. Waits'
    BY <2>1, WaitsKept DEF Base
  <2>5. TypeOK'
    BY <2>1, <2>2, <2>3 DEF Base, TypeOK
  <2> QED
    BY <2>1, <2>2, <2>3, <2>4, <2>5 DEF Base
<1> SUFFICES ASSUME Base, Next PROVE Base'
  BY <1>BaseStutter
<1>1. CASE \E b \in Block : AcceptBlockHeader(b) \/ RejectBlockHeader(b)
  BY <1>1, <1>BaseHeader
<1>2. CASE \E t \in Thread, b \in Block, r \in BOOLEAN : ProcessNewBlock(t, b, r)
  BY <1>2, <1>BaseBlock
<1>3. CASE \E t \in Thread : ActivateDone(t) \/ ActivateBestChainStep(t)
  BY <1>3, <1>BaseDone, <1>BaseStep
<1>4. CASE \E t \in Thread, b \in Operated :
              \/ PreciousBlock(t, b) /\ b \in Block
              \/ InvalidateBlock(t, b) \/ ResetBlockFailureFlags(t, b)
  BY <1>4, <1>BasePrecious, <1>BaseInvalidate, <1>BaseReset
<1> QED
  BY <1>1, <1>2, <1>3, <1>4, NextCases, Zenon

(* Base is an invariant for any number of threads and any operator: a block
   has nChainTx only when its parent has, and setBlockIndexCandidates, the tip
   and every pindexMostWork are such blocks.                                *)
THEOREM BaseInvariance == Spec => []Base
<1>1. Init => Base
  BY BaseInit
<1>2. Base /\ [Next]_vars => Base'
  BY BaseNext
<1> QED
  BY <1>1, <1>2, PTL DEF Spec

(* The variables of the chain selection keep their types: chainActive ends in
   a block with nChainTx, every known block but the first has a known parent,
   mapBlocksUnlinked and setBlockIndexCandidates hold known blocks.         *)
THEOREM TypeCorrect == Spec => []TypeOK
<1>1. Base => TypeOK
  BY DEF Base
<1> QED
  BY <1>1, BaseInvariance, PTL
=============================================================================
