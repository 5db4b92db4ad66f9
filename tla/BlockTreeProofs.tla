-------------------------- MODULE BlockTreeProofs ---------------------------
(***************************************************************************)
(* Induction and recursion over the block tree.  What makes both sound is a *)
(* rank that grows from a block to its children: nHeight, or nChainWork.   *)
(*                                                                         *)
(* The principles are stated with sets in place of predicates, and with    *)
(* functions in place of operators, so that a first-order prover can use   *)
(* them: to show P for every block, cite TreeInduction with the set        *)
(* {b \in Block : P(b)}.                                                   *)
(***************************************************************************)
EXTENDS BlockTree, WellFoundedInduction, TLAPS

(* rank grows along every branch.                                           *)
IsRank(rank) ==
    /\ rank \in [Block -> Nat]
    /\ \A b \in Block \ {Genesis} : rank[Parent[b]] < rank[b]

(* Every non-empty set of natural numbers has a least element.              *)
LEMMA LeastNumber ==
  ASSUME NEW T \in SUBSET Nat, T # {}
  PROVE  \E x \in T : \A y \in T : x <= y
<1>1. PICK x \in T : \A y \in T : ~ (<<y, x>> \in OpToRel(<, Nat))
  BY NatLessThanWellFounded, WFMin, Zenon
<1>2. \A y \in T : ~(y < x)
  BY <1>1, Zenon DEF OpToRel
<1> QED
  BY <1>2

(* A set with 0 and, with every number, the next one has every number.      *)
LEMMA NumberInduction ==
  ASSUME NEW S, 0 \in S, \A n \in Nat : n \in S => n + 1 \in S
  PROVE  \A n \in Nat : n \in S
<1> SUFFICES ASSUME Nat \ S # {} PROVE FALSE
  OBVIOUS
<1>1. PICK x \in Nat \ S : \A y \in Nat \ S : x <= y
  BY LeastNumber
<1>2. x # 0 /\ x - 1 \in Nat /\ x - 1 < x /\ (x - 1) + 1 = x
  BY <1>1
<1>3. x - 1 \in S
  BY <1>1, <1>2
<1> QED
  BY <1>1, <1>2, <1>3

(* The same for the first len rounds of a loop.                             *)
LEMMA LoopInduction ==
  ASSUME NEW len \in Nat, NEW S, 0 \in S, \A n \in 1..len : n - 1 \in S => n \in S
  PROVE  \A n \in 0..len : n \in S
<1> DEFINE T == {n \in Nat : n <= len => n \in S}
<1>1. 0 \in T
  OBVIOUS
<1>2. ASSUME NEW n \in Nat, n \in T PROVE n + 1 \in T
  <2>1. n + 1 <= len => n <= len /\ n + 1 \in 1..len /\ (n + 1) - 1 = n
    OBVIOUS
  <2> QED
    BY <1>2, <2>1
<1>3. \A n \in Nat : n \in T
  <2> HIDE DEF T
  <2> QED
    BY <1>1, <1>2, NumberInduction
<1> QED
  BY <1>3

(* There are no len different numbers below m when len is more than m.      *)
LEMMA PigeonHole ==
  ASSUME NEW m \in Nat, NEW len \in Nat, NEW f \in [1..len -> 0..(m - 1)],
         \A i, j \in 1..len : f[i] = f[j] => i = j
  PROVE  len <= m
<1> DEFINE Inj(g, l) == \A i, j \in 1..l : g[i] = g[j] => i = j
           P(n) == \A l \in Nat : \A g \in [1..l -> 0..(n - 1)] : Inj(g, l) => l <= n
           S == {n \in Nat : P(n)}
<1>1. 0 \in S
  <2>1. ASSUME NEW l \in Nat, NEW g \in [1..l -> 0..(0 - 1)] PROVE l <= 0
    <3>1. l # 0 => 1 \in 1..l
      OBVIOUS
    <3>2. \A x \in 0..(0 - 1) : FALSE
      OBVIOUS
    <3>3. 1 \in 1..l => g[1] \in 0..(0 - 1)
      OBVIOUS
    <3> QED
      BY <3>1, <3>2, <3>3
  <2> QED
    BY <2>1
<1>2. ASSUME NEW n \in Nat, n \in S PROVE n + 1 \in S
  <2>1. ASSUME NEW l \in Nat, NEW g \in [1..l -> 0..n], Inj(g, l) PROVE l <= n + 1
    <3>1. CASE \A i \in 1..l : g[i] # n
      <4>1. \A i \in 1..l : g[i] \in 0..n /\ g[i] # n
        BY <3>1
      <4>2. \A x \in 0..n : x # n => x \in 0..(n - 1)
        OBVIOUS
      <4>3. g \in [1..l -> 0..(n - 1)]
        BY <4>1, <4>2
      <4>4. l <= n
        BY <1>2, <2>1, <4>3
      <4> QED
        BY <4>4
    <3>2. CASE \E i \in 1..l : g[i] = n
      <4>1. PICK i \in 1..l : g[i] = n
        BY <3>2
      <4> DEFINE h == [j \in 1..(l - 1) |-> IF j = i THEN g[l] ELSE g[j]]
      <4>2. l - 1 \in Nat /\ l \in 1..l /\ \A j \in 1..(l - 1) : j \in 1..l /\ j # l
        OBVIOUS
      <4>3. ASSUME NEW j \in 1..(l - 1) PROVE h[j] \in 0..(n - 1)
        <5>1. h[j] \in 0..n /\ h[j] # n
          BY <2>1, <4>1, <4>2
        <5> QED
          BY <5>1
      <4>4. Inj(h, l - 1)
        BY <2>1, <4>2
      <4>5. h \in [1..(l - 1) -> 0..(n - 1)]
        BY <4>3
      <4> HIDE DEF h
      <4>6. l - 1 <= n
        BY <1>2, <4>2, <4>4, <4>5
      <4> QED
        BY <4>6
    <3> QED
      BY <3>1, <3>2
  <2>2. (n + 1) - 1 = n
    OBVIOUS
  <2> QED
    BY <2>1, <2>2
<1>3. \A n \in Nat : n \in S
  <2> HIDE DEF S
  <2> QED
    BY <1>1, <1>2, NumberInduction
<1>4. P(m)
  BY <1>3
<1> QED
  BY <1>4

(* f is the run of a loop that starts with base and whose n-th round maps v to
   step[<<n, v>>].                                                          *)
IsLoop(f, base, step, len) ==
    f = [n \in 0..len |-> IF n = 0 THEN base ELSE step[<<n, f[n - 1]>>]]

LEMMA LoopExists ==
  ASSUME NEW V, NEW base \in V, NEW step \in [Nat \X V -> V], NEW len \in Nat
  PROVE  \E f \in [0..len -> V] : IsLoop(f, base, step, len)
<1> DEFINE S == {n \in Nat : \E f \in [0..n -> V] : IsLoop(f, base, step, n)}
<1>1. 0 \in S
  <2> DEFINE f == [n \in 0..0 |-> base]
  <2>1. f \in [0..0 -> V] /\ IsLoop(f, base, step, 0)
    BY DEF IsLoop
  <2> QED
    BY <2>1
<1>2. ASSUME NEW n \in Nat, n \in S PROVE n + 1 \in S
  <2>1. PICK f \in [0..n -> V] : IsLoop(f, base, step, n)
    BY <1>2
  <2> DEFINE g == [i \in 0..n + 1 |-> IF i = n + 1 THEN step[<<n + 1, f[n]>>] ELSE f[i]]
  <2>2. f[n] \in V /\ \A i \in 0..n : f[i] = IF i = 0 THEN base ELSE step[<<i, f[i - 1]>>]
    BY <2>1 DEF IsLoop
  <2>3. ASSUME NEW i \in 0..n + 1
        PROVE  g[i] \in V /\ g[i] = IF i = 0 THEN base ELSE step[<<i, g[i - 1]>>]
    <3>1. CASE i = n + 1
      <4>1. i - 1 = n /\ i # 0 /\ g[i - 1] = f[n]
        BY <3>1
      <4>2. step[<<n + 1, f[n]>>] \in V
        BY <2>2
      <4> QED
        BY <3>1, <4>1, <4>2
    <3>2. CASE i # n + 1
      <4>1. i \in 0..n /\ (i # 0 => i - 1 \in 0..n /\ i - 1 # n + 1)
        BY <3>2
      <4>2. g[i] = f[i] /\ (i # 0 => g[i - 1] = f[i - 1])
        BY <3>2, <4>1
      <4> QED
        BY <2>2, <4>1, <4>2
    <3> QED
      BY <3>1, <3>2
  <2>4. g \in [0..n + 1 -> V] /\ IsLoop(g, base, step, n + 1)
    BY <2>3 DEF IsLoop
  <2> HIDE DEF g
  <2>5. \E h \in [0..n + 1 -> V] : IsLoop(h, base, step, n + 1)
    BY <2>4, Zenon
  <2> QED
    BY <2>5
<1>3. \A n \in Nat : n \in S
  <2> HIDE DEF S
  <2> QED
    BY <1>1, <1>2, NumberInduction
<1> QED
  BY <1>3, Zenon

-----------------------------------------------------------------------------
(* Every non-empty set of blocks has one of least rank.                     *)
LEMMA LeastBlock ==
  ASSUME NEW rank, IsRank(rank), NEW S \in SUBSET Block, S # {}
  PROVE  \E b \in S : \A c \in S : rank[b] <= rank[c]
<1> DEFINE T == {rank[b] : b \in S}
<1>1. T \in SUBSET Nat /\ T # {}
  BY DEF IsRank
<1>2. PICK x \in T : \A y \in T : x <= y
  BY <1>1, LeastNumber
<1> QED
  BY <1>2

(* Induction along pprev: a set that has the genesis block, and every block
   whose parent it has, has every block.                                    *)
LEMMA TreeInduction ==
  ASSUME NEW rank, IsRank(rank),
         NEW S, Genesis \in S,
         \A b \in Block \ {Genesis} : Parent[b] \in S => b \in S
  PROVE  \A b \in Block : b \in S
<1> SUFFICES ASSUME Block \ S # {} PROVE FALSE
  OBVIOUS
<1>1. PICK b \in Block \ S : \A c \in Block \ S : rank[b] <= rank[c]
  BY LeastBlock
<1>2. b # Genesis /\ Parent[b] \in Block /\ Parent[b] \notin S
  BY <1>1, ParentAssumption
<1>3. rank[Parent[b]] < rank[b] /\ rank[Parent[b]] \in Nat /\ rank[b] \in Nat
  BY <1>1, <1>2 DEF IsRank
<1> QED
  BY <1>1, <1>2, <1>3

(* f has the value base at the genesis block, and elsewhere is computed by step
   from its value at the parent.                                            *)
IsTreeFunction(f, base, step) ==
    f = [b \in Block |-> IF b = Genesis THEN base ELSE step[<<b, f[Parent[b]]>>]]

(* A definition by recursion along pprev has a solution.                    *)
LEMMA TreeRecursion ==
  ASSUME NEW rank, IsRank(rank),
         NEW V, NEW base \in V, NEW step \in [Block \X V -> V]
  PROVE  \E f \in [Block -> V] : IsTreeFunction(f, base, step)
<1> DEFINE Solves(g, b) == g[b] = IF b = Genesis THEN base ELSE step[<<b, g[Parent[b]]>>]
           Upto(n) == {b \in Block : rank[b] <= n}
           Partial(n) == {g \in [Block -> V] : \A b \in Upto(n) : Solves(g, b)}
<1>0. /\ \A b \in Block : rank[b] \in Nat
      /\ \A b \in Block \ {Genesis} : Parent[b] \in Block /\ rank[Parent[b]] < rank[b]
  BY ParentAssumption DEF IsRank
<1>1. ASSUME NEW n \in Nat, NEW g \in Partial(n), NEW h \in Partial(n)
      PROVE  \A b \in Upto(n) : g[b] = h[b]
  <2> DEFINE S == {b \in Block : b \in Upto(n) => g[b] = h[b]}
  <2>1. Genesis \in S
    BY ParentAssumption
  <2>2. ASSUME NEW b \in Block \ {Genesis}, Parent[b] \in S
        PROVE  b \in S
    <3> SUFFICES ASSUME b \in Upto(n) PROVE g[b] = h[b]
      OBVIOUS
    <3>1. Parent[b] \in Upto(n)
      <4>1. rank[b] <= n
        BY Zenon
      <4> HIDE DEF Partial, Solves
      <4> QED
        BY <1>0, <4>1
    <3>2. g[Parent[b]] = h[Parent[b]]
      BY <2>2, <3>1
    <3> QED
      BY <3>2
  <2>3. \A b \in Block : b \in S
    BY <2>1, <2>2, TreeInduction
  <2> QED
    BY <2>3
<1> DEFINE Good == {n \in Nat : Partial(n) # {}}
<1>2. 0 \in Good
  <2> DEFINE g == [b \in Block |-> base]
  <2>1. ASSUME NEW b \in Upto(0) PROVE b = Genesis
    BY <1>0
  <2>2. g \in Partial(0)
    BY <2>1, ParentAssumption
  <2> QED
    BY <2>2
<1>3. ASSUME NEW n \in Nat, n \in Good PROVE n + 1 \in Good
  <2>1. PICK g \in [Block -> V] : \A b \in Upto(n) : Solves(g, b)
    BY <1>3
  <2> DEFINE h == [b \in Block |-> IF b \in Upto(n) THEN g[b]
                      ELSE IF b = Genesis THEN base ELSE step[<<b, g[Parent[b]]>>]]
  <2>2. h \in [Block -> V]
    BY <2>1, ParentAssumption
  <2>3. ASSUME NEW b \in Upto(n + 1) PROVE Solves(h, b)
    <3>1. CASE b = Genesis
      BY <2>1, <3>1
    <3>2. CASE b # Genesis
      <4>1. Parent[b] \in Upto(n)
        BY <2>3, <3>2, ParentAssumption DEF IsRank
      <4>2. h[Parent[b]] = g[Parent[b]]
        BY <4>1
      <4>3. h[b] = step[<<b, g[Parent[b]]>>]
        BY <2>1, <3>2
      <4> QED
        BY <3>2, <4>2, <4>3
    <3> QED
      BY <3>1, <3>2
  <2>4. h \in Partial(n + 1)
    BY <2>2, <2>3
  <2>5. n + 1 \in Nat
    OBVIOUS
  <2> QED
    BY <2>4, <2>5, Zenon
<1>4. \A n \in Nat : n \in Good
  <2> SUFFICES ASSUME Nat \ Good # {} PROVE FALSE
    OBVIOUS
  <2> HIDE DEF Good
  <2>1. PICK x \in Nat \ Good : \A y \in Nat \ Good : x <= y
    BY LeastNumber
  <2>2. x # 0 /\ x - 1 \in Nat
    BY <2>1, <1>2
  <2>3. x - 1 \in Good
    BY <2>1, <2>2
  <2> QED
    BY <1>3, <2>1, <2>2, <2>3
<1> DEFINE G(n) == CHOOSE g : g \in Partial(n)
           f == [b \in Block |-> G(rank[b])[b]]
<1>5. ASSUME NEW n \in Nat PROVE G(n) \in Partial(n)
  <2>1. \E g : g \in Partial(n)
    BY <1>4, Zenon
  <2> QED
    BY <2>1, Zenon
<1>6. ASSUME NEW b \in Block
      PROVE  rank[b] \in Nat /\ f[b] = G(rank[b])[b] /\ f[b] \in V /\ Solves(G(rank[b]), b)
  <2>1. rank[b] \in Nat /\ b \in Upto(rank[b])
    BY DEF IsRank
  <2>2. G(rank[b]) \in Partial(rank[b])
    BY <1>5, <2>1, Zenon
  <2>3. f[b] = G(rank[b])[b]
    BY Zenon
  <2> HIDE DEF G, f, Upto, Solves
  <2>4. G(rank[b]) \in [Block -> V] /\ Solves(G(rank[b]), b)
    BY <2>1, <2>2, Zenon
  <2> QED
    BY <2>1, <2>3, <2>4
<1>7. ASSUME NEW b \in Block PROVE Solves(f, b)
  <2>1. CASE b = Genesis
    <3> HIDE DEF G, f
    <3> QED
      BY <1>6, <2>1
  <2>2. CASE b # Genesis
    <3> DEFINE p == Parent[b]
    <3>1. p \in Block /\ rank[p] \in Nat /\ rank[b] \in Nat /\ rank[p] < rank[b]
      BY <2>2, ParentAssumption DEF IsRank
    <3>2. G(rank[b]) \in Partial(rank[b]) /\ G(rank[p]) \in Partial(rank[p])
      BY <1>5, <3>1, Zenon
    <3> HIDE DEF G, f, p
    <3>3. G(rank[b]) \in Partial(rank[p])
      <4>1. \A c \in Upto(rank[p]) : c \in Upto(rank[b])
        BY <1>0, <3>1
      <4> HIDE DEF Upto, Solves
      <4> QED
        BY <3>2, <4>1, Zenon
    <3>4. p \in Upto(rank[p])
      BY <3>1
    <3> HIDE DEF Partial, Upto
    <3>5. G(rank[b])[p] = G(rank[p])[p]
      BY <1>1, <3>1, <3>2, <3>3, <3>4
    <3>6. f[p] = G(rank[p])[p] /\ f[b] = G(rank[b])[b] /\ Solves(G(rank[b]), b)
      BY <1>6, <3>1
    <3> QED
      BY <2>2, <3>5, <3>6 DEF p
  <2> QED
    BY <2>1, <2>2
<1>8. f \in [Block -> V]
  <2>1. \A b \in Block : f[b] \in V
    BY <1>6
  <2>2. f = [b \in Block |-> f[b]]
    <3> HIDE DEF G
    <3> QED
      OBVIOUS
  <2> HIDE DEF f
  <2> QED
    BY <2>1, <2>2
<1>9. f = [b \in Block |-> IF b = Genesis THEN base ELSE step[<<b, f[Parent[b]]>>]]
  <2> HIDE DEF f
  <2> QED
    BY <1>7, <1>8
<1> QED
  <2> HIDE DEF f
  <2> QED
    BY <1>8, <1>9, Zenon DEF IsTreeFunction

-----------------------------------------------------------------------------
(* Ancestors is the function its definition says.                           *)
LEMMA AncestorsDef ==
  ASSUME NEW rank, IsRank(rank)
  PROVE  /\ Ancestors \in [Block -> SUBSET Block]
         /\ Ancestors[Genesis] = {Genesis}
         /\ \A b \in Block \ {Genesis} : Ancestors[b] = {b} \cup Ancestors[Parent[b]]
<1> DEFINE V == SUBSET Block
           step == [p \in Block \X V |-> {p[1]} \cup p[2]]
           Def(f) == [b \in Block |-> {b} \cup IF b = Genesis THEN {} ELSE f[Parent[b]]]
<1>1. step \in [Block \X V -> V] /\ {Genesis} \in V
  BY ParentAssumption
<1>2. PICK f \in [Block -> V] : IsTreeFunction(f, {Genesis}, step)
  <2> HIDE DEF V, step
  <2> QED
    BY <1>1, TreeRecursion, Zenon
<1>3. f = Def(f)
  BY <1>2, ParentAssumption DEF IsTreeFunction
<1>4. Ancestors = Def(Ancestors)
  BY <1>3, Zenon DEF Ancestors
<1>5. /\ Ancestors[Genesis] = {Genesis}
      /\ \A b \in Block \ {Genesis} : Ancestors[b] = {b} \cup Ancestors[Parent[b]]
  BY <1>4, ParentAssumption
<1> DEFINE S == {b \in Block : Ancestors[b] \subseteq Block}
<1>6. Genesis \in S
  BY <1>5, ParentAssumption
<1>7. ASSUME NEW b \in Block \ {Genesis}, Parent[b] \in S PROVE b \in S
  BY <1>5, <1>7
<1>8. \A b \in Block : b \in S
  <2> HIDE DEF S
  <2> QED
    BY <1>6, <1>7, TreeInduction
<1> QED
  BY <1>4, <1>5, <1>8

(* A walk along pprev from b ends at the genesis block, passes only blocks of
   lower rank, and goes through all that a walk from any of them goes through. *)
LEMMA AncestorsFacts ==
  ASSUME NEW rank, IsRank(rank), NEW b \in Block
  PROVE  /\ b \in Ancestors[b] /\ Genesis \in Ancestors[b]
         /\ \A x \in Ancestors[b] : /\ x \in Block /\ Ancestors[x] \subseteq Ancestors[b]
                                    /\ x = b \/ rank[x] < rank[b]
<1> DEFINE P(c) == /\ c \in Ancestors[c] /\ Genesis \in Ancestors[c]
                   /\ \A x \in Ancestors[c] : /\ x \in Block /\ Ancestors[x] \subseteq Ancestors[c]
                                              /\ x = c \/ rank[x] < rank[c]
           S == {c \in Block : P(c)}
<1>1. Genesis \in S
  BY AncestorsDef, ParentAssumption
<1>2. ASSUME NEW c \in Block \ {Genesis}, Parent[c] \in S PROVE c \in S
  <2>1. Ancestors[c] = {c} \cup Ancestors[Parent[c]]
    BY AncestorsDef
  <2>2. Parent[c] \in Block /\ rank[Parent[c]] < rank[c]
    BY ParentAssumption DEF IsRank
  <2>3. \A x \in Block : rank[x] \in Nat
    BY DEF IsRank
  <2>4. P(Parent[c])
    BY <1>2
  <2> QED
    BY <2>1, <2>2, <2>3, <2>4
<1>3. \A c \in Block : c \in S
  <2> HIDE DEF S
  <2> QED
    BY <1>1, <1>2, TreeInduction
<1> QED
  BY <1>3, Zenon

(* Two blocks have a last common ancestor.                                  *)
LEMMA LastCommonAncestor ==
  ASSUME NEW rank, IsRank(rank), NEW b \in Block, NEW c \in Block
  PROVE  \E f \in Block : Ancestors[f] = Ancestors[b] \cap Ancestors[c]
<1> DEFINE S == {x \in Block : \E f \in Block : Ancestors[f] = Ancestors[x] \cap Ancestors[c]}
<1>1. Genesis \in S
  <2>1. Ancestors[Genesis] = Ancestors[Genesis] \cap Ancestors[c]
    BY AncestorsDef, AncestorsFacts
  <2> QED
    BY <2>1, ParentAssumption
<1>2. ASSUME NEW x \in Block \ {Genesis}, Parent[x] \in S PROVE x \in S
  <2>1. CASE x \in Ancestors[c]
    <3>1. Ancestors[x] = Ancestors[x] \cap Ancestors[c]
      BY <2>1, AncestorsFacts
    <3> QED
      BY <3>1
  <2>2. CASE x \notin Ancestors[c]
    <3>1. Ancestors[x] = {x} \cup Ancestors[Parent[x]]
      BY AncestorsDef
    <3>2. PICK f \in Block : Ancestors[f] = Ancestors[Parent[x]] \cap Ancestors[c]
      BY <1>2
    <3>3. Ancestors[f] = Ancestors[x] \cap Ancestors[c]
      BY <2>2, <3>1, <3>2
    <3> QED
      BY <3>3
  <2> QED
    BY <2>1, <2>2
<1>3. \A x \in Block : x \in S
  <2> HIDE DEF S
  <2> QED
    BY <1>1, <1>2, TreeInduction
<1> QED
  BY <1>3, Zenon


(* The ancestors of a block form a chain.                                   *)
LEMMA AncestorsLinear ==
  ASSUME NEW rank, IsRank(rank), NEW b \in Block,
         NEW x \in Ancestors[b], NEW y \in Ancestors[b], rank[x] <= rank[y]
  PROVE  x \in Ancestors[y]
<1> DEFINE P(c) == \A u, v \in Ancestors[c] : rank[u] <= rank[v] => u \in Ancestors[v]
           S == {c \in Block : P(c)}
<1>1. Genesis \in S
  BY AncestorsDef, ParentAssumption
<1>2. ASSUME NEW c \in Block \ {Genesis}, Parent[c] \in S PROVE c \in S
  <2>1. Ancestors[c] = {c} \cup Ancestors[Parent[c]] /\ Parent[c] \in Block
    BY AncestorsDef, ParentAssumption
  <2>2. ASSUME NEW u \in Ancestors[c], NEW v \in Ancestors[c], rank[u] <= rank[v]
        PROVE  u \in Ancestors[v]
    <3>1. CASE v = c
      BY <3>1
    <3>2. CASE v # c
      <4>1. v \in Ancestors[Parent[c]] /\ u \in Block /\ v \in Block
        BY <2>1, <3>2, AncestorsFacts
      <4>2. rank[v] < rank[c] /\ rank[u] \in Nat /\ rank[v] \in Nat /\ rank[c] \in Nat
        BY <3>2, <4>1, AncestorsFacts DEF IsRank
      <4>3. u # c
        BY <2>2, <4>2
      <4>4. u \in Ancestors[Parent[c]]
        BY <2>1, <4>3
      <4>5. P(Parent[c])
        BY <1>2
      <4> QED
        BY <2>2, <4>1, <4>4, <4>5
    <3> QED
      BY <3>1, <3>2
  <2> QED
    BY <2>2
<1>3. \A c \in Block : c \in S
  <2> HIDE DEF S
  <2> QED
    BY <1>1, <1>2, TreeInduction
<1>4. P(b)
  BY <1>3
<1> QED
  BY <1>4

(* A set of blocks closed under Parent has the whole chain of each.          *)
LEMMA AncestorsClosed ==
  ASSUME NEW rank, IsRank(rank), NEW T,
         \A c \in T \ {Genesis} : Parent[c] \in T, NEW b \in Block, b \in T
  PROVE  Ancestors[b] \subseteq T
<1> DEFINE S == {c \in Block : c \in T => Ancestors[c] \subseteq T}
<1>1. Genesis \in S
  BY AncestorsDef, ParentAssumption
<1>2. ASSUME NEW c \in Block \ {Genesis}, Parent[c] \in S PROVE c \in S
  BY <1>2, AncestorsDef
<1>3. \A c \in Block : c \in S
  <2> HIDE DEF S
  <2> QED
    BY <1>1, <1>2, TreeInduction
<1> QED
  BY <1>3

(* A non-empty part of a chain has a last block.                            *)
LEMMA HighestBlock ==
  ASSUME NEW rank, IsRank(rank), NEW b \in Block, NEW S \in SUBSET Ancestors[b], S # {}
  PROVE  \E h \in S : \A c \in S : rank[c] <= rank[h]
<1> DEFINE T == {rank[b] - rank[c] : c \in S}
<1>1. \A c \in S : rank[c] \in Nat /\ rank[b] \in Nat /\ rank[c] <= rank[b]
  BY AncestorsFacts DEF IsRank
<1>2. T \in SUBSET Nat /\ T # {}
  BY <1>1
<1>3. PICK x \in T : \A y \in T : x <= y
  BY <1>2, LeastNumber
<1>4. PICK h \in S : x = rank[b] - rank[h]
  BY <1>3
<1>5. ASSUME NEW c \in S PROVE rank[c] <= rank[h]
  <2>1. rank[b] - rank[h] <= rank[b] - rank[c]
    BY <1>3, <1>4
  <2> QED
    BY <1>1, <2>1
<1> QED
  BY <1>5
=============================================================================
