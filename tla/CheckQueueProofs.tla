-------------------------- MODULE CheckQueueProofs --------------------------
(***************************************************************************)
(* For any number of masters, workers and checks and any batch size: the   *)
(* verdict of CheckQueue.tla's Wait is the verdict on every check of the   *)
(* block, and no block leaves anything to the next one.                    *)
(***************************************************************************)
EXTENDS CheckQueue, FiniteSetTheorems, TLAPS

-----------------------------------------------------------------------------
(* Batches and the queue *)

Injective(s) == \A i, j \in DOMAIN s : s[i] = s[j] => i = j

(* A sequence of checks has checks as its elements.                        *)
LEMMA RangeFacts ==
  ASSUME NEW s \in Seq(Check)
  PROVE  Range(s) \subseteq Check
  BY DEF Range

(* An injective sequence has as many elements as places.                   *)
LEMMA InjectiveCount ==
  ASSUME NEW s \in Seq(Check), Injective(s)
  PROVE  IsFiniteSet(Range(s)) /\ Cardinality(Range(s)) = Len(s)
<1>1. DOMAIN s = 1..Len(s) /\ Len(s) \in Nat
  OBVIOUS
<1>2. s \in Bijection(1..Len(s), Range(s))
  BY <1>1 DEF Bijection, Injection, Surjection, IsInjective, Injective, Range
<1>3. ExistsBijection(1..Len(s), Range(s))
  BY <1>2 DEF ExistsBijection
<1>4. IsFiniteSet(1..Len(s)) /\ Cardinality(1..Len(s)) = Len(s)
  BY <1>1, FS_Interval
<1> QED
  BY <1>3, <1>4, FS_Bijection

(* Max and Min of two numbers.                                             *)
LEMMA MaxMin ==
  ASSUME NEW a \in Nat, NEW b \in Nat
  PROVE  /\ Max({a, b}) \in {a, b} /\ Max({a, b}) >= a
         /\ Min({a, b}) \in {a, b} /\ Min({a, b}) <= b
  BY DEF Max, Min

(* Loop takes at least one check, and no more than the queue has.          *)
LEMMA BatchSizeFacts ==
  ASSUME NEW total \in Nat, NEW idle \in Nat, queue \in Seq(Check), queue # <<>>
  PROVE  BatchSize(total, idle) \in 1..Len(queue)
<1> DEFINE d == Len(queue) \div (total + idle + 1)
           m == Min({nBatchSize, d})
<1>1. Len(queue) \in Nat /\ Len(queue) >= 1
  OBVIOUS
<1>2. d \in 0..Len(queue)
  <2>1. ASSUME NEW x \in Nat, NEW k \in Nat \ {0} PROVE x \div k \in 0..x
    OBVIOUS
  <2>2. total + idle + 1 \in Nat \ {0}
    OBVIOUS
  <2> QED
    BY <1>1, <2>1, <2>2
<1> HIDE DEF d
<1>3. m \in Nat /\ m <= d
  <2>1. d \in Nat /\ nBatchSize \in Nat
    BY <1>1, <1>2, QueueAssumption
  <2> QED
    BY <2>1, MaxMin
<1> HIDE DEF m
<1>4. Max({1, m}) \in {1, m} /\ Max({1, m}) >= 1
  BY <1>3, MaxMin, Zenon
<1> QED
  BY <1>1, <1>2, <1>3, <1>4 DEF BatchSize, d, m

(* The batch and what is left share nothing and make up the queue.         *)
LEMMA BatchFacts ==
  ASSUME NEW q \in Seq(Check), Injective(q), NEW n \in 1..Len(q)
  PROVE  LET b == [i \in 1..n |-> q[Len(q) - i + 1]]
             r == SubSeq(q, 1, Len(q) - n)
         IN /\ b \in Seq(Check) /\ r \in Seq(Check) /\ Injective(r)
            /\ Cardinality(Range(b)) = n
            /\ \A c : c \in Range(q) <=> c \in Range(b) \/ c \in Range(r)
            /\ \A c : ~(c \in Range(b) /\ c \in Range(r))
<1> DEFINE k == Len(q) - n
           b == [i \in 1..n |-> q[Len(q) - i + 1]]
           r == SubSeq(q, 1, k)
<1>1. Len(q) \in Nat /\ n \in Nat /\ k \in Nat /\ k < Len(q) /\ k + n = Len(q)
      /\ DOMAIN q = 1..Len(q) /\ \A i \in 1..Len(q) : q[i] \in Check
  OBVIOUS
<1> HIDE DEF k
<1>2. r \in Seq(Check) /\ Len(r) = k /\ DOMAIN r = 1..k /\ \A i \in 1..k : r[i] = q[i]
  <2>1. \A i \in 1..k : q[i] \in Check
    BY <1>1
  <2> QED
    BY <1>1, <2>1
<1> HIDE DEF r
<1>3. \A i \in 1..n : Len(q) - i + 1 \in DOMAIN q /\ Len(q) - i + 1 > k
  BY <1>1
<1>4. b \in Seq(Check) /\ Len(b) = n /\ DOMAIN b = 1..n /\ \A i \in 1..n : b[i] = q[Len(q) - i + 1]
  <2>1. \A i \in 1..n : q[Len(q) - i + 1] \in Check
    BY <1>1, <1>3
  <2> QED
    BY <1>1, <2>1
<1> HIDE DEF b
<1>5. Injective(r)
  BY <1>1, <1>2 DEF Injective
<1>6. Injective(b)
  <2> SUFFICES ASSUME NEW i \in 1..n, NEW j \in 1..n, b[i] = b[j] PROVE i = j
    BY <1>4 DEF Injective
  <2>1. q[Len(q) - i + 1] = q[Len(q) - j + 1]
    BY <1>4
  <2>2. Len(q) - i + 1 = Len(q) - j + 1
    BY <1>3, <2>1, Zenon DEF Injective
  <2> QED
    BY <1>1, <2>2
<1>7. Cardinality(Range(b)) = n
  BY <1>4, <1>6, InjectiveCount
<1>8. ASSUME NEW c PROVE c \in Range(q) <=> c \in Range(b) \/ c \in Range(r)
  <2>1. ASSUME NEW i \in DOMAIN q PROVE q[i] \in Range(b) \/ q[i] \in Range(r)
    <3>1. CASE i <= k
      <4>1. i \in DOMAIN r /\ r[i] = q[i]
        BY <1>1, <1>2, <3>1
      <4> QED
        BY <4>1 DEF Range
    <3>2. CASE i > k
      <4>1. Len(q) - i + 1 \in 1..n /\ Len(q) - (Len(q) - i + 1) + 1 = i
        BY <1>1, <3>2
      <4>2. b[Len(q) - i + 1] = q[i]
        BY <1>4, <4>1
      <4> QED
        BY <1>4, <4>1, <4>2 DEF Range
    <3> QED
      BY <1>1, <3>1, <3>2
  <2>2. ASSUME NEW i \in DOMAIN b PROVE b[i] \in Range(q)
    <3>1. Len(q) - i + 1 \in DOMAIN q /\ b[i] = q[Len(q) - i + 1]
      BY <1>3, <1>4
    <3> QED
      BY <3>1 DEF Range
  <2>3. ASSUME NEW i \in DOMAIN r PROVE r[i] \in Range(q)
    <3>1. i \in DOMAIN q /\ r[i] = q[i]
      BY <1>1, <1>2
    <3> QED
      BY <3>1 DEF Range
  <2> QED
    BY <2>1, <2>2, <2>3, Zenon DEF Range
<1>9. ASSUME NEW i \in DOMAIN b, NEW j \in DOMAIN r PROVE b[i] # r[j]
  <2>1. /\ Len(q) - i + 1 \in DOMAIN q /\ j \in DOMAIN q /\ Len(q) - i + 1 # j
        /\ b[i] = q[Len(q) - i + 1] /\ r[j] = q[j]
    BY <1>1, <1>2, <1>3, <1>4
  <2> QED
    BY <2>1 DEF Injective
<1>10. \A c : ~(c \in Range(b) /\ c \in Range(r))
  BY <1>9, Zenon DEF Range
<1> QED
  BY <1>2, <1>4, <1>5, <1>7, <1>8, <1>10, Zenon DEF b, r, k

(* Concatenation.                                                          *)
LEMMA ConcatFacts ==
  ASSUME NEW q \in Seq(Check), NEW f \in Seq(Check)
  PROVE  /\ q \o f \in Seq(Check) /\ Len(q \o f) = Len(q) + Len(f)
         /\ \A i \in 1..(Len(q) + Len(f)) : (q \o f)[i] = IF i <= Len(q) THEN q[i] ELSE f[i - Len(q)]
  OBVIOUS

(* Add appends fresh checks.                                               *)
LEMMA AppendFacts ==
  ASSUME NEW q \in Seq(Check), Injective(q), NEW a \in Nat, NEW n \in Nat,
         a + n <= MaxChecks, Range(q) \subseteq 1..a
  PROVE  LET r == q \o [i \in 1..n |-> a + i]
         IN /\ r \in Seq(Check) /\ Injective(r)
            /\ \A c : c \in Range(r) <=> c \in Range(q) \/ c \in (a + 1)..(a + n)
<1> DEFINE f == [i \in 1..n |-> a + i]
           r == q \o f
<1>1. Len(q) \in Nat /\ DOMAIN q = 1..Len(q) /\ \A i \in 1..Len(q) : q[i] \in 1..a
  BY DEF Range
<1>2. f \in Seq(Check) /\ Len(f) = n /\ \A i \in 1..n : f[i] = a + i
  BY QueueAssumption DEF Check
<1> HIDE DEF f
<1>3. /\ r \in Seq(Check) /\ Len(r) = Len(q) + n /\ DOMAIN r = 1..(Len(q) + n)
      /\ \A i \in 1..Len(q) : r[i] = q[i]
      /\ \A i \in (Len(q) + 1)..(Len(q) + n) : r[i] = f[i - Len(q)]
  <2>1. /\ r \in Seq(Check) /\ Len(r) = Len(q) + Len(f)
        /\ \A i \in 1..(Len(q) + Len(f)) : r[i] = IF i <= Len(q) THEN q[i] ELSE f[i - Len(q)]
    BY <1>2, ConcatFacts, Zenon
  <2> HIDE DEF r
  <2>2. \A i \in 1..(Len(q) + n) : r[i] = IF i <= Len(q) THEN q[i] ELSE f[i - Len(q)]
    BY <1>2, <2>1, Zenon
  <2>3. DOMAIN r = 1..Len(r) /\ Len(r) = Len(q) + n
    BY <1>2, <2>1
  <2>4. \A i \in 1..Len(q) : i \in 1..(Len(q) + n) /\ i <= Len(q)
    BY <1>1
  <2>5. \A i \in (Len(q) + 1)..(Len(q) + n) : i \in 1..(Len(q) + n) /\ ~(i <= Len(q))
    BY <1>1
  <2> QED
    BY <2>1, <2>2, <2>3, <2>4, <2>5, Zenon
<1> HIDE DEF r
<1>4. \A i \in (Len(q) + 1)..(Len(q) + n) : r[i] = a + (i - Len(q))
  BY <1>1, <1>2, <1>3
<1>5. Injective(r)
  <2> SUFFICES ASSUME NEW i \in 1..(Len(q) + n), NEW j \in 1..(Len(q) + n), r[i] = r[j]
               PROVE  i = j
    BY <1>3 DEF Injective
  <2>1. CASE i <= Len(q) /\ j <= Len(q)
    <3>1. i \in DOMAIN q /\ j \in DOMAIN q /\ q[i] = q[j]
      BY <1>1, <1>3, <2>1
    <3> QED
      BY <3>1 DEF Injective
  <2>2. CASE i <= Len(q) /\ j > Len(q)
    <3>1. r[i] \in 1..a /\ r[j] = a + (j - Len(q))
      BY <1>1, <1>3, <1>4, <2>2
    <3> QED
      BY <1>1, <2>2, <3>1
  <2>3. CASE i > Len(q) /\ j <= Len(q)
    <3>1. r[j] \in 1..a /\ r[i] = a + (i - Len(q))
      BY <1>1, <1>3, <1>4, <2>3
    <3> QED
      BY <1>1, <2>3, <3>1
  <2>4. CASE i > Len(q) /\ j > Len(q)
    <3>1. r[i] = a + (i - Len(q)) /\ r[j] = a + (j - Len(q))
      BY <1>1, <1>4, <2>4
    <3>2. a + (i - Len(q)) = a + (j - Len(q))
      BY <3>1, Zenon
    <3>3. Len(q) \in Int /\ i \in Int /\ j \in Int
      BY <1>1
    <3> QED
      BY <3>2, <3>3
  <2> QED
    BY <1>1, <2>1, <2>2, <2>3, <2>4
<1>6. ASSUME NEW c PROVE c \in Range(r) <=> c \in Range(q) \/ c \in (a + 1)..(a + n)
  <2>1. ASSUME NEW i \in 1..(Len(q) + n) PROVE r[i] \in Range(q) \/ r[i] \in (a + 1)..(a + n)
    <3>1. CASE i <= Len(q)
      <4>1. i \in DOMAIN q /\ r[i] = q[i]
        BY <1>1, <1>3, <3>1
      <4> QED
        BY <4>1 DEF Range
    <3>2. CASE i > Len(q)
      BY <1>1, <1>4, <3>2
    <3> QED
      BY <1>1, <3>1, <3>2
  <2>2. ASSUME NEW i \in 1..Len(q) PROVE q[i] \in Range(r)
    BY <1>1, <1>3 DEF Range
  <2>3. ASSUME NEW d \in (a + 1)..(a + n) PROVE d \in Range(r)
    <3>1. Len(q) + (d - a) \in (Len(q) + 1)..(Len(q) + n) /\ Len(q) + (d - a) \in DOMAIN r
      BY <1>1, <1>3
    <3>2. r[Len(q) + (d - a)] = d
      BY <1>1, <1>4, <3>1
    <3> QED
      BY <3>1, <3>2 DEF Range
  <2> QED
    BY <1>1, <1>3, <2>1, <2>2, <2>3 DEF Range
<1> QED
  BY <1>3, <1>5, <1>6 DEF r, f

-----------------------------------------------------------------------------
(* The inductive invariant.  A thread that has run its batch has emptied   *)
(* vChecks but has not yet subtracted nNow from nTodo; H[t] is the set of  *)
(* checks that the thread still has to account for.                        *)

Out(H) == {c \in Check : c \in Range(queue) \/ \E t \in Thread : c \in H[t]}

\* No check is in two places, and nTodo counts them all.
Batches(H, todo) ==
  /\ H \in [Thread -> SUBSET Check] /\ Injective(queue)
  /\ \A t \in Thread : \A c \in H[t] : c \notin Range(queue)
  /\ \A t, u \in Thread : t # u => \A c \in H[t] : c \notin H[u]
  /\ \A c \in Out(H) : c <= nAdded
  /\ todo = Cardinality(Out(H))

\* What thread t, at place, knows of its batch B.
Batch(t, B, place) ==
  /\ place \in {"work", "enter"} => Cardinality(B) = nNow[t]
  /\ place \notin {"work", "enter"} => B = {}
  /\ place = "work" => nNow[t] > 0 /\ B = Range(vChecks[t])
  /\ place = "enter" => \A c \in B : (c \in fails => ~fOk[t]) /\ (fOk[t] => c \in ran)
  /\ (B # {} /\ ~fOk[t]) => fails # {}

Active(places) == \E m \in Master : places[m] \notin {"out", "done"}

\* fAllOk speaks for the checks of this block that are accounted for.
Account(H, allOk, places) ==
  /\ \A c \in fails \cup ran : c \in 1..nAdded
  /\ ~allOk => fails # {}
  /\ Active(places) =>
       \A c \in 1..nAdded : c \notin Out(H) => (c \in fails => ~allOk) /\ (allOk => c \in ran)
  /\ ~Active(places) => Out(H) = {} /\ allOk

Controlled(places) ==
  /\ \A m \in Master : places[m] # "out" <=> ControlMutex = m
  /\ \A w \in Worker : places[w] \notin {"out", "add", "done"}
  /\ \A m \in Master : places[m] = "done" =>
       /\ verdict[m] = (fails = {})
       /\ verdict[m] => ran = 1..nAdded

IdleOf(T, places) == {t \in T : places[t] \in {"sleep", "woken"}}

InLoopOf(T, places) ==
  {t \in T : places[t] \in {"sleep", "woken", "work"} \/ (places[t] = "enter" /\ nNow[t] > 0)}

Counted(T, total, idle, places) ==
  /\ idle = Cardinality(IdleOf(T, places))
  /\ total = Cardinality(InLoopOf(T, places))

Typed ==
  /\ queue \in Seq(Check) /\ nAdded \in 0..MaxChecks
  /\ fAllOk \in BOOLEAN /\ ControlMutex \in Master \cup {None}
  /\ pc \in [Thread -> Places]
  /\ vChecks \in [Thread -> Seq(Check)] /\ nNow \in [Thread -> Nat]
  /\ fOk \in [Thread -> BOOLEAN] /\ verdict \in [Master -> BOOLEAN]

IInvOf(H) ==
  /\ Batches(H, nTodo)
  /\ \A t \in Thread : Batch(t, H[t], pc[t])
  /\ Account(H, fAllOk, pc)
  /\ Controlled(pc)
  /\ Counted(Thread, nTotal, nIdle, pc)

IInv == Typed /\ \E H \in [Thread -> SUBSET Check] : IInvOf(H)

\* The state of Loop after its clean-up or the end of a wait: thread t has
\* nothing to account for, and its own place does not matter.
Middle(t, H, allOk, todo, total, idle, places) ==
  /\ allOk \in BOOLEAN /\ total \in Nat /\ idle \in Nat
  /\ places \in [Thread -> Places] /\ places[t] \in {"enter", "woken"}
  /\ Batches(H, todo) /\ H[t] = {}
  /\ \A u \in Thread \ {t} : Batch(u, H[u], places[u])
  /\ Account(H, allOk, places)
  /\ Controlled(places)
  /\ Counted(Thread \ {t}, total - 1, idle, places)

(* Sets of checks and of threads are finite.                               *)
LEMMA Finite ==
  /\ \A C \in SUBSET Check : IsFiniteSet(C) /\ Cardinality(C) \in Nat /\ (Cardinality(C) = 0 <=> C = {})
  /\ \A T \in SUBSET Thread : IsFiniteSet(T) /\ Cardinality(T) \in Nat
<1>1. IsFiniteSet(Check)
  BY QueueAssumption, FS_Interval DEF Check
<1>2. IsFiniteSet(Thread)
  BY QueueAssumption, FS_Union, Zenon DEF Thread
<1>3. ASSUME NEW C \in SUBSET Check
      PROVE  IsFiniteSet(C) /\ Cardinality(C) \in Nat /\ (Cardinality(C) = 0 <=> C = {})
  BY <1>1, FS_Subset, FS_CardinalityType, FS_EmptySet
<1>4. ASSUME NEW T \in SUBSET Thread PROVE IsFiniteSet(T) /\ Cardinality(T) \in Nat
  BY <1>2, FS_Subset, FS_CardinalityType
<1> QED
  BY <1>3, <1>4

(* Only the owner of ControlMutex is anywhere but outside.                 *)
LEMMA OneMaster ==
  ASSUME NEW places, Controlled(places), NEW m \in Master, NEW n \in Master,
         places[m] # "out", places[n] # "out"
  PROVE  m = n
  BY DEF Controlled

(* A thread with a batch is at work for a block.                           *)
LEMMA WorkIsActive ==
  ASSUME NEW H, IInvOf(H), NEW t \in Thread, H[t] # {}
  PROVE  Active(pc) /\ \A m \in Master : pc[m] # "done"
<1>1. H[t] \in SUBSET Check
  BY DEF IInvOf, Batches
<1>2. Out(H) # {}
  BY <1>1 DEF Out
<1>3. Active(pc)
  BY <1>2 DEF IInvOf, Account
<1>4. PICK m \in Master : pc[m] \notin {"out", "done"}
  BY <1>3 DEF Active
<1> QED
  BY <1>3, <1>4, OneMaster DEF IInvOf

-----------------------------------------------------------------------------
(* The initial states *)

(* At the start the queue is empty and no block is being connected.        *)
LEMMA InitIInv == Init => IInv
<1> SUFFICES ASSUME Init PROVE IInv
  OBVIOUS
<1> DEFINE H == [t \in Thread |-> {}]
<1>1. Range(queue) = {}
  BY DEF Init, Range
<1>2. Out(H) = {}
  BY <1>1 DEF Out
<1>3. Typed
  BY QueueAssumption DEF Init, Typed, Places, Thread
<1>4. Batches(H, nTodo)
  <2>1. Injective(queue)
    BY DEF Init, Injective
  <2>2. Cardinality(Out(H)) = 0
    BY <1>2, FS_EmptySet
  <2> QED
    BY <1>1, <1>2, <2>1, <2>2, Zenon DEF Init, Batches
<1>5. \A t \in Thread : Batch(t, H[t], pc[t])
  BY FS_EmptySet DEF Init, Batch, Thread
<1>6. Account(H, fAllOk, pc) /\ Controlled(pc)
  <2>1. ~Active(pc)
    BY QueueAssumption DEF Init, Active, Thread
  <2> QED
    BY <1>2, <2>1, QueueAssumption, Zenon DEF Init, Account, Controlled, Thread
<1>7. Counted(Thread, nTotal, nIdle, pc)
  <2>1. IdleOf(Thread, pc) = {} /\ InLoopOf(Thread, pc) = {}
    BY DEF Init, IdleOf, InLoopOf
  <2> QED
    BY <2>1, FS_EmptySet, Zenon DEF Init, Counted
<1> QED
  BY <1>3, <1>4, <1>5, <1>6, <1>7 DEF IInv, IInvOf

-----------------------------------------------------------------------------
(* Loop: the clean-up *)

(* nTodo after the clean-up counts what the other threads still have.      *)
LEMMA CleanUpBatches ==
  ASSUME NEW H, Batches(H, nTodo), NEW t \in Thread, Cardinality(H[t]) = nNow[t]
  PROVE  LET G == [H EXCEPT ![t] = {}]
         IN /\ Batches(G, nTodo - nNow[t]) /\ G[t] = {}
            /\ \A c : c \in Out(G) <=> c \in Out(H) /\ c \notin H[t]
<1> DEFINE G == [H EXCEPT ![t] = {}]
<1>1. /\ G \in [Thread -> SUBSET Check] /\ G[t] = {}
      /\ H \in [Thread -> SUBSET Check]
      /\ \A u \in Thread \ {t} : G[u] = H[u]
  BY DEF Batches
<1> HIDE DEF G
<1>2. \A c : c \in Out(G) <=> c \in Out(H) /\ c \notin H[t]
  BY <1>1 DEF Out, Batches
<1>3. Out(G) = Out(H) \ H[t]
  BY <1>2
<1>4. Out(H) \cap H[t] = H[t] /\ Out(H) \in SUBSET Check
  BY <1>1 DEF Out
<1>5. IsFiniteSet(Out(H))
  BY <1>4, Finite
<1>6. Cardinality(Out(G)) = Cardinality(Out(H)) - nNow[t]
  <2>1. Cardinality(Out(H) \ H[t]) = Cardinality(Out(H)) - Cardinality(Out(H) \cap H[t])
    BY <1>5, FS_Difference, Zenon
  <2> QED
    BY <1>3, <1>4, <2>1, Zenon
<1>7. Batches(G, nTodo - nNow[t])
  BY <1>1, <1>2, <1>6 DEF Batches
<1> QED
  BY <1>1, <1>2, <1>7, Zenon DEF G

(* The clean-up moves no thread but a sleeping master, and that one only   *)
(* to where it is notified.                                                *)
LEMMA CleanUpPlaces ==
  ASSUME Typed, NEW t \in Thread, pc[t] = "enter"
  PROVE  /\ PlacesAfterCleanUp(t) \in [Thread -> Places]
         /\ \A u \in Thread :
              \/ PlacesAfterCleanUp(t)[u] = pc[u]
              \/ pc[u] = "sleep" /\ PlacesAfterCleanUp(t)[u] = "woken"
<1> DEFINE P == [u \in Thread |-> IF u \in Master /\ pc[u] = "sleep" THEN "woken" ELSE pc[u]]
<1>1. P \in [Thread -> Places] /\ \A u \in Thread : P[u] = pc[u] \/ (pc[u] = "sleep" /\ P[u] = "woken")
  BY DEF Typed, Places
<1>2. PlacesAfterCleanUp(t) = P \/ PlacesAfterCleanUp(t) = pc
  BY DEF PlacesAfterCleanUp
<1>3. pc \in [Thread -> Places]
  BY DEF Typed
<1> HIDE DEF P
<1> QED
  BY <1>1, <1>2, <1>3

(* Threads that only move from a wait to its end keep everything but the   *)
(* counters of the thread in the loop.                                     *)
LEMMA PlacesOnly ==
  ASSUME NEW H, IInvOf(H), NEW t \in Thread, pc[t] \in {"enter", "woken"}, NEW places,
         \A u \in Thread : places[u] = pc[u] \/ (pc[u] = "sleep" /\ places[u] = "woken")
  PROVE  /\ places[t] = pc[t]
         /\ \A u \in Thread : Batch(u, H[u], places[u])
         /\ Active(places) <=> Active(pc)
         /\ Controlled(places)
         /\ IdleOf(Thread \ {t}, places) = IdleOf(Thread, pc) \ {t}
         /\ InLoopOf(Thread \ {t}, places) = InLoopOf(Thread, pc) \ {t}
<1>1. places[t] = pc[t]
  OBVIOUS
<1>2. ASSUME NEW u \in Thread PROVE Batch(u, H[u], places[u])
  <2>1. Batch(u, H[u], pc[u])
    BY DEF IInvOf
  <2>2. places[u] = pc[u] \/ (pc[u] = "sleep" /\ places[u] = "woken")
    OBVIOUS
  <2> QED
    BY <2>1, <2>2 DEF Batch
<1>3. Active(places) <=> Active(pc)
  BY DEF Active, Thread
<1>4. Controlled(places)
  <2>1. Controlled(pc)
    BY DEF IInvOf
  <2> QED
    BY <2>1 DEF Controlled, Thread
<1>5. IdleOf(Thread \ {t}, places) = IdleOf(Thread, pc) \ {t}
  BY DEF IdleOf
<1>6. InLoopOf(Thread \ {t}, places) = InLoopOf(Thread, pc) \ {t}
  BY DEF InLoopOf
<1> QED
  BY <1>1, <1>2, <1>3, <1>4, <1>5, <1>6

(* Loop after the clean-up of a batch, or on its first iteration.          *)
LEMMA EnterMiddle ==
  ASSUME Typed, NEW H, IInvOf(H), NEW t \in Thread, pc[t] = "enter",
         NEW allOk \in BOOLEAN, allOk <=> fAllOk /\ (nNow[t] > 0 => fOk[t]),
         NEW total, total = IF nNow[t] > 0 THEN nTotal ELSE nTotal + 1
  PROVE  Middle(t, [H EXCEPT ![t] = {}], allOk, nTodo - nNow[t], total, nIdle,
                PlacesAfterCleanUp(t))
<1> DEFINE G == [H EXCEPT ![t] = {}]
           places == PlacesAfterCleanUp(t)
<1>1. /\ places \in [Thread -> Places]
      /\ \A u \in Thread : places[u] = pc[u] \/ (pc[u] = "sleep" /\ places[u] = "woken")
  BY CleanUpPlaces
<1> HIDE DEF places
<1>2. /\ places[t] = pc[t]
      /\ \A u \in Thread : Batch(u, H[u], places[u])
      /\ Active(places) <=> Active(pc)
      /\ Controlled(places)
      /\ IdleOf(Thread \ {t}, places) = IdleOf(Thread, pc) \ {t}
      /\ InLoopOf(Thread \ {t}, places) = InLoopOf(Thread, pc) \ {t}
  BY <1>1, PlacesOnly, Zenon
<1>3. H \in [Thread -> SUBSET Check] /\ Batches(H, nTodo) /\ Batch(t, H[t], pc[t])
  BY DEF IInvOf, Batches
<1>4. Cardinality(H[t]) = nNow[t] /\ nNow[t] \in Nat /\ (nNow[t] = 0 <=> H[t] = {})
  <2>1. Cardinality(H[t]) = nNow[t] /\ H[t] \in SUBSET Check
    BY <1>3 DEF Batch
  <2> QED
    BY <2>1, Finite
<1>5. /\ Batches(G, nTodo - nNow[t]) /\ G[t] = {}
      /\ \A c : c \in Out(G) <=> c \in Out(H) /\ c \notin H[t]
  BY <1>3, <1>4, CleanUpBatches, Zenon
<1>6. \A u \in Thread \ {t} : Batch(u, G[u], places[u])
  <2>1. \A u \in Thread \ {t} : G[u] = H[u]
    BY <1>3
  <2> HIDE DEF G
  <2> QED
    BY <1>2, <2>1
<1> HIDE DEF G
<1>7. Account(G, allOk, places)
  <2>1. Account(H, fAllOk, pc)
    BY DEF IInvOf
  <2>2. \A c \in H[t] : (c \in fails => ~fOk[t]) /\ (fOk[t] => c \in ran)
    BY <1>3 DEF Batch
  <2>3. (H[t] # {} /\ ~fOk[t]) => fails # {}
    BY <1>3 DEF Batch
  <2>4. nNow[t] > 0 <=> H[t] # {}
    BY <1>4
  <2>5. ~allOk => fails # {}
    BY <2>1, <2>3, <2>4 DEF Account
  <2>6. ASSUME Active(places), NEW c \in 1..nAdded, c \notin Out(G)
        PROVE  (c \in fails => ~allOk) /\ (allOk => c \in ran)
    <3>1. CASE c \in H[t]
      BY <2>2, <2>4, <3>1
    <3>2. CASE c \notin H[t]
      BY <1>2, <1>5, <2>1, <2>6, <3>2 DEF Account
    <3> QED
      BY <3>1, <3>2
  <2>7. ASSUME ~Active(places) PROVE Out(G) = {} /\ allOk
    <3>1. Out(H) = {} /\ fAllOk
      BY <1>2, <2>1, <2>7 DEF Account
    <3>2. H[t] = {}
      BY <1>3, <3>1 DEF Out
    <3> QED
      BY <1>5, <2>4, <3>1, <3>2
  <2> QED
    BY <2>1, <2>5, <2>6, <2>7 DEF Account
<1>8. /\ IdleOf(Thread, pc) \in SUBSET Thread /\ InLoopOf(Thread, pc) \in SUBSET Thread
      /\ nIdle = Cardinality(IdleOf(Thread, pc)) /\ nTotal = Cardinality(InLoopOf(Thread, pc))
      /\ t \notin IdleOf(Thread, pc) /\ (t \in InLoopOf(Thread, pc) <=> nNow[t] > 0)
  BY DEF IInvOf, Counted, IdleOf, InLoopOf
<1>9. nIdle \in Nat /\ nTotal \in Nat /\ IsFiniteSet(InLoopOf(Thread, pc))
  BY <1>8, Finite
<1>10. total \in Nat /\ Counted(Thread \ {t}, total - 1, nIdle, places)
  <2>1. IdleOf(Thread, pc) \ {t} = IdleOf(Thread, pc)
    BY <1>8
  <2>2. Cardinality(InLoopOf(Thread, pc) \ {t}) = IF nNow[t] > 0 THEN nTotal - 1 ELSE nTotal
    BY <1>8, <1>9, FS_RemoveElement, Zenon
  <2>3. total \in Nat /\ total - 1 = IF nNow[t] > 0 THEN nTotal - 1 ELSE nTotal
    BY <1>9
  <2> QED
    BY <1>2, <1>8, <2>1, <2>2, <2>3, Zenon DEF Counted
<1> QED
  BY <1>1, <1>2, <1>5, <1>6, <1>7, <1>9, <1>10, Zenon DEF Middle, G, places

(* Loop when cond.wait returns.                                            *)
LEMMA WakeMiddle ==
  ASSUME Typed, NEW H, IInvOf(H), NEW t \in Thread, pc[t] = "woken"
  PROVE  Middle(t, H, fAllOk, nTodo, nTotal, nIdle - 1, pc)
<1>1. /\ \A u \in Thread : Batch(u, H[u], pc[u])
      /\ IdleOf(Thread \ {t}, pc) = IdleOf(Thread, pc) \ {t}
      /\ InLoopOf(Thread \ {t}, pc) = InLoopOf(Thread, pc) \ {t}
  BY PlacesOnly, Zenon
<1>2. H[t] = {}
  BY <1>1 DEF Batch
<1>3. /\ IdleOf(Thread, pc) \in SUBSET Thread /\ InLoopOf(Thread, pc) \in SUBSET Thread
      /\ nIdle = Cardinality(IdleOf(Thread, pc)) /\ nTotal = Cardinality(InLoopOf(Thread, pc))
      /\ t \in IdleOf(Thread, pc) /\ t \in InLoopOf(Thread, pc)
  BY DEF IInvOf, Counted, IdleOf, InLoopOf
<1>4. /\ IsFiniteSet(IdleOf(Thread, pc)) /\ IsFiniteSet(InLoopOf(Thread, pc))
      /\ nTotal \in Nat /\ Cardinality(IdleOf(Thread, pc) \ {t}) \in Nat
  BY <1>3, Finite
<1>5. /\ Cardinality(IdleOf(Thread, pc) \ {t}) = nIdle - 1
      /\ Cardinality(InLoopOf(Thread, pc) \ {t}) = nTotal - 1
  BY <1>3, <1>4, FS_RemoveElement, Zenon
<1>6. nIdle - 1 \in Nat /\ Counted(Thread \ {t}, nTotal - 1, nIdle - 1, pc)
  BY <1>1, <1>4, <1>5, Zenon DEF Counted
<1> QED
  BY <1>1, <1>2, <1>4, <1>6 DEF Middle, IInvOf, Typed

-----------------------------------------------------------------------------
(* Loop: taking checks, returning, waiting *)

(* Each of the three ways through the body of Loop leaves the other        *)
(* threads where the clean-up put them.                                    *)
LEMMA TakeStep ==
  ASSUME Typed, NEW t \in Thread, NEW G, NEW allOk, NEW todo, NEW total, NEW idle, NEW places,
         Middle(t, G, allOk, todo, total, idle, places),
         Take(t, allOk, total, idle, places), nTodo' = todo,
         UNCHANGED <<ControlMutex, fails, nAdded, ran>>
  PROVE  IInv'
<1> DEFINE n == BatchSize(total, idle)
<1>1. /\ allOk \in BOOLEAN /\ total \in Nat /\ idle \in Nat
      /\ places \in [Thread -> Places] /\ places[t] \in {"enter", "woken"}
      /\ Batches(G, todo) /\ G[t] = {} /\ G \in [Thread -> SUBSET Check] /\ Injective(queue)
  BY DEF Middle, Batches
<1>2. n \in 1..Len(queue)
  BY <1>1, BatchSizeFacts DEF Typed, Take
<1>3. PICK b, r : /\ b = [i \in 1..n |-> queue[Len(queue) - i + 1]]
                  /\ r = SubSeq(queue, 1, Len(queue) - n)
  BY Zenon
<1>4. /\ vChecks' = [vChecks EXCEPT ![t] = b] /\ queue' = r /\ nNow' = [nNow EXCEPT ![t] = n]
      /\ fOk' = [fOk EXCEPT ![t] = allOk] /\ pc' = [places EXCEPT ![t] = "work"]
      /\ nTotal' = total /\ nIdle' = idle /\ fAllOk' = allOk /\ verdict' = verdict
  BY <1>3 DEF Take
<1>5. /\ b \in Seq(Check) /\ r \in Seq(Check) /\ Injective(r)
      /\ Cardinality(Range(b)) = n
      /\ \A c : c \in Range(queue) <=> c \in Range(b) \/ c \in Range(r)
      /\ \A c : ~(c \in Range(b) /\ c \in Range(r))
  BY <1>1, <1>2, <1>3, BatchFacts DEF Typed
<1>6. n \in Nat /\ n > 0
  <2>1. Len(queue) \in Nat
    BY DEF Typed
  <2> HIDE DEF n
  <2> QED
    BY <1>2, <2>1
<1> HIDE DEF n
<1>7. Range(b) \in SUBSET Check
  BY <1>5 DEF Range
<1>8. PICK K : K = [G EXCEPT ![t] = Range(b)]
  BY Zenon
<1>9. /\ K \in [Thread -> SUBSET Check] /\ K[t] = Range(b)
      /\ \A u \in Thread \ {t} : K[u] = G[u]
  BY <1>1, <1>7, <1>8
<1>10. pc'[t] = "work" /\ nNow'[t] = n /\ vChecks'[t] = b /\ fOk'[t] = allOk
       /\ \A u \in Thread \ {t} : /\ pc'[u] = places[u] /\ nNow'[u] = nNow[u]
                                  /\ vChecks'[u] = vChecks[u] /\ fOk'[u] = fOk[u]
  BY <1>1, <1>4 DEF Typed
<1>11. Typed'
  BY <1>1, <1>4, <1>5, <1>6 DEF Typed, Places
<1>12. Out(K)' = Out(G)
  BY <1>1, <1>4, <1>5, <1>9 DEF Out
<1>13. Batches(K, nTodo)'
  <2>1. \A u \in Thread : \A c \in K[u] : c \notin Range(r)
    BY <1>1, <1>5, <1>9 DEF Batches
  <2>2. \A u, v \in Thread : u # v => \A c \in K[u] : c \notin K[v]
    BY <1>1, <1>5, <1>9 DEF Batches
  <2> QED
    BY <1>1, <1>4, <1>5, <1>9, <1>12, <2>1, <2>2, Zenon DEF Batches
<1>14. ~allOk => fails # {}
  BY Zenon DEF Middle, Account
<1>15. ASSUME NEW u \in Thread PROVE Batch(u, K[u], pc[u])'
  <2>1. CASE u = t
    BY <1>5, <1>6, <1>9, <1>10, <1>14, <2>1, Zenon DEF Batch
  <2>2. CASE u # t
    <3>1. Batch(u, G[u], places[u])
      BY <2>2, Zenon DEF Middle
    <3>2. K[u] = G[u] /\ pc'[u] = places[u] /\ nNow'[u] = nNow[u]
          /\ vChecks'[u] = vChecks[u] /\ fOk'[u] = fOk[u]
      BY <1>9, <1>10, <2>2
    <3> QED
      BY <3>1, <3>2, Zenon DEF Batch
  <2> QED
    BY <2>1, <2>2
<1>16. Active(pc)' <=> Active(places)
  BY <1>1, <1>10 DEF Active, Thread
<1>17. Account(K, fAllOk, pc)'
  <2>1. Account(G, allOk, places)
    BY Zenon DEF Middle
  <2> QED
    BY <1>4, <1>12, <1>16, <2>1, Zenon DEF Account
<1>18. Controlled(pc)'
  <2>1. Controlled(places)
    BY DEF Middle
  <2> QED
    BY <1>1, <1>4, <1>10, <2>1, Zenon DEF Controlled, Thread
<1>19. Counted(Thread, nTotal, nIdle, pc)'
  <2>1. IdleOf(Thread, pc)' = IdleOf(Thread \ {t}, places)
    BY <1>10 DEF IdleOf
  <2>2. InLoopOf(Thread, pc)' = InLoopOf(Thread \ {t}, places) \cup {t}
    BY <1>10 DEF InLoopOf
  <2>3. IsFiniteSet(InLoopOf(Thread \ {t}, places)) /\ t \notin InLoopOf(Thread \ {t}, places)
    BY Finite DEF InLoopOf
  <2>4. idle = Cardinality(IdleOf(Thread \ {t}, places))
        /\ total - 1 = Cardinality(InLoopOf(Thread \ {t}, places))
    BY DEF Middle, Counted
  <2>5. Cardinality(InLoopOf(Thread \ {t}, places) \cup {t}) = total
    <3>1. Cardinality(InLoopOf(Thread \ {t}, places) \cup {t}) = Cardinality(InLoopOf(Thread \ {t}, places)) + 1
      BY <2>3, FS_AddElement, Zenon
    <3> QED
      BY <1>1, <2>4, <3>1
  <2> QED
    BY <1>4, <2>1, <2>2, <2>4, <2>5, Zenon DEF Counted
<1>20. IInvOf(K)'
  BY <1>13, <1>15, <1>17, <1>18, <1>19 DEF IInvOf
<1> QED
  BY <1>9, <1>11, <1>20 DEF IInv

(* The master leaves Loop with the verdict: nTodo is zero, so every check  *)
(* of the block is accounted for in fAllOk.                                *)
LEMMA ReturnStep ==
  ASSUME Typed, NEW t \in Thread, NEW G, NEW allOk, NEW todo, NEW total, NEW idle, NEW places,
         Middle(t, G, allOk, todo, total, idle, places),
         Return(t, allOk, todo, total, idle, places), nTodo' = todo,
         UNCHANGED <<ControlMutex, fails, nAdded, ran>>
  PROVE  IInv'
<1>1. /\ allOk \in BOOLEAN /\ total \in Nat /\ idle \in Nat
      /\ places \in [Thread -> Places] /\ places[t] \in {"enter", "woken"}
      /\ Batches(G, todo) /\ G[t] = {} /\ G \in [Thread -> SUBSET Check]
      /\ Controlled(places) /\ Account(G, allOk, places)
  BY DEF Middle, Batches
<1>2. /\ t \in Master /\ todo = 0 /\ queue' = queue /\ vChecks' = vChecks
      /\ nNow' = nNow /\ fOk' = fOk /\ verdict' = [verdict EXCEPT ![t] = allOk]
      /\ fAllOk' = TRUE /\ pc' = [places EXCEPT ![t] = "done"]
      /\ nTotal' = total - 1 /\ nIdle' = idle
  BY DEF Return
<1>3. /\ pc'[t] = "done" /\ verdict'[t] = allOk
      /\ \A u \in Thread \ {t} : pc'[u] = places[u]
      /\ \A m \in Master \ {t} : verdict'[m] = verdict[m]
  BY <1>1, <1>2 DEF Typed
<1>4. Typed'
  BY <1>1, <1>2, Zenon DEF Typed, Places
<1>5. Out(G) = {} /\ Out(G)' = Out(G)
  <2>1. Out(G) \in SUBSET Check /\ Cardinality(Out(G)) = 0
    BY <1>1, <1>2 DEF Out, Batches
  <2> QED
    BY <1>2, <2>1, Finite, Zenon DEF Out
<1>6. Batches(G, nTodo)'
  BY <1>1, <1>2, <1>5, Zenon DEF Batches
<1>7. ASSUME NEW u \in Thread PROVE Batch(u, G[u], pc[u])'
  <2>1. CASE u = t
    BY <1>1, <1>3, <2>1, Zenon DEF Batch
  <2>2. CASE u # t
    <3>1. Batch(u, G[u], places[u])
      BY <2>2 DEF Middle
    <3> QED
      BY <1>2, <1>3, <2>2, <3>1 DEF Batch
  <2> QED
    BY <2>1, <2>2, Zenon
<1>8. Active(places) /\ \A m \in Master \ {t} : places[m] = "out"
  BY <1>1, <1>2, OneMaster DEF Active
<1>9. ~Active(pc)'
  BY <1>3, <1>8 DEF Active, Thread
<1>10. Account(G, fAllOk, pc)'
  BY <1>1, <1>2, <1>5, <1>9 DEF Account
<1>11. /\ allOk <=> fails = {}
       /\ allOk => ran = 1..nAdded
  <2>1. \A c \in 1..nAdded : (c \in fails => ~allOk) /\ (allOk => c \in ran)
    BY <1>1, <1>5, <1>8 DEF Account
  <2>2. (\A c \in fails \cup ran : c \in 1..nAdded) /\ (~allOk => fails # {})
    BY <1>1 DEF Account
  <2> QED
    BY <2>1, <2>2, Zenon
<1>12. Controlled(pc)'
  <2>1. allOk = (fails = {})
    BY <1>1, <1>11
  <2>2. \A m \in Master : pc'[m] = "done" => verdict'[m] = (fails = {}) /\ (verdict'[m] => ran = 1..nAdded)
    BY <1>3, <1>8, <1>11, <2>1 DEF Thread
  <2>3. \A m \in Master : pc'[m] # "out" <=> ControlMutex = m
    BY <1>1, <1>2, <1>3 DEF Controlled, Thread
  <2>4. \A w \in Worker : pc'[w] \notin {"out", "add", "done"}
    BY <1>1, <1>2, <1>3, QueueAssumption, Zenon DEF Controlled, Thread
  <2> QED
    BY <2>2, <2>3, <2>4 DEF Controlled
<1>13. Counted(Thread, nTotal, nIdle, pc)'
  <2>1. IdleOf(Thread, pc)' = IdleOf(Thread \ {t}, places)
    BY <1>3, Zenon DEF IdleOf
  <2>2. InLoopOf(Thread, pc)' = InLoopOf(Thread \ {t}, places)
    BY <1>2, <1>3, Zenon DEF InLoopOf
  <2> QED
    BY <1>2, <2>1, <2>2, Zenon DEF Middle, Counted
<1>14. IInvOf(G)'
  BY <1>6, <1>7, <1>10, <1>12, <1>13 DEF IInvOf
<1> QED
  BY <1>1, <1>4, <1>14 DEF IInv

(* A thread that finds the queue empty goes to wait.                       *)
LEMMA SleepStep ==
  ASSUME Typed, NEW t \in Thread, NEW G, NEW allOk, NEW todo, NEW total, NEW idle, NEW places,
         Middle(t, G, allOk, todo, total, idle, places),
         Sleep(t, allOk, todo, total, idle, places), nTodo' = todo,
         UNCHANGED <<ControlMutex, fails, nAdded, ran>>
  PROVE  IInv'
<1>1. /\ allOk \in BOOLEAN /\ total \in Nat /\ idle \in Nat
      /\ places \in [Thread -> Places] /\ places[t] \in {"enter", "woken"}
      /\ Batches(G, todo) /\ G[t] = {} /\ G \in [Thread -> SUBSET Check]
      /\ Controlled(places) /\ Account(G, allOk, places)
  BY DEF Middle, Batches
<1>2. /\ queue' = queue /\ vChecks' = vChecks /\ nNow' = nNow /\ fOk' = fOk
      /\ verdict' = verdict /\ fAllOk' = allOk /\ pc' = [places EXCEPT ![t] = "sleep"]
      /\ nTotal' = total /\ nIdle' = idle + 1
  BY DEF Sleep
<1>3. pc'[t] = "sleep" /\ \A u \in Thread \ {t} : pc'[u] = places[u]
  BY <1>1, <1>2
<1>4. Typed'
  BY <1>1, <1>2, Zenon DEF Typed, Places
<1>5. Out(G)' = Out(G)
  BY <1>2 DEF Out
<1>6. Batches(G, nTodo)'
  BY <1>1, <1>2, <1>5, Zenon DEF Batches
<1>7. ASSUME NEW u \in Thread PROVE Batch(u, G[u], pc[u])'
  <2>1. CASE u = t
    BY <1>1, <1>3, <2>1, Zenon DEF Batch
  <2>2. CASE u # t
    <3>1. Batch(u, G[u], places[u])
      BY <2>2 DEF Middle
    <3> QED
      BY <1>2, <1>3, <2>2, <3>1 DEF Batch
  <2> QED
    BY <2>1, <2>2
<1>8. Active(pc)' <=> Active(places)
  BY <1>1, <1>3 DEF Active, Thread
<1>9. Account(G, fAllOk, pc)'
  BY <1>1, <1>2, <1>5, <1>8, Zenon DEF Account
<1>10. Controlled(pc)'
  BY <1>1, <1>2, <1>3 DEF Controlled, Thread
<1>11. Counted(Thread, nTotal, nIdle, pc)'
  <2>1. IdleOf(Thread, pc)' = IdleOf(Thread \ {t}, places) \cup {t}
    BY <1>3, Zenon DEF IdleOf
  <2>2. InLoopOf(Thread, pc)' = InLoopOf(Thread \ {t}, places) \cup {t}
    BY <1>2, <1>3, Zenon DEF InLoopOf
  <2>3. /\ IsFiniteSet(InLoopOf(Thread \ {t}, places)) /\ t \notin InLoopOf(Thread \ {t}, places)
        /\ IsFiniteSet(IdleOf(Thread \ {t}, places)) /\ t \notin IdleOf(Thread \ {t}, places)
    BY Finite, Zenon DEF InLoopOf, IdleOf
  <2>4. idle = Cardinality(IdleOf(Thread \ {t}, places))
        /\ total - 1 = Cardinality(InLoopOf(Thread \ {t}, places))
    BY DEF Middle, Counted
  <2>5. /\ Cardinality(InLoopOf(Thread \ {t}, places) \cup {t}) = total
        /\ Cardinality(IdleOf(Thread \ {t}, places) \cup {t}) = idle + 1
    <3>1. Cardinality(InLoopOf(Thread \ {t}, places) \cup {t}) = Cardinality(InLoopOf(Thread \ {t}, places)) + 1
      BY <2>3, FS_AddElement, Zenon
    <3>2. Cardinality(IdleOf(Thread \ {t}, places) \cup {t}) = Cardinality(IdleOf(Thread \ {t}, places)) + 1
      BY <2>3, FS_AddElement, Zenon
    <3> QED
      BY <1>1, <2>4, <3>1, <3>2
  <2> QED
    BY <1>2, <2>1, <2>2, <2>5, Zenon DEF Counted
<1>12. IInvOf(G)'
  BY <1>6, <1>7, <1>9, <1>10, <1>11 DEF IInvOf
<1> QED
  BY <1>1, <1>4, <1>12 DEF IInv

(* A section of Loop under the mutex: clean-up or end of a wait, then one  *)
(* of the three ways on.                                                   *)
LEMMA LoopStepKeeps ==
  ASSUME IInv, NEW t \in Thread, Enter(t) \/ Wake(t)
  PROVE  IInv'
<1> USE DEF IInv
<1>1. PICK H \in [Thread -> SUBSET Check] : IInvOf(H)
  OBVIOUS
<1>2. \A G, allOk, todo, total, idle, places :
        Middle(t, G, allOk, todo, total, idle, places) /\ LoopBody(t, allOk, todo, total, idle, places)
        => IInv'
  <2> SUFFICES ASSUME NEW G, NEW allOk, NEW todo, NEW total, NEW idle, NEW places,
                      Middle(t, G, allOk, todo, total, idle, places),
                      LoopBody(t, allOk, todo, total, idle, places)
               PROVE  IInv'
    OBVIOUS
  <2>1. nTodo' = todo /\ UNCHANGED <<ControlMutex, fails, nAdded, ran>>
    BY DEF LoopBody
  <2>2. CASE Take(t, allOk, total, idle, places)
    BY <2>1, <2>2, TakeStep
  <2>3. CASE Return(t, allOk, todo, total, idle, places)
    BY <2>1, <2>3, ReturnStep
  <2>4. CASE Sleep(t, allOk, todo, total, idle, places)
    BY <2>1, <2>4, SleepStep
  <2> QED
    BY <2>2, <2>3, <2>4 DEF LoopBody
<1>3. CASE Enter(t)
  <2>1. PICK allOk \in BOOLEAN : allOk = (fAllOk /\ (nNow[t] > 0 => fOk[t]))
    BY Zenon
  <2>2. PICK total : total = IF nNow[t] > 0 THEN nTotal ELSE nTotal + 1
    BY Zenon
  <2>3. LoopBody(t, allOk, nTodo - nNow[t], total, nIdle, PlacesAfterCleanUp(t))
    BY <1>3, <2>1, <2>2 DEF Enter
  <2>4. Middle(t, [H EXCEPT ![t] = {}], allOk, nTodo - nNow[t], total, nIdle, PlacesAfterCleanUp(t))
    BY <1>1, <1>3, <2>1, <2>2, EnterMiddle, Zenon DEF Enter
  <2> QED
    BY <1>2, <2>3, <2>4
<1>4. CASE Wake(t)
  <2>1. Middle(t, H, fAllOk, nTodo, nTotal, nIdle - 1, pc)
    BY <1>1, <1>4, WakeMiddle DEF Wake
  <2> QED
    BY <1>2, <1>4, <2>1 DEF Wake
<1> QED
  BY <1>3, <1>4

-----------------------------------------------------------------------------
(* The other steps *)

(* The constructor of CCheckQueueControl finds nothing left of the block   *)
(* before.                                                                 *)
LEMMA ControlStep ==
  ASSUME IInv, NEW m \in Master, Control(m)
  PROVE  IInv'
<1>1. PICK H \in [Thread -> SUBSET Check] : IInvOf(H)
  BY DEF IInv
<1>2. Typed /\ m \in Thread
  BY DEF IInv, Thread
<1>3. /\ queue' = queue /\ nIdle' = nIdle /\ nTotal' = nTotal /\ fAllOk' = fAllOk /\ nTodo' = nTodo
      /\ vChecks' = vChecks /\ nNow' = nNow /\ fOk' = fOk /\ verdict' = verdict
      /\ pc[m] = "out" /\ ControlMutex = None /\ pc' = [pc EXCEPT ![m] = "add"]
      /\ ControlMutex' = m /\ fails' = {} /\ nAdded' = 0 /\ ran' = {}
  BY DEF Control
<1>4. pc'[m] = "add" /\ \A u \in Thread \ {m} : pc'[u] = pc[u]
  BY <1>2, <1>3 DEF Typed
<1>5. Typed'
  BY <1>2, <1>3, QueueAssumption DEF Typed, Places
<1>6. \A n \in Master : pc[n] = "out"
  BY <1>1, <1>3, QueueAssumption DEF IInvOf, Controlled
<1>7. ~Active(pc) /\ Active(pc)'
  BY <1>4, <1>6 DEF Active
<1>8. Out(H) = {} /\ fAllOk /\ Out(H)' = {}
  BY <1>1, <1>3, <1>7 DEF IInvOf, Account, Out
<1>9. \A u \in Thread : H[u] = {}
  BY <1>1, <1>8 DEF Out
<1>10. Batches(H, nTodo)'
  BY <1>1, <1>3, <1>8 DEF IInvOf, Batches
<1>11. ASSUME NEW u \in Thread PROVE Batch(u, H[u], pc[u])'
  <2>1. Batch(u, H[u], pc[u]) /\ H[u] = {}
    BY <1>1, <1>9, Zenon DEF IInvOf
  <2>2. CASE u = m
    BY <1>4, <2>1, <2>2, Zenon DEF Batch
  <2>3. CASE u # m
    BY <1>3, <1>4, <2>1, <2>3 DEF Batch
  <2> QED
    BY <2>2, <2>3, Zenon
<1>12. Account(H, fAllOk, pc)'
  BY <1>3, <1>7, <1>8 DEF Account
<1>13. Controlled(pc)'
  <2>1. Controlled(pc)
    BY <1>1 DEF IInvOf
  <2> QED
    BY <1>3, <1>4, <1>6, <2>1, QueueAssumption, Zenon DEF Controlled, Thread
<1>14. Counted(Thread, nTotal, nIdle, pc)'
  <2>1. IdleOf(Thread, pc)' = IdleOf(Thread, pc) /\ InLoopOf(Thread, pc)' = InLoopOf(Thread, pc)
    BY <1>3, <1>4 DEF IdleOf, InLoopOf
  <2> QED
    BY <1>1, <1>3, <2>1 DEF IInvOf, Counted
<1> QED
  BY <1>1, <1>5, <1>10, <1>11, <1>12, <1>13, <1>14, Zenon DEF IInv, IInvOf

(* CCheckQueue::Add queues fresh checks and wakes waiting workers.         *)
LEMMA AddStep ==
  ASSUME IInv, NEW m \in Master, NEW n \in 1..(MaxChecks - nAdded), Add(m, n)
  PROVE  IInv'
<1>1. PICK H \in [Thread -> SUBSET Check] : IInvOf(H)
  BY DEF IInv
<1>2. Typed /\ m \in Thread /\ pc \in [Thread -> Places]
  BY DEF IInv, Typed, Thread
<1>3. nAdded \in Nat /\ n \in Nat /\ nAdded + n <= MaxChecks /\ MaxChecks \in Nat
  BY <1>2, QueueAssumption DEF Typed
<1>4. PICK r : r = queue \o [i \in 1..n |-> nAdded + i]
  BY Zenon
<1>5. PICK F \in SUBSET ((nAdded + 1)..(nAdded + n)) : fails' = fails \cup F
  BY Zenon DEF Add
<1>6. PICK W \in Notified(n) : pc' = Woken(W)
  BY DEF Add
<1>7. /\ queue' = r /\ nTodo' = nTodo + n /\ nAdded' = nAdded + n /\ pc[m] = "add"
      /\ nIdle' = nIdle /\ nTotal' = nTotal /\ fAllOk' = fAllOk /\ ControlMutex' = ControlMutex
      /\ vChecks' = vChecks /\ nNow' = nNow /\ fOk' = fOk /\ ran' = ran /\ verdict' = verdict
  BY <1>4 DEF Add
<1>8. W \in SUBSET Sleepers
  BY <1>6 DEF Notified
<1>9. pc' \in [Thread -> Places] /\ \A u \in Thread : pc'[u] = pc[u] \/ (pc[u] = "sleep" /\ pc'[u] = "woken")
  BY <1>2, <1>6, <1>8, Zenon DEF Woken, Sleepers, Places
<1>10. Batches(H, nTodo) /\ Account(H, fAllOk, pc) /\ Controlled(pc)
  BY <1>1 DEF IInvOf
<1>11. /\ r \in Seq(Check) /\ Injective(r)
       /\ \A c : c \in Range(r) <=> c \in Range(queue) \/ c \in (nAdded + 1)..(nAdded + n)
  <2>1. queue \in Seq(Check) /\ Injective(queue)
    BY <1>2, <1>10 DEF Typed, Batches
  <2>2. Range(queue) \subseteq 1..nAdded
    <3>1. Range(queue) \subseteq Check
      BY <2>1, RangeFacts, Zenon
    <3>2. \A c \in Range(queue) : c <= nAdded
      BY <1>10, <3>1 DEF Batches, Out
    <3> QED
      BY <1>3, <3>1, <3>2 DEF Check
  <2> QED
    BY <1>3, <1>4, <2>1, <2>2, AppendFacts, Zenon
<1>12. Typed'
  <2>1. nAdded + n \in 0..MaxChecks
    BY <1>3
  <2> QED
    BY <1>2, <1>7, <1>9, <1>11, <2>1, Zenon DEF Typed
<1>13. /\ Out(H) \in SUBSET Check /\ \A c \in Out(H) : c <= nAdded
       /\ Out(H)' = Out(H) \cup (nAdded + 1)..(nAdded + n)
  <2>1. (nAdded + 1)..(nAdded + n) \in SUBSET Check
    BY <1>3 DEF Check
  <2> QED
    BY <1>7, <1>10, <1>11, <2>1, Zenon DEF Out, Batches
<1>14. Cardinality(Out(H)') = nTodo + n
  <2>1. IsFiniteSet(Out(H)) /\ Cardinality(Out(H)) = nTodo /\ nTodo \in Nat
    BY <1>10, <1>13, Finite DEF Batches
  <2>2. IsFiniteSet((nAdded + 1)..(nAdded + n)) /\ Cardinality((nAdded + 1)..(nAdded + n)) = n
    BY <1>3, FS_Interval
  <2>3. Out(H) \cap (nAdded + 1)..(nAdded + n) = {}
    BY <1>3, <1>13 DEF Check
  <2> DEFINE New == (nAdded + 1)..(nAdded + n)
  <2>4. Cardinality(Out(H) \cup New) = Cardinality(Out(H)) + Cardinality(New) - Cardinality(Out(H) \cap New)
    <3> HIDE DEF New
    <3>1. IsFiniteSet(Out(H)) /\ IsFiniteSet(New)
      BY <2>1, <2>2, Zenon DEF New
    <3> QED
      BY <3>1, FS_Union, Zenon
  <2>5. Cardinality(Out(H) \cap New) = 0
    BY <2>3, FS_EmptySet, Zenon
  <2>6. Cardinality(Out(H) \cup New) = nTodo + n - 0
    BY <2>1, <2>2, <2>4, <2>5, Zenon
  <2>7. Cardinality(Out(H)') = nTodo + n - 0
    BY <1>13, <2>6, Zenon
  <2>8. nTodo + n - 0 = nTodo + n
    BY <1>3, <2>1
  <2> QED
    BY <2>7, <2>8, Zenon
<1>15. \A u \in Thread : \A c \in H[u] : c \in Out(H) /\ c <= nAdded /\ c \in Nat
  <2>1. \A c \in Check : c \in Nat
    BY DEF Check
  <2> QED
    BY <1>1, <1>13, <2>1, Zenon DEF Out
<1>16. Batches(H, nTodo)'
  <2>1. \A u \in Thread : \A c \in H[u] : c \notin Range(r)
    <3>1. \A c \in Nat : c <= nAdded => c \notin (nAdded + 1)..(nAdded + n)
      BY <1>3
    <3> QED
      BY <1>10, <1>11, <1>15, <3>1, Zenon DEF Batches
  <2>2. \A c \in Out(H)' : c <= nAdded + n
    BY <1>3, <1>13 DEF Check
  <2> QED
    BY <1>7, <1>10, <1>11, <1>14, <2>1, <2>2 DEF Batches
<1>17. \A c : c \in Nat /\ c <= nAdded => (c \in fails' <=> c \in fails)
  BY <1>3, <1>5
<1>18. ASSUME NEW u \in Thread PROVE Batch(u, H[u], pc[u])'
  <2>1. Batch(u, H[u], pc[u])
    BY <1>1 DEF IInvOf
  <2>2. pc'[u] = pc[u] \/ (pc[u] = "sleep" /\ pc'[u] = "woken")
    BY <1>9
  <2>3. \A c \in H[u] : c \in fails' <=> c \in fails
    BY <1>15, <1>17
  <2>4. fails # {} => fails' # {}
    BY <1>5
  <2> QED
    BY <1>7, <2>1, <2>2, <2>3, <2>4 DEF Batch
<1>19. Active(pc) /\ Active(pc)'
  BY <1>2, <1>7, <1>9 DEF Active
<1>20. Account(H, fAllOk, pc)'
  <2>1. ASSUME NEW c \in 1..(nAdded + n), c \notin Out(H)'
        PROVE  (c \in fails' => ~fAllOk) /\ (fAllOk => c \in ran)
    <3>1. c \in 1..nAdded /\ c \notin Out(H)
      BY <1>3, <1>13, <2>1
    <3>2. c \in Nat /\ c <= nAdded
      BY <1>3, <3>1
    <3> QED
      BY <1>10, <1>17, <1>19, <3>1, <3>2 DEF Account
  <2>2. \A c \in fails' \cup ran : c \in 1..(nAdded + n)
    <3>1. \A c \in fails \cup ran : c \in 1..nAdded
      BY <1>10 DEF Account
    <3>2. \A c : c \in 1..nAdded \/ c \in (nAdded + 1)..(nAdded + n) => c \in 1..(nAdded + n)
      BY <1>3
    <3> QED
      BY <1>5, <3>1, <3>2, Zenon
  <2>3. ~fAllOk => fails' # {}
    BY <1>5, <1>10, Zenon DEF Account
  <2> QED
    BY <1>7, <1>19, <2>1, <2>2, <2>3 DEF Account
<1>21. Controlled(pc)'
  <2>1. \A u \in Master : pc'[u] # "done"
    <3>1. \A u \in Master : pc[u] # "done"
      BY <1>7, <1>10, OneMaster
    <3> QED
      BY <1>9, <3>1 DEF Thread
  <2> QED
    BY <1>7, <1>9, <1>10, <2>1 DEF Controlled, Thread
<1>22. Counted(Thread, nTotal, nIdle, pc)'
  <2>1. IdleOf(Thread, pc)' = IdleOf(Thread, pc)
    BY <1>9, Zenon DEF IdleOf
  <2>2. InLoopOf(Thread, pc)' = InLoopOf(Thread, pc)
    BY <1>7, <1>9 DEF InLoopOf
  <2> QED
    BY <1>1, <1>7, <2>1, <2>2, Zenon DEF IInvOf, Counted
<1> QED
  BY <1>1, <1>12, <1>16, <1>18, <1>20, <1>21, <1>22, Zenon DEF IInv, IInvOf

(* The master that calls Wait joins the workers with nothing in hand.      *)
LEMMA WaitStep ==
  ASSUME IInv, NEW m \in Master, Wait(m)
  PROVE  IInv'
<1>1. PICK H \in [Thread -> SUBSET Check] : IInvOf(H)
  BY DEF IInv
<1>2. Typed /\ m \in Thread
  BY DEF IInv, Thread
<1>3. /\ queue' = queue /\ nIdle' = nIdle /\ nTotal' = nTotal /\ fAllOk' = fAllOk /\ nTodo' = nTodo
      /\ ControlMutex' = ControlMutex /\ vChecks' = vChecks /\ fails' = fails /\ nAdded' = nAdded
      /\ ran' = ran /\ verdict' = verdict /\ pc[m] = "add" /\ pc' = [pc EXCEPT ![m] = "enter"]
      /\ nNow' = [nNow EXCEPT ![m] = 0] /\ fOk' = [fOk EXCEPT ![m] = TRUE]
  BY Zenon DEF Wait
<1>4. /\ pc'[m] = "enter" /\ nNow'[m] = 0 /\ fOk'[m] = TRUE
      /\ \A u \in Thread \ {m} : pc'[u] = pc[u] /\ nNow'[u] = nNow[u] /\ fOk'[u] = fOk[u]
  BY <1>2, <1>3 DEF Typed
<1>5. Typed'
  BY <1>2, <1>3 DEF Typed, Places
<1>6. Out(H)' = Out(H)
  BY <1>3 DEF Out
<1>7. Batches(H, nTodo)'
  BY <1>1, <1>3, <1>6, Zenon DEF IInvOf, Batches
<1>8. ASSUME NEW u \in Thread PROVE Batch(u, H[u], pc[u])'
  <2>1. Batch(u, H[u], pc[u])
    BY <1>1, Zenon DEF IInvOf
  <2>2. CASE u = m
    <3>1. H[u] = {} /\ Cardinality(H[u]) = 0
      BY <1>3, <2>1, <2>2, FS_EmptySet, Zenon DEF Batch
    <3> QED
      BY <1>4, <2>2, <3>1 DEF Batch
  <2>3. CASE u # m
    BY <1>3, <1>4, <2>1, <2>3 DEF Batch
  <2> QED
    BY <2>2, <2>3
<1>9. Active(pc) /\ Active(pc)'
  BY <1>3, <1>4 DEF Active
<1>10. Account(H, fAllOk, pc)'
  BY <1>1, <1>3, <1>6, <1>9 DEF IInvOf, Account
<1>11. Controlled(pc)'
  <2>1. Controlled(pc)
    BY <1>1 DEF IInvOf
  <2> QED
    BY <1>3, <1>4, <2>1, QueueAssumption DEF Controlled, Thread
<1>12. Counted(Thread, nTotal, nIdle, pc)'
  <2>1. IdleOf(Thread, pc)' = IdleOf(Thread, pc) /\ InLoopOf(Thread, pc)' = InLoopOf(Thread, pc)
    BY <1>3, <1>4 DEF IdleOf, InLoopOf
  <2> QED
    BY <1>1, <1>3, <2>1 DEF IInvOf, Counted
<1> QED
  BY <1>1, <1>5, <1>7, <1>8, <1>10, <1>11, <1>12, Zenon DEF IInv, IInvOf

(* The destructor of CCheckQueueControl gives up ControlMutex and leaves   *)
(* the queue clean.                                                        *)
LEMMA ReleaseStep ==
  ASSUME IInv, NEW m \in Master, Release(m)
  PROVE  IInv'
<1>1. PICK H \in [Thread -> SUBSET Check] : IInvOf(H)
  BY DEF IInv
<1>2. Typed /\ m \in Thread
  BY DEF IInv, Thread
<1>3. /\ queue' = queue /\ nIdle' = nIdle /\ nTotal' = nTotal /\ fAllOk' = fAllOk /\ nTodo' = nTodo
      /\ vChecks' = vChecks /\ nNow' = nNow /\ fOk' = fOk /\ fails' = fails /\ nAdded' = nAdded
      /\ ran' = ran /\ verdict' = verdict /\ pc[m] = "done" /\ pc' = [pc EXCEPT ![m] = "out"]
      /\ ControlMutex' = None
  BY DEF Release
<1>4. pc'[m] = "out" /\ \A u \in Thread \ {m} : pc'[u] = pc[u]
  BY <1>2, <1>3 DEF Typed
<1>5. Typed'
  BY <1>2, <1>3 DEF Typed, Places
<1>6. Out(H)' = Out(H)
  BY <1>3, Zenon DEF Out
<1>7. Batches(H, nTodo)'
  BY <1>1, <1>3, <1>6, Zenon DEF IInvOf, Batches
<1>8. ASSUME NEW u \in Thread PROVE Batch(u, H[u], pc[u])'
  <2>1. Batch(u, H[u], pc[u])
    BY <1>1 DEF IInvOf
  <2>2. CASE u = m
    BY <1>3, <1>4, <2>1, <2>2, Zenon DEF Batch
  <2>3. CASE u # m
    BY <1>3, <1>4, <2>1, <2>3 DEF Batch
  <2> QED
    BY <2>2, <2>3
<1>9. Controlled(pc) /\ \A n \in Master \ {m} : pc[n] = "out"
  BY <1>1, <1>3, OneMaster DEF IInvOf
<1>10. ~Active(pc) /\ ~Active(pc)'
  BY <1>3, <1>4, <1>9, Zenon DEF Active, Thread
<1>11. Account(H, fAllOk, pc)'
  BY <1>1, <1>3, <1>6, <1>10, Zenon DEF IInvOf, Account
<1>12. Controlled(pc)'
  BY <1>3, <1>4, <1>9, QueueAssumption DEF Controlled, Thread
<1>13. Counted(Thread, nTotal, nIdle, pc)'
  <2>1. IdleOf(Thread, pc)' = IdleOf(Thread, pc) /\ InLoopOf(Thread, pc)' = InLoopOf(Thread, pc)
    BY <1>3, <1>4 DEF IdleOf, InLoopOf
  <2> QED
    BY <1>1, <1>3, <2>1 DEF IInvOf, Counted
<1> QED
  BY <1>1, <1>5, <1>7, <1>8, <1>11, <1>12, <1>13, Zenon DEF IInv, IInvOf

(* A wake-up without a notification changes nothing but the place.         *)
LEMMA SpuriousWakeupStep ==
  ASSUME IInv, NEW t \in Thread, SpuriousWakeup(t)
  PROVE  IInv'
<1>1. PICK H \in [Thread -> SUBSET Check] : IInvOf(H)
  BY DEF IInv
<1>2. Typed
  BY DEF IInv
<1>3. /\ queue' = queue /\ nIdle' = nIdle /\ nTotal' = nTotal /\ fAllOk' = fAllOk /\ nTodo' = nTodo
      /\ ControlMutex' = ControlMutex /\ vChecks' = vChecks /\ nNow' = nNow /\ fOk' = fOk
      /\ fails' = fails /\ nAdded' = nAdded /\ ran' = ran /\ verdict' = verdict
      /\ pc[t] = "sleep" /\ pc' = [pc EXCEPT ![t] = "woken"]
  BY DEF SpuriousWakeup
<1>4. pc'[t] = "woken" /\ \A u \in Thread \ {t} : pc'[u] = pc[u]
  BY <1>2, <1>3 DEF Typed
<1>5. Typed'
  BY <1>2, <1>3 DEF Typed, Places
<1>6. Out(H)' = Out(H)
  BY <1>3, Zenon DEF Out
<1>7. Batches(H, nTodo)'
  BY <1>1, <1>3, <1>6 DEF IInvOf, Batches
<1>8. ASSUME NEW u \in Thread PROVE Batch(u, H[u], pc[u])'
  <2>1. Batch(u, H[u], pc[u])
    BY <1>1, Zenon DEF IInvOf
  <2>2. CASE u = t
    BY <1>3, <1>4, <2>1, <2>2, Zenon DEF Batch
  <2>3. CASE u # t
    BY <1>3, <1>4, <2>1, <2>3 DEF Batch
  <2> QED
    BY <2>2, <2>3
<1>9. Active(pc)' <=> Active(pc)
  BY <1>3, <1>4 DEF Active, Thread
<1>10. Account(H, fAllOk, pc)'
  BY <1>1, <1>3, <1>6, <1>9, Zenon DEF IInvOf, Account
<1>11. Controlled(pc)'
  <2>1. Controlled(pc)
    BY <1>1 DEF IInvOf
  <2> QED
    BY <1>3, <1>4, <2>1 DEF Controlled, Thread
<1>12. Counted(Thread, nTotal, nIdle, pc)'
  <2>1. IdleOf(Thread, pc)' = IdleOf(Thread, pc) /\ InLoopOf(Thread, pc)' = InLoopOf(Thread, pc)
    BY <1>3, <1>4, Zenon DEF IdleOf, InLoopOf
  <2> QED
    BY <1>1, <1>3, <2>1 DEF IInvOf, Counted
<1> QED
  BY <1>1, <1>5, <1>7, <1>8, <1>10, <1>11, <1>12, Zenon DEF IInv, IInvOf

(* What a batch leaves in fOk: false when one of its checks fails, true    *)
(* only when all of them were executed.                                    *)
LEMMA ExecutedFacts ==
  ASSUME NEW t \in Thread, vChecks[t] \in Seq(Check)
  PROVE  /\ Executed(t) \subseteq Range(vChecks[t])
         /\ fOk[t] /\ Range(vChecks[t]) \cap fails = {} => Range(vChecks[t]) \subseteq Executed(t)
<1>1. Executed(t) \subseteq Range(vChecks[t])
  BY DEF Executed, Range
<1>2. ASSUME fOk[t], Range(vChecks[t]) \cap fails = {} PROVE Range(vChecks[t]) \subseteq Executed(t)
  <2>1. \A k \in DOMAIN vChecks[t] : vChecks[t][k] \notin fails
    BY <1>2 DEF Range
  <2>2. \A i \in DOMAIN vChecks[t] : \A k \in 1..(i - 1) : k \in DOMAIN vChecks[t]
    OBVIOUS
  <2>3. \A i \in DOMAIN vChecks[t] : fOk[t] /\ \A k \in 1..(i - 1) : vChecks[t][k] \notin fails
    BY <1>2, <2>1, <2>2
  <2> QED
    BY <2>3, Zenon DEF Executed, Range
<1> QED
  BY <1>1, <1>2

(* A thread runs its batch without the mutex; the result stays in its fOk  *)
(* until its next clean-up.                                                *)
LEMMA ExecuteStep ==
  ASSUME IInv, NEW t \in Thread, Execute(t)
  PROVE  IInv'
<1>1. PICK H \in [Thread -> SUBSET Check] : IInvOf(H)
  BY DEF IInv
<1>2. Typed
  BY DEF IInv
<1>3. /\ queue' = queue /\ nIdle' = nIdle /\ nTotal' = nTotal /\ fAllOk' = fAllOk /\ nTodo' = nTodo
      /\ ControlMutex' = ControlMutex /\ nNow' = nNow /\ fails' = fails /\ nAdded' = nAdded
      /\ verdict' = verdict /\ pc[t] = "work" /\ pc' = [pc EXCEPT ![t] = "enter"]
      /\ ran' = ran \cup Executed(t) /\ vChecks' = [vChecks EXCEPT ![t] = <<>>]
      /\ fOk' = [fOk EXCEPT ![t] = @ /\ Range(vChecks[t]) \cap fails = {}]
  BY DEF Execute
<1>4. /\ Batches(H, nTodo) /\ Account(H, fAllOk, pc) /\ Controlled(pc)
      /\ \A u \in Thread : Batch(u, H[u], pc[u])
  BY <1>1, Zenon DEF IInvOf
<1>5. H[t] = Range(vChecks[t]) /\ nNow[t] > 0 /\ Cardinality(H[t]) = nNow[t]
  BY <1>3, <1>4 DEF Batch
<1>6. H[t] # {}
  <2>1. nNow[t] # 0
    BY <1>2, <1>5 DEF Typed
  <2> QED
    BY <1>5, <2>1, FS_EmptySet
<1>7. Active(pc) /\ \A m \in Master : pc[m] # "done"
  BY <1>1, <1>6, WorkIsActive
<1>8. /\ pc'[t] = "enter" /\ fOk'[t] \in BOOLEAN
      /\ fOk'[t] <=> fOk[t] /\ H[t] \cap fails = {}
      /\ \A u \in Thread \ {t} : pc'[u] = pc[u] /\ fOk'[u] = fOk[u] /\ vChecks'[u] = vChecks[u]
  BY <1>2, <1>3, <1>5, Zenon DEF Typed
<1>9. Typed'
  <2>1. fOk' \in [Thread -> BOOLEAN]
    BY <1>2, <1>3 DEF Typed
  <2>2. vChecks' \in [Thread -> Seq(Check)]
    BY <1>2, <1>3 DEF Typed
  <2> QED
    BY <1>2, <1>3, <2>1, <2>2 DEF Typed, Places
<1>10. Out(H)' = Out(H)
  BY <1>3 DEF Out
<1>11. Batches(H, nTodo)'
  BY <1>3, <1>4, <1>10 DEF Batches
<1>12. Executed(t) \subseteq H[t] /\ (fOk'[t] => H[t] \subseteq ran')
  <2>1. vChecks[t] \in Seq(Check)
    BY <1>2 DEF Typed
  <2>2. /\ Executed(t) \subseteq H[t]
        /\ fOk[t] /\ H[t] \cap fails = {} => H[t] \subseteq Executed(t)
    BY <1>5, <2>1, ExecutedFacts
  <2>3. fOk'[t] => H[t] \subseteq Executed(t)
    BY <1>8, <2>2, Zenon
  <2>4. Executed(t) \subseteq ran'
    BY <1>3
  <2> QED
    BY <2>2, <2>3, <2>4, Zenon
<1>13. ASSUME NEW u \in Thread PROVE Batch(u, H[u], pc[u])'
  <2>1. Batch(u, H[u], pc[u])
    BY <1>4
  <2>2. CASE u = t
    <3>1. ~fOk'[t] => fails # {}
      BY <1>6, <1>8, <2>1, <2>2, Zenon DEF Batch
    <3>2. \A c \in H[t] : (c \in fails => ~fOk'[t]) /\ (fOk'[t] => c \in ran')
      BY <1>8, <1>12, Zenon
    <3> QED
      BY <1>3, <1>5, <1>8, <2>2, <3>1, <3>2 DEF Batch
  <2>3. CASE u # t
    <3>1. pc'[u] = pc[u] /\ fOk'[u] = fOk[u] /\ vChecks'[u] = vChecks[u]
      BY <1>8, <2>3, Zenon
    <3>2. \A c \in ran : c \in ran'
      BY <1>3
    <3> QED
      BY <1>3, <2>1, <3>1, <3>2 DEF Batch
  <2> QED
    BY <2>2, <2>3
<1>14. Active(pc)'
  BY <1>7, <1>8, Zenon DEF Active, Thread
<1>15. Account(H, fAllOk, pc)'
  <2>1. \A c \in H[t] : c \in 1..nAdded
    <3>1. \A c \in H[t] : c \in Check /\ c \in Out(H) /\ c <= nAdded
      BY <1>1, <1>4, Zenon DEF Batches, Out
    <3> QED
      BY <1>2, <3>1 DEF Check, Typed
  <2> QED
    BY <1>3, <1>4, <1>7, <1>10, <1>12, <1>14, <2>1, Zenon DEF Account
<1>16. Controlled(pc)'
  <2>1. \A m \in Master : pc'[m] # "done"
    BY <1>7, <1>8 DEF Thread
  <2> QED
    BY <1>3, <1>4, <1>8, <2>1, Zenon DEF Controlled, Thread
<1>17. Counted(Thread, nTotal, nIdle, pc)'
  <2>1. IdleOf(Thread, pc)' = IdleOf(Thread, pc)
    BY <1>3, <1>8 DEF IdleOf
  <2>2. InLoopOf(Thread, pc)' = InLoopOf(Thread, pc)
    BY <1>3, <1>5, <1>8 DEF InLoopOf
  <2> QED
    BY <1>1, <1>3, <2>1, <2>2 DEF IInvOf, Counted
<1> QED
  BY <1>1, <1>9, <1>11, <1>13, <1>15, <1>16, <1>17, Zenon DEF IInv, IInvOf

-----------------------------------------------------------------------------
(* The theorems *)

(* Every step of Next keeps the inductive invariant.                       *)
LEMMA IInvStep == IInv /\ [Next]_vars => IInv'
<1> SUFFICES ASSUME IInv, [Next]_vars PROVE IInv'
  OBVIOUS
<1>1. ASSUME NEW m \in Master, Control(m) PROVE IInv'
  BY <1>1, ControlStep
<1>2. ASSUME NEW m \in Master, Wait(m) PROVE IInv'
  BY <1>2, WaitStep
<1>3. ASSUME NEW m \in Master, Release(m) PROVE IInv'
  BY <1>3, ReleaseStep
<1>4. ASSUME NEW m \in Master, NEW n \in 1..(MaxChecks - nAdded), Add(m, n) PROVE IInv'
  BY <1>4, AddStep
<1>5. ASSUME NEW t \in Thread, Enter(t) \/ Wake(t) PROVE IInv'
  BY <1>5, LoopStepKeeps
<1>6. ASSUME NEW t \in Thread, Execute(t) PROVE IInv'
  BY <1>6, ExecuteStep
<1>7. ASSUME NEW t \in Thread, SpuriousWakeup(t) PROVE IInv'
  BY <1>7, SpuriousWakeupStep
<1>8. CASE UNCHANGED vars
  <2>1. PICK H \in [Thread -> SUBSET Check] : IInvOf(H)
    BY DEF IInv
  <2>2. /\ queue' = queue /\ nIdle' = nIdle /\ nTotal' = nTotal /\ fAllOk' = fAllOk /\ nTodo' = nTodo
        /\ ControlMutex' = ControlMutex /\ pc' = pc /\ vChecks' = vChecks /\ nNow' = nNow /\ fOk' = fOk
        /\ fails' = fails /\ nAdded' = nAdded /\ ran' = ran /\ verdict' = verdict
    BY <1>8, Zenon DEF vars
  <2>3. Typed'
    BY <2>2 DEF IInv, Typed
  <2>4. Out(H)' = Out(H) /\ (Active(pc)' <=> Active(pc))
    BY <2>2, Zenon DEF Out, Active
  <2>5. Batches(H, nTodo)' /\ Account(H, fAllOk, pc)'
    BY <2>1, <2>2, <2>4 DEF IInvOf, Batches, Account
  <2>6. Controlled(pc)' /\ \A t \in Thread : Batch(t, H[t], pc[t])'
    BY <2>1, <2>2, Zenon DEF IInvOf, Controlled, Batch
  <2>7. Counted(Thread, nTotal, nIdle, pc)'
    BY <2>1, <2>2, Zenon DEF IInvOf, Counted, IdleOf, InLoopOf
  <2> QED
    BY <2>1, <2>3, <2>5, <2>6, <2>7, Zenon DEF IInv, IInvOf
<1> QED
  BY <1>1, <1>2, <1>3, <1>4, <1>5, <1>6, <1>7, <1>8, Zenon DEF Next, LoopStep

(* The checks of a block are each in one place and counted once by nTodo,  *)
(* and fAllOk speaks for those that Loop has accounted for: the invariant  *)
(* from which the results below follow.                                    *)
THEOREM Invariance == Spec => []IInv
  BY InitIInv, IInvStep, PTL DEF Spec

(* The variables keep their types; the unsigned nTodo, and nIdle and       *)
(* nTotal, which the code only ever increments and decrements, never go    *)
(* below zero.                                                             *)
THEOREM TypeCorrect == Spec => []TypeOK
<1>1. IInv => TypeOK
  <2> SUFFICES ASSUME IInv PROVE TypeOK
    OBVIOUS
  <2>1. PICK H \in [Thread -> SUBSET Check] : IInvOf(H)
    BY DEF IInv
  <2>2. nTodo \in Nat
    <3>1. nTodo = Cardinality(Out(H)) /\ Out(H) \in SUBSET Check
      BY <2>1, Zenon DEF IInvOf, Batches, Out
    <3> QED
      BY <3>1, Finite
  <2>3. nIdle \in Nat /\ nTotal \in Nat
    <3>1. /\ nIdle = Cardinality(IdleOf(Thread, pc)) /\ IdleOf(Thread, pc) \in SUBSET Thread
          /\ nTotal = Cardinality(InLoopOf(Thread, pc)) /\ InLoopOf(Thread, pc) \in SUBSET Thread
      BY <2>1 DEF IInvOf, Counted, IdleOf, InLoopOf
    <3> QED
      BY <3>1, Finite, Zenon
  <2>4. ran \subseteq Check /\ fails \subseteq Check
    <3>1. \A c \in fails \cup ran : c \in 1..nAdded
      BY <2>1 DEF IInvOf, Account
    <3>2. 1..nAdded \subseteq Check
      BY QueueAssumption DEF IInv, Typed, Check
    <3> QED
      BY <3>1, <3>2, Zenon
  <2> QED
    BY <2>2, <2>3, <2>4 DEF IInv, Typed, TypeOK
<1> QED
  BY <1>1, Invariance, PTL

(* CCheckQueueControl::Wait returns true exactly when no check added under *)
(* the control fails, and then every one of them was executed: for any     *)
(* number of workers, checks, batch sizes and spurious wake-ups.           *)
THEOREM VerdictIsRight == Spec => []VerdictOfAllChecks
<1>1. IInv => VerdictOfAllChecks
  BY DEF IInv, IInvOf, Controlled, VerdictOfAllChecks
<1> QED
  BY <1>1, Invariance, PTL

(* When no control is held, or its Wait has returned, the queue is empty,  *)
(* no thread runs a check and fAllOk is true again.                        *)
THEOREM NothingLeaks == Spec => []NextBlockStartsClean
<1>1. IInv => NextBlockStartsClean
  <2> SUFFICES ASSUME IInv, ControlMutex = None \/ \E m \in Master : pc[m] = "done"
               PROVE  /\ queue = <<>> /\ nTodo = 0 /\ fAllOk
                      /\ \A t \in Thread : pc[t] # "work"
    BY DEF NextBlockStartsClean
  <2>1. PICK H \in [Thread -> SUBSET Check] : IInvOf(H)
    BY DEF IInv
  <2>2. ~Active(pc)
    <3>1. Controlled(pc)
      BY <2>1 DEF IInvOf
    <3>2. CASE ControlMutex = None
      BY <3>1, <3>2, QueueAssumption DEF Controlled, Active
    <3>3. CASE \E m \in Master : pc[m] = "done"
      BY <3>1, <3>3, OneMaster, Zenon DEF Active
    <3> QED
      BY <3>2, <3>3, Zenon
  <2>3. Out(H) = {} /\ fAllOk
    BY <2>1, <2>2 DEF IInvOf, Account
  <2>4. nTodo = 0
    BY <2>1, <2>3, FS_EmptySet, Zenon DEF IInvOf, Batches
  <2>5. queue = <<>>
    <3>1. queue \in Seq(Check)
      BY DEF IInv, Typed
    <3>2. \A i \in DOMAIN queue : queue[i] \in Check /\ queue[i] \in Out(H)
      BY <3>1 DEF Out, Range
    <3>3. DOMAIN queue = {}
      BY <2>3, <3>2
    <3> QED
      BY <3>1, <3>3
  <2>6. ASSUME NEW t \in Thread, pc[t] = "work" PROVE FALSE
    <3>1. H[t] = {}
      BY <2>1, <2>3 DEF Out
    <3>2. Cardinality(H[t]) = nNow[t] /\ nNow[t] > 0
      BY <2>1, <2>6, Zenon DEF IInvOf, Batch
    <3>3. nNow[t] = 0
      BY <3>1, <3>2, FS_EmptySet
    <3> QED
      BY <3>2, <3>3
  <2> QED
    BY <2>3, <2>4, <2>5, <2>6
<1> QED
  BY <1>1, Invariance, PTL

-----------------------------------------------------------------------------
(* The sum over the threads.  MapThenSumSet takes one thread after the other
   out of a set.  With what is left as the parent of each set, the sets of
   threads are a tree, ranked by their size: recursion and induction over it
   are those of module BlockTreeProofs.                                    *)
OneOf(s) == CHOOSE t \in s : TRUE
Rest == [s \in (SUBSET Thread) \ {{}} |-> s \ {OneOf(s)}]
Size == [s \in SUBSET Thread |-> Cardinality(s)]
Sets == INSTANCE BlockTreeProofs WITH Block <- SUBSET Thread, Genesis <- {}, Parent <- Rest

LEMMA SetTree ==
  /\ {} \in SUBSET Thread /\ Rest \in [(SUBSET Thread) \ {{}} -> SUBSET Thread]
  /\ Sets!IsRank(Size)
  /\ \A s \in (SUBSET Thread) \ {{}} : OneOf(s) \in s /\ Rest[s] = s \ {OneOf(s)}
<1>1. ASSUME NEW s \in (SUBSET Thread) \ {{}}
      PROVE  OneOf(s) \in s /\ Rest[s] = s \ {OneOf(s)} /\ s \in SUBSET Thread
  <2>1. \E t : t \in s
    OBVIOUS
  <2>2. OneOf(s) \in s
    BY <2>1, Zenon DEF OneOf
  <2> QED
    BY <2>2 DEF Rest
<1>2. Rest \in [(SUBSET Thread) \ {{}} -> SUBSET Thread]
  BY <1>1 DEF Rest
<1>3. Size \in [SUBSET Thread -> Nat]
  BY Finite DEF Size
<1>4. ASSUME NEW s \in (SUBSET Thread) \ {{}} PROVE Size[Rest[s]] < Size[s]
  <2>1. IsFiniteSet(s) /\ Cardinality(s) \in Nat
    BY <1>1, Finite
  <2>2. Cardinality(s \ {OneOf(s)}) = Cardinality(s) - 1
    <3>1. Cardinality(s \ {OneOf(s)}) = IF OneOf(s) \in s THEN Cardinality(s) - 1 ELSE Cardinality(s)
      BY <2>1, FS_RemoveElement, Zenon
    <3> QED
      BY <1>1, <3>1, Zenon
  <2>3. Size[s] = Cardinality(s) /\ Size[Rest[s]] = Cardinality(s \ {OneOf(s)})
    <3>1. s \in SUBSET Thread /\ s \ {OneOf(s)} \in SUBSET Thread
      BY <1>1, Zenon
    <3> QED
      BY <1>1, <3>1, Zenon DEF Size
  <2> QED
    BY <2>1, <2>2, <2>3
<1> QED
  BY <1>1, <1>2, <1>3, <1>4 DEF Sets!IsRank

(* The checks that the threads of s still have to account for.             *)
Held(H, s) == {c \in Check : \E t \in s : c \in H[t]}

(* A thread's share of nTodo.                                              *)
Share(t) == IF pc[t] \in {"work", "enter"} THEN nNow[t] ELSE 0

(* The shares add up to the number of checks in the threads' sets.         *)
LEMMA SharesAddUp ==
  ASSUME NEW H \in [Thread -> SUBSET Check],
         \A t, u \in Thread : t # u => \A c \in H[t] : c \notin H[u],
         \A t \in Thread : Share(t) = Cardinality(H[t])
  PROVE  MapThenSumSet(LAMBDA t : IF pc[t] \in {"work", "enter"} THEN nNow[t] ELSE 0, Thread)
           = Cardinality(Held(H, Thread))
<1> DEFINE step == [p \in (SUBSET Thread) \X Nat |->
                      IF p[1] = {} THEN 0 ELSE Share(OneOf(p[1])) + p[2]]
           Def(f) == [s \in SUBSET Thread |->
                        IF s = {} THEN 0 ELSE Share(OneOf(s)) + f[s \ {OneOf(s)}]]
           sum == CHOOSE f : f = Def(f)
<1>1. \A t \in Thread : Share(t) \in Nat
  BY Finite
<1>2. step \in [(SUBSET Thread) \X Nat -> Nat]
  BY <1>1, SetTree
<1>3. PICK f \in [SUBSET Thread -> Nat] : Sets!IsTreeFunction(f, 0, step)
  <2> HIDE DEF step
  <2>1. 0 \in Nat
    OBVIOUS
  <2> QED
    BY <1>2, <2>1, SetTree, Sets!TreeRecursion, Zenon
<1>4. f = Def(f)
  <2>1. f = [s \in SUBSET Thread |-> IF s = {} THEN 0 ELSE step[<<s, f[Rest[s]]>>]]
    BY <1>3, Zenon DEF Sets!IsTreeFunction
  <2>2. ASSUME NEW s \in SUBSET Thread, s # {}
        PROVE  step[<<s, f[Rest[s]]>>] = Share(OneOf(s)) + f[s \ {OneOf(s)}]
    <3>1. Rest[s] = s \ {OneOf(s)} /\ Rest[s] \in SUBSET Thread
      BY <2>2, SetTree
    <3> DEFINE v == f[Rest[s]]
    <3>2. v \in Nat
      BY <3>1, Zenon
    <3> HIDE DEF v
    <3>3. <<s, v>> \in (SUBSET Thread) \X Nat
      BY <3>2, Zenon
    <3>4. step[<<s, v>>] = IF <<s, v>>[1] = {} THEN 0 ELSE Share(OneOf(<<s, v>>[1])) + <<s, v>>[2]
      BY <3>3, Zenon
    <3>5. step[<<s, v>>] = Share(OneOf(s)) + v
      BY <2>2, <3>4, Zenon
    <3> QED
      BY <3>1, <3>5, Zenon DEF v
  <2> HIDE DEF step
  <2>3. \A s \in SUBSET Thread :
          (IF s = {} THEN 0 ELSE step[<<s, f[Rest[s]]>>])
            = IF s = {} THEN 0 ELSE Share(OneOf(s)) + f[s \ {OneOf(s)}]
    BY <2>2, Zenon
  <2> QED
    BY <2>1, <2>3, Zenon
<1>5. sum = Def(sum)
  <2>1. \E g : g = Def(g)
    BY <1>4, Zenon
  <2> HIDE DEF Def
  <2> QED
    BY <2>1, Zenon
<1> HIDE DEF sum
<1> DEFINE S == {s \in SUBSET Thread : sum[s] = Cardinality(Held(H, s))}
<1>6. {} \in S
  <2>1. Held(H, {}) = {}
    BY DEF Held
  <2>2. sum[{}] = 0
    BY <1>5
  <2>3. Cardinality(Held(H, {})) = 0
    BY <2>1, FS_EmptySet, Zenon
  <2> QED
    BY <2>2, <2>3, Zenon
<1>7. ASSUME NEW s \in (SUBSET Thread) \ {{}}, Rest[s] \in S PROVE s \in S
  <2> DEFINE t == OneOf(s)
  <2>1. t \in s /\ t \in Thread /\ Rest[s] = s \ {t} /\ s \ {t} \in SUBSET Thread
    BY SetTree
  <2>2. sum[s] = Share(t) + sum[s \ {t}]
    <3>1. s \in SUBSET Thread /\ s # {}
      OBVIOUS
    <3> HIDE DEF S
    <3>2. sum[s] = IF s = {} THEN 0 ELSE Share(OneOf(s)) + sum[s \ {OneOf(s)}]
      BY <1>5, <3>1, Zenon
    <3> QED
      BY <3>1, <3>2, Zenon
  <2> HIDE DEF t
  <2>3. sum[s \ {t}] = Cardinality(Held(H, s \ {t}))
    BY <1>7, <2>1
  <2>4. Held(H, s) = H[t] \cup Held(H, s \ {t}) /\ H[t] \cap Held(H, s \ {t}) = {}
    BY <2>1 DEF Held
  <2>5. /\ IsFiniteSet(H[t]) /\ Cardinality(H[t]) \in Nat
        /\ IsFiniteSet(Held(H, s \ {t})) /\ Cardinality(Held(H, s \ {t})) \in Nat
    <3>1. H[t] \in SUBSET Check /\ Held(H, s \ {t}) \in SUBSET Check
      BY <2>1 DEF Held
    <3> QED
      BY <3>1, Finite, Zenon
  <2>6. Cardinality(Held(H, s)) = Cardinality(H[t]) + Cardinality(Held(H, s \ {t}))
    <3>1. Cardinality(Held(H, s)) = Cardinality(H[t]) + Cardinality(Held(H, s \ {t})) - Cardinality({})
      BY <2>4, <2>5, FS_Union, Zenon
    <3> QED
      BY <2>5, <3>1, FS_EmptySet
  <2>7. Share(t) = Cardinality(H[t])
    BY <2>1
  <2> QED
    BY <2>2, <2>3, <2>6, <2>7
<1>8. \A s \in SUBSET Thread : s \in S
  <2> HIDE DEF S
  <2> QED
    BY <1>6, <1>7, SetTree, Sets!TreeInduction, Zenon
<1>9. sum[Thread] = Cardinality(Held(H, Thread))
  BY <1>8
<1>10. MapThenSumSet(LAMBDA t : IF pc[t] \in {"work", "enter"} THEN nNow[t] ELSE 0, Thread) = sum[Thread]
  BY Zenon DEF MapThenSumSet, MapThenFoldSet, sum, Def, Share, OneOf
<1> QED
  BY <1>9, <1>10, Zenon

(* The counters are exact: nTodo is the number of checks queued or in a    *)
(* batch that a thread has not yet accounted for, nIdle the number of      *)
(* threads in cond.wait and nTotal that of the threads inside Loop, as     *)
(* their comments in checkqueue.h say.                                     *)
THEOREM CountersCorrect == Spec => []CountersExact
<1>1. IInv => CountersExact
  <2> SUFFICES ASSUME IInv PROVE CountersExact
    OBVIOUS
  <2>1. PICK H \in [Thread -> SUBSET Check] : IInvOf(H)
    BY DEF IInv
  <2>2. ASSUME NEW t \in Thread PROVE Share(t) = Cardinality(H[t])
    <3>1. Batch(t, H[t], pc[t])
      BY <2>1 DEF IInvOf
    <3> QED
      BY <3>1, FS_EmptySet, Zenon DEF Batch, Share
  <2>3. \A t, u \in Thread : t # u => \A c \in H[t] : c \notin H[u]
    BY <2>1 DEF IInvOf, Batches
  <2>4. MapThenSumSet(LAMBDA t : IF pc[t] \in {"work", "enter"} THEN nNow[t] ELSE 0, Thread)
           = Cardinality(Held(H, Thread))
    BY <2>2, <2>3, SharesAddUp, Zenon
  <2>5. Out(H) = Range(queue) \cup Held(H, Thread) /\ Range(queue) \cap Held(H, Thread) = {}
    <3>1. Range(queue) \subseteq Check
      BY RangeFacts DEF IInv, Typed
    <3>2. \A t \in Thread : \A c \in H[t] : c \notin Range(queue)
      BY <2>1 DEF IInvOf, Batches
    <3> QED
      BY <3>1, <3>2 DEF Out, Held
  <2>6. IsFiniteSet(Range(queue)) /\ Cardinality(Range(queue)) = Len(queue)
    BY <2>1, InjectiveCount DEF IInv, Typed, IInvOf, Batches
  <2>7. Held(H, Thread) \in SUBSET Check
    BY DEF Held
  <2>8. Cardinality(Out(H)) = Len(queue) + Cardinality(Held(H, Thread))
    <3>1. IsFiniteSet(Held(H, Thread))
      BY <2>7, Finite
    <3>2. Cardinality(Out(H)) = Cardinality(Range(queue)) + Cardinality(Held(H, Thread)) - Cardinality({})
      BY <2>5, <2>6, <3>1, FS_Union, Zenon
    <3>3. Cardinality(Held(H, Thread)) \in Nat /\ Len(queue) \in Nat
      BY <2>7, Finite DEF IInv, Typed
    <3> QED
      BY <2>6, <3>2, <3>3, FS_EmptySet
  <2>9. nTodo = Cardinality(Out(H))
    BY <2>1 DEF IInvOf, Batches
  <2>10. /\ nIdle = Cardinality({t \in Thread : pc[t] \in {"sleep", "woken"}})
         /\ nTotal = Cardinality({t \in Thread : pc[t] \in {"sleep", "woken", "work"}
                                                 \/ (pc[t] = "enter" /\ nNow[t] > 0)})
    BY <2>1, Zenon DEF IInvOf, Counted, IdleOf, InLoopOf
  <2>11. nTodo = Len(queue) + MapThenSumSet(LAMBDA t : IF pc[t] \in {"work", "enter"} THEN nNow[t] ELSE 0, Thread)
    BY <2>4, <2>8, <2>9, Zenon
  <2> QED
    BY <2>10, <2>11, Zenon DEF CountersExact
<1> QED
  BY <1>1, Invariance, PTL
=============================================================================
