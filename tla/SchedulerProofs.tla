-------------------------- MODULE SchedulerProofs --------------------------
(***************************************************************************)
(* For any number of threads, functions and callbacks: the serial client   *)
(* of Scheduler.tla implements SerialQueue.tla, no schedule of its         *)
(* ProcessQueue is lost, and the shutdown leaves nothing behind.           *)
(***************************************************************************)
EXTENDS Scheduler, FiniteSetTheorems, TLAPS

Entry == [time : Nat, f : Function \cup {ProcessQueue}]
Sorted(s) == \A i, j \in DOMAIN s : i < j => s[i].time <= s[j].time

-----------------------------------------------------------------------------
(* The task queue *)

(* The number of entries that multimap::insert leaves before the new one.  *)
LEMMA PlaceFacts ==
  ASSUME NEW s \in Seq(Entry), NEW x \in Nat
  PROVE  LET A == {i \in DOMAIN s : s[i].time <= x}
         IN /\ Cardinality(A) \in 0..Len(s)
            /\ Sorted(s) => A = 1..Cardinality(A)
<1> DEFINE A == {i \in DOMAIN s : s[i].time <= x}
<1>1. DOMAIN s = 1..Len(s) /\ Len(s) \in Nat
  OBVIOUS
<1>2. IsFiniteSet(1..Len(s)) /\ Cardinality(1..Len(s)) = Len(s)
  BY <1>1, FS_Interval
<1>3. A \in SUBSET (1..Len(s))
  BY <1>1
<1>4. IsFiniteSet(A) /\ Cardinality(A) <= Len(s)
  BY <1>2, <1>3, FS_Subset
<1>5. Cardinality(A) \in 0..Len(s)
  BY <1>1, <1>4, FS_CardinalityType
<1>6. ASSUME Sorted(s) PROVE A = 1..Cardinality(A)
  <2>1. ASSUME NEW i \in A PROVE i <= Cardinality(A)
    <3>1. 1..i \in SUBSET A
      <4> SUFFICES ASSUME NEW j \in 1..i PROVE j \in A
        OBVIOUS
      <4>1. j \in DOMAIN s /\ i \in DOMAIN s /\ i \in Nat /\ j \in Nat
        BY <1>1, <1>3, <2>1
      <4>2. s[j] \in Entry /\ s[i] \in Entry
        BY <4>1
      <4>3. CASE j = i
        BY <4>3
      <4>4. CASE j < i
        BY <4>1, <4>2, <4>4, <1>6 DEF Sorted, Entry
      <4> QED
        BY <4>1, <4>3, <4>4
    <3>2. i \in Nat /\ Cardinality(1..i) = i
      <4>1. i \in Nat /\ i >= 1
        BY <1>1, <1>3, <2>1
      <4> QED
        BY <4>1, FS_Interval
    <3> HIDE DEF A
    <3> QED
      BY <1>4, <3>1, <3>2, FS_Subset
  <2>2. A \in SUBSET (1..Cardinality(A))
    BY <1>1, <1>3, <1>5, <2>1
  <2>3. IsFiniteSet(1..Cardinality(A)) /\ Cardinality(1..Cardinality(A)) = Cardinality(A)
    <3> HIDE DEF A
    <3> QED
      BY <1>5, FS_Interval
  <2> HIDE DEF A
  <2> QED
    BY <2>2, <2>3, FS_Subset, Zenon
<1> QED
  BY <1>5, <1>6

(* The two halves of a sequence cut behind its first n entries.           *)
LEMMA Split ==
  ASSUME NEW R, NEW s \in Seq(R), NEW n \in Nat, n <= Len(s)
  PROVE  /\ SubSeq(s, 1, n) \in Seq(R) /\ Len(SubSeq(s, 1, n)) = n
         /\ \A i \in 1..n : SubSeq(s, 1, n)[i] = s[i]
         /\ SubSeq(s, n + 1, Len(s)) \in Seq(R) /\ Len(SubSeq(s, n + 1, Len(s))) = Len(s) - n
         /\ \A i \in 1..(Len(s) - n) : SubSeq(s, n + 1, Len(s))[i] = s[n + i]
<1>1. Len(s) \in Nat /\ \A i \in 1..Len(s) : s[i] \in R
  OBVIOUS
<1>2. \A i \in 1..n : s[i] \in R
  BY <1>1
<1>3. \A i \in (n + 1)..Len(s) : s[i] \in R
  BY <1>1
<1>4. /\ SubSeq(s, 1, n) \in Seq(R) /\ Len(SubSeq(s, 1, n)) = n
      /\ \A i \in 1..n : SubSeq(s, 1, n)[i] = s[i]
  BY <1>2
<1>5. SubSeq(s, n + 1, Len(s)) \in Seq(R) /\ Len(SubSeq(s, n + 1, Len(s))) = Len(s) - n
  BY <1>1, <1>3
<1>6. \A i \in 1..(Len(s) - n) : SubSeq(s, n + 1, Len(s))[i] = s[n + i]
  BY <1>1, <1>3
<1> QED
  BY <1>4, <1>5, <1>6

(* What putting e behind the first n entries gives, entry by entry.         *)
LEMMA SpliceFacts ==
  ASSUME NEW s \in Seq(Entry), NEW e \in Entry, NEW n \in Nat, n <= Len(s)
  PROVE  \A r : r = SubSeq(s, 1, n) \o <<e>> \o SubSeq(s, n + 1, Len(s)) =>
            /\ r \in Seq(Entry) /\ Len(r) = Len(s) + 1
            /\ \A i \in 1..(Len(s) + 1) : r[i] = IF i <= n THEN s[i] ELSE IF i = n + 1 THEN e ELSE s[i - 1]
<1>1. Len(s) \in Nat
  OBVIOUS
<1>2. PICK l : l = SubSeq(s, 1, n)
  BY Zenon
<1>3. PICK q : q = SubSeq(s, n + 1, Len(s))
  BY Zenon
<1>4. PICK r : r = l \o <<e>> \o q
  BY Zenon
<1>5. /\ l \in Seq(Entry) /\ Len(l) = n /\ \A i \in 1..n : l[i] = s[i]
      /\ q \in Seq(Entry) /\ Len(q) = Len(s) - n /\ \A i \in 1..(Len(s) - n) : q[i] = s[n + i]
  BY <1>2, <1>3, Split, Zenon
<1>6. /\ r \in Seq(Entry) /\ Len(r) = Len(l) + 1 + Len(q)
      /\ \A i \in 1..(Len(l) + 1 + Len(q)) :
           r[i] = IF i <= Len(l) THEN l[i] ELSE IF i = Len(l) + 1 THEN e ELSE q[i - Len(l) - 1]
  <2>0. l \in Seq(Entry) /\ q \in Seq(Entry)
    BY <1>5
  <2>1. l \o <<e>> \o q \in Seq(Entry) /\ Len(l \o <<e>> \o q) = Len(l) + 1 + Len(q)
    BY <2>0
  <2>2. \A i \in 1..(Len(l) + 1 + Len(q)) : (l \o <<e>> \o q)[i] =
           IF i <= Len(l) THEN l[i] ELSE IF i = Len(l) + 1 THEN e ELSE q[i - Len(l) - 1]
    BY <2>0
  <2> QED
    BY <1>4, <2>1, <2>2, Zenon
<1>7. Len(r) = Len(s) + 1 /\ Len(l) + 1 + Len(q) = Len(s) + 1
  BY <1>1, <1>5, <1>6
<1>8. ASSUME NEW i \in 1..(Len(s) + 1)
      PROVE  r[i] = IF i <= n THEN s[i] ELSE IF i = n + 1 THEN e ELSE s[i - 1]
  <2>1. r[i] = IF i <= n THEN l[i] ELSE IF i = n + 1 THEN e ELSE q[i - n - 1]
    BY <1>5, <1>6, <1>7, Zenon
  <2>2. CASE i <= n
    BY <1>1, <1>5, <2>1, <2>2
  <2>3. CASE i > n + 1
    <3>1. i - n - 1 \in 1..(Len(s) - n) /\ n + (i - n - 1) = i - 1
      BY <1>1, <2>3
    <3>2. q[i - n - 1] = s[i - 1]
      BY <1>5, <3>1
    <3> QED
      BY <1>1, <2>1, <2>3, <3>2
  <2> QED
    BY <1>1, <2>1, <2>2, <2>3
<1> QED
  BY <1>2, <1>3, <1>4, <1>6, <1>7, <1>8, Zenon

(* schedule adds the entry, keeps the others, and keeps the queue in order. *)
LEMMA InsertedFacts ==
  ASSUME NEW s \in Seq(Entry), NEW e \in Entry
  PROVE  /\ Inserted(s, e) \in Seq(Entry)
         /\ \E j \in DOMAIN Inserted(s, e) : Inserted(s, e)[j] = e
         /\ \A i \in DOMAIN s : \E j \in DOMAIN Inserted(s, e) : Inserted(s, e)[j] = s[i]
         /\ Sorted(s) => Sorted(Inserted(s, e))
<1>1. PICK n : /\ n = Cardinality({i \in DOMAIN s : s[i].time <= e.time})
               /\ n \in 0..Len(s)
               /\ Sorted(s) => {i \in DOMAIN s : s[i].time <= e.time} = 1..n
  BY PlaceFacts, Zenon DEF Entry
<1>2. PICK r : r = Inserted(s, e)
  OBVIOUS
<1>3. /\ Len(s) \in Nat /\ DOMAIN s = 1..Len(s) /\ \A i \in 1..Len(s) : s[i] \in Entry
      /\ n \in Nat /\ n <= Len(s)
  BY <1>1
<1>4. /\ r \in Seq(Entry) /\ Len(r) = Len(s) + 1
      /\ \A i \in 1..(Len(s) + 1) : r[i] = IF i <= n THEN s[i] ELSE IF i = n + 1 THEN e ELSE s[i - 1]
  <2>1. r = SubSeq(s, 1, n) \o <<e>> \o SubSeq(s, n + 1, Len(s))
    BY <1>1, <1>2 DEF Inserted
  <2> QED
    <3>1. s \in Seq(Entry) /\ e \in Entry /\ n \in Nat /\ n <= Len(s)
      BY <1>3
    <3> HIDE DEF Entry
    <3>2. \A x : x = SubSeq(s, 1, n) \o <<e>> \o SubSeq(s, n + 1, Len(s)) =>
            /\ x \in Seq(Entry) /\ Len(x) = Len(s) + 1
            /\ \A i \in 1..(Len(s) + 1) : x[i] = IF i <= n THEN s[i] ELSE IF i = n + 1 THEN e ELSE s[i - 1]
      BY <3>1, SpliceFacts, ZenonT(30)
    <3> QED
      BY <2>1, <3>2, Zenon
<1>5. DOMAIN r = 1..(Len(s) + 1)
  BY <1>4
<1>6. \E j \in DOMAIN r : r[j] = e
  <2>1. n + 1 \in 1..(Len(s) + 1)
    BY <1>3
  <2> QED
    <3>1. r[n + 1] = e
      BY <1>3, <1>4, <2>1
    <3> QED
      BY <1>5, <2>1, <3>1
<1>7. ASSUME NEW i \in DOMAIN s PROVE \E j \in DOMAIN r : r[j] = s[i]
  <2>1. CASE i <= n
    BY <1>3, <1>4, <1>5, <2>1
  <2>2. CASE i > n
    <3>1. i + 1 \in 1..(Len(s) + 1)
      BY <1>3
    <3>2. r[i + 1] = s[i]
      BY <1>3, <1>4, <2>2, <3>1
    <3> QED
      BY <1>5, <3>1, <3>2
  <2> QED
    BY <1>3, <2>1, <2>2
<1>8. ASSUME Sorted(s) PROVE Sorted(r)
  <2> SUFFICES ASSUME NEW i \in 1..(Len(s) + 1), NEW j \in 1..(Len(s) + 1), i < j
               PROVE  r[i].time <= r[j].time
    BY <1>5 DEF Sorted
  <2>0. e.time \in Nat /\ \A a \in 1..Len(s) : s[a].time \in Nat
    BY <1>3 DEF Entry
  <2>1. \A a, b \in 1..Len(s) : a <= b => s[a].time <= s[b].time
    BY <1>3, <1>8, <2>0 DEF Sorted
  <2>2. \A a \in 1..Len(s) : a <= n => s[a].time <= e.time
    BY <1>1, <1>3, <1>8
  <2>3. ASSUME NEW a \in 1..Len(s), a > n PROVE e.time <= s[a].time
    <3>0. a \notin 1..n
      BY <1>3, <2>3
    <3>1. a \notin {k \in DOMAIN s : s[k].time <= e.time}
      BY <1>1, <1>8, <3>0, Zenon
    <3> QED
      BY <1>3, <2>0, <3>1
  <2>4. CASE j <= n
    BY <1>3, <1>4, <2>1, <2>4
  <2>5. CASE j = n + 1
    BY <1>3, <1>4, <2>2, <2>5
  <2>6. CASE j > n + 1
    <3>1. j - 1 \in 1..Len(s) /\ r[j] = s[j - 1] /\ j - 1 > n
      BY <1>3, <1>4, <2>6
    <3>2. CASE i <= n
      BY <1>3, <1>4, <2>1, <3>1, <3>2
    <3>3. CASE i = n + 1
      BY <1>3, <1>4, <2>3, <3>1, <3>3
    <3>4. CASE i > n + 1
      <4>1. i - 1 \in 1..Len(s) /\ r[i] = s[i - 1] /\ i - 1 <= j - 1
        BY <1>3, <1>4, <3>4
      <4> QED
        BY <2>1, <3>1, <4>1
    <3> QED
      BY <1>3, <3>2, <3>3, <3>4
  <2> QED
    BY <1>3, <2>4, <2>5, <2>6
<1> QED
  BY <1>2, <1>4, <1>6, <1>7, <1>8

(* Taking the first entry keeps the others and their order.                 *)
LEMMA TailFacts ==
  ASSUME NEW s \in Seq(Entry), s # <<>>
  PROVE  /\ Head(s) \in Entry /\ Tail(s) \in Seq(Entry)
         /\ \A i \in DOMAIN s : s[i] = Head(s) \/ \E j \in DOMAIN Tail(s) : Tail(s)[j] = s[i]
         /\ Sorted(s) => Sorted(Tail(s))
<1>1. /\ Head(s) \in Entry /\ Tail(s) \in Seq(Entry) /\ Len(Tail(s)) = Len(s) - 1
      /\ \A i \in 1..Len(Tail(s)) : Tail(s)[i] = s[i + 1]
  OBVIOUS
<1>2. Len(s) \in Nat /\ DOMAIN s = 1..Len(s) /\ DOMAIN Tail(s) = 1..(Len(s) - 1) /\ Head(s) = s[1]
  BY <1>1
<1>3. ASSUME NEW i \in DOMAIN s, i # 1 PROVE \E j \in DOMAIN Tail(s) : Tail(s)[j] = s[i]
  <2>1. i - 1 \in 1..(Len(s) - 1) /\ i - 1 + 1 = i
    BY <1>2, <1>3
  <2>2. Tail(s)[i - 1] = s[i - 1 + 1]
    BY <1>1, <2>1
  <2> QED
    BY <1>2, <2>1, <2>2
<1>4. ASSUME Sorted(s) PROVE Sorted(Tail(s))
  BY <1>1, <1>2, <1>4 DEF Sorted
<1> QED
  BY <1>1, <1>2, <1>3, <1>4

-----------------------------------------------------------------------------
(* The inductive invariant *)

\* Where schedule and MaybeScheduleProcessQueue return to.
Backs == {"out", "relock", "callback", "unwind", "check"}

Typed ==
  /\ taskQueue \in Seq(Entry) /\ Sorted(taskQueue)
  /\ stopRequested \in BOOLEAN /\ stopWhenEmpty \in BOOLEAN
  /\ callbacksPending \in Seq(1..MaxCallbacks) /\ callbacksRunning \in BOOLEAN
  /\ pc \in [Thread -> Places] /\ back \in [Thread -> Backs]
  /\ task \in [Thread -> Function \cup {ProcessQueue, None}]
  /\ callback \in [Thread -> 1..MaxCallbacks \cup {None}]
  /\ until \in [Thread -> Nat] /\ now \in 0..MaxTime
  /\ added \in 0..MaxCallbacks /\ submitted \subseteq Function
  /\ \A t \in Thread : pc[t] = "insert" => task[t] # None

\* A callback is run by one thread, with the flag set, until it has returned.
CallbackInv ==
  \A t \in Thread :
    /\ callback[t] # None =>
         /\ callbacksRunning = TRUE
         /\ pc[t] = "callback" \/ (pc[t] \in {"maybe", "insert", "notify"} /\ back[t] = "callback")
         /\ \A u \in Thread : callback[u] # None => u = t
    /\ (pc[t] = "callback" \/ back[t] = "callback") => callback[t] # None

\* The threads that nThreadsServicingQueue counts.
Serving == {t \in Service : pc[t] \notin {"start", "left"}}

\* The counter, and what the join and the end of EmptyQueue leave.
ShutdownInv ==
  /\ nThreadsServicingQueue = Cardinality(Serving)
  /\ \A c \in Caller : pc[c] \in {"out", "maybe", "insert", "notify"} /\ back[c] = "out"
  /\ pc[Main] \notin {"up", "join"} => \A t \in Service : pc[t] = "left"
  /\ pc[Main] = "done" => callbacksPending = <<>>

ScheduleInv ==
  /\ NoLostSchedule
  /\ \A t \in Thread : task[t] = ProcessQueue => pc[t] \in {"process", "insert"}

IInv == Typed /\ CallbackInv /\ ShutdownInv /\ ScheduleInv

-----------------------------------------------------------------------------
(* What the steps do to the places of the threads *)

\* The threads of S stay where they are, or are notified.
Kept(S) ==
  \A u \in S :
    \/ pc'[u] = pc[u]
    \/ u \in Service /\ pc[u] \in {"wait", "timed"} /\ pc'[u] \in {"woken", "rewait"}

(* A notification moves only service threads that wait.                     *)
LEMMA NotifiedFacts ==
  ASSUME pc \in [Thread -> Places], NEW W \in SUBSET Notifiable
  PROVE  /\ Notified(W) \in [Thread -> Places]
         /\ \A u \in Thread :
              \/ Notified(W)[u] = pc[u]
              \/ u \in Service /\ pc[u] \in {"wait", "timed"} /\ Notified(W)[u] \in {"woken", "rewait"}
  BY DEF Notified, Notifiable, Places

(* The same when the notifying thread t goes on to a place of its own.      *)
LEMMA NotifyingFacts ==
  ASSUME pc \in [Thread -> Places], NEW t \in Thread, NEW place \in Places,
         \E W \in OneOf(Notifiable) : pc' = [Notified(W) EXCEPT ![t] = place]
  PROVE  pc' \in [Thread -> Places] /\ pc'[t] = place /\ Kept(Thread \ {t})
<1>1. PICK W \in OneOf(Notifiable) : pc' = [Notified(W) EXCEPT ![t] = place]
  BY Zenon
<1>2. W \in SUBSET Notifiable
  BY DEF OneOf
<1> HIDE DEF Notified, Notifiable
<1>3. /\ Notified(W) \in [Thread -> Places]
      /\ \A u \in Thread :
           \/ Notified(W)[u] = pc[u]
           \/ u \in Service /\ pc[u] \in {"wait", "timed"} /\ Notified(W)[u] \in {"woken", "rewait"}
  BY <1>2, NotifiedFacts
<1>4. pc' \in [Thread -> Places] /\ pc'[t] = place
  BY <1>1, <1>3, Zenon
<1>5. \A u \in Thread \ {t} : pc'[u] = Notified(W)[u]
  BY <1>1, <1>3
<1> QED
  <2>1. ASSUME NEW u \in Thread \ {t}
        PROVE  \/ pc'[u] = pc[u]
               \/ u \in Service /\ pc[u] \in {"wait", "timed"} /\ pc'[u] \in {"woken", "rewait"}
    BY <1>3, <1>5, Zenon
  <2> QED
    BY <1>4, <2>1, Zenon DEF Kept

(* Going to a place moves nobody else.                                      *)
LEMMA GotoFacts ==
  ASSUME pc \in [Thread -> Places], NEW t \in Thread, NEW place \in Places, Goto(t, place)
  PROVE  pc' \in [Thread -> Places] /\ pc'[t] = place /\ \A u \in Thread \ {t} : pc'[u] = pc[u]
  BY DEF Goto

(* Settle leaves the loop, counted out, or waits somewhere in it.           *)
LEMMA SettleFacts ==
  ASSUME Typed, NEW t \in Service, NEW n, NEW idle \in {"seed", "wait"}, Settle(t, n, idle)
  PROVE  /\ pc' \in [Thread -> Places] /\ until' \in [Thread -> Nat] /\ Kept(Thread \ {t})
         /\ \/ pc'[t] = "left" /\ nThreadsServicingQueue' = n - 1
            \/ pc'[t] \in {"seed", "wait", "timed"} /\ nThreadsServicingQueue' = n
<1>1. t \in Thread /\ pc \in [Thread -> Places] /\ until \in [Thread -> Nat] /\ taskQueue \in Seq(Entry)
  BY DEF Typed, Thread
<1>2. {"left", "timed", idle} \subseteq Places
  BY DEF Places
<1>3. CASE shouldStop
  <2>1. /\ nThreadsServicingQueue' = n - 1 /\ until' = until
        /\ \E W \in OneOf(Notifiable) : pc' = [Notified(W) EXCEPT ![t] = "left"]
    BY <1>3, Zenon DEF Settle
  <2> QED
    BY <1>1, <1>2, <2>1, NotifyingFacts, Zenon
<1>4. CASE ~shouldStop /\ taskQueue = <<>>
  <2>1. nThreadsServicingQueue' = n /\ until' = until /\ Goto(t, idle)
    BY <1>4, Zenon DEF Settle
  <2> QED
    <3>1. pc' \in [Thread -> Places] /\ pc'[t] = idle /\ \A u \in Thread \ {t} : pc'[u] = pc[u]
      BY <1>1, <1>2, <2>1, GotoFacts
    <3> QED
      BY <1>1, <2>1, <3>1, Zenon DEF Kept
<1>5. CASE ~shouldStop /\ taskQueue # <<>>
  <2>1. /\ nThreadsServicingQueue' = n /\ Goto(t, "timed")
        /\ until' = [until EXCEPT ![t] = Head(taskQueue).time]
    BY <1>5, Zenon DEF Settle
  <2>2. Head(taskQueue).time \in Nat
    BY <1>1, <1>5, TailFacts, Zenon DEF Entry
  <2>3. until' \in [Thread -> Nat]
    BY <1>1, <2>1, <2>2
  <2> QED
    <3>1. pc' \in [Thread -> Places] /\ pc'[t] = "timed" /\ \A u \in Thread \ {t} : pc'[u] = pc[u]
      BY <1>1, <1>2, <2>1, GotoFacts
    <3> QED
      BY <2>1, <2>3, <3>1, Zenon DEF Kept
<1> QED
  BY <1>3, <1>4, <1>5, Zenon

(* A look of serviceQueue, and what it counts.                              *)
LEMMA LookFacts ==
  ASSUME Typed, NEW t \in Service, Look(t)
  PROVE  /\ pc' \in [Thread -> Places] /\ until' \in [Thread -> Nat] /\ Kept(Thread \ {t})
         /\ pc[t] \in {"start", "relock", "seed", "woken", "rewait"}
         /\ LET n == IF pc[t] = "start" THEN nThreadsServicingQueue + 1 ELSE nThreadsServicingQueue
            IN \/ pc'[t] = "left" /\ nThreadsServicingQueue' = n - 1
               \/ pc'[t] \in {"seed", "wait", "timed"} /\ nThreadsServicingQueue' = n
<1>1. \/ pc[t] = "start" /\ Settle(t, nThreadsServicingQueue + 1, "seed")
      \/ pc[t] = "relock" /\ Settle(t, nThreadsServicingQueue, "seed")
      \/ pc[t] = "seed" /\ Settle(t, nThreadsServicingQueue, "wait")
      \/ pc[t] = "woken" /\ Settle(t, nThreadsServicingQueue, "wait")
      \/ pc[t] = "rewait" /\ Settle(t, nThreadsServicingQueue, "seed")
  BY Zenon DEF Look
<1> HIDE DEF Settle
<1>2. CASE pc[t] = "start"
  BY <1>1, <1>2, SettleFacts, Zenon
<1>3. CASE pc[t] # "start"
  BY <1>1, <1>3, SettleFacts, Zenon
<1> QED
  BY <1>2, <1>3

(* A timed-out thread goes round the loop again, or takes the first function. *)
LEMMA TakeFacts ==
  ASSUME Typed, NEW t \in Service, Take(t)
  PROVE  /\ pc[t] = "due" /\ pc' \in [Thread -> Places] /\ until' \in [Thread -> Nat] /\ Kept(Thread \ {t})
         /\ \/ /\ taskQueue' = taskQueue /\ task' = task
               /\ \/ pc'[t] = "left" /\ nThreadsServicingQueue' = nThreadsServicingQueue - 1
                  \/ pc'[t] \in {"seed", "wait", "timed"} /\ nThreadsServicingQueue' = nThreadsServicingQueue
            \/ /\ taskQueue # <<>> /\ taskQueue' = Tail(taskQueue)
               /\ task' = [task EXCEPT ![t] = Head(taskQueue).f]
               /\ pc'[t] = IF Head(taskQueue).f = ProcessQueue THEN "process" ELSE "run"
               /\ nThreadsServicingQueue' = nThreadsServicingQueue
<1>1. pc[t] = "due"
  BY Zenon DEF Take
<1>2. CASE shouldStop \/ taskQueue = <<>>
  <2>1. Settle(t, nThreadsServicingQueue, "seed") /\ taskQueue' = taskQueue /\ task' = task
    BY <1>2, Zenon DEF Take
  <2> HIDE DEF Settle
  <2> QED
    BY <1>1, <2>1, SettleFacts, Zenon
<1>3. CASE ~(shouldStop \/ taskQueue = <<>>)
  <2>1. /\ task' = [task EXCEPT ![t] = Head(taskQueue).f] /\ taskQueue' = Tail(taskQueue)
        /\ Goto(t, IF task'[t] = ProcessQueue THEN "process" ELSE "run")
        /\ nThreadsServicingQueue' = nThreadsServicingQueue /\ until' = until
    BY <1>3, Zenon DEF Take
  <2>2. /\ t \in Thread /\ pc \in [Thread -> Places] /\ until \in [Thread -> Nat]
        /\ task \in [Thread -> Function \cup {ProcessQueue, None}]
    BY DEF Typed, Thread
  <2>3. task'[t] = Head(taskQueue).f
    BY <2>1, <2>2
  <2>4. PICK place \in {"process", "run"} :
          Goto(t, place) /\ place = IF Head(taskQueue).f = ProcessQueue THEN "process" ELSE "run"
    BY <2>1, <2>3
  <2>5. place \in Places
    BY DEF Places
  <2>6. pc' \in [Thread -> Places] /\ pc'[t] = place /\ \A u \in Thread \ {t} : pc'[u] = pc[u]
    BY <2>2, <2>4, <2>5, GotoFacts
  <2>7. Kept(Thread \ {t})
    BY <2>6, Zenon DEF Kept
  <2> QED
    BY <1>1, <1>3, <2>1, <2>2, <2>4, <2>6, <2>7, Zenon
<1> QED
  BY <1>2, <1>3, Zenon

(* schedule's notification, after which the call returns.                   *)
LEMMA NotifyFacts ==
  ASSUME Typed, NEW t \in Thread, Notify(t)
  PROVE  pc[t] = "notify" /\ pc' \in [Thread -> Places] /\ pc'[t] = back[t] /\ Kept(Thread \ {t})
<1>1. pc \in [Thread -> Places] /\ back[t] \in Places
  BY DEF Typed, Backs, Places
<1>2. pc[t] = "notify" /\ \E W \in OneOf(Notifiable) : pc' = [Notified(W) EXCEPT ![t] = back[t]]
  BY Zenon DEF Notify
<1> QED
  BY <1>1, <1>2, NotifyingFacts, Zenon

(* stop and a spurious wake-up only notify.                                 *)
LEMMA WakeFacts ==
  ASSUME Typed, (\E drain \in BOOLEAN : stop(drain)) \/ (\E t \in Service : SpuriousWakeup(t))
  PROVE  pc' \in [Thread -> Places] /\ Kept(Thread)
<1>1. pc \in [Thread -> Places]
  BY DEF Typed
<1>2. PICK W \in SUBSET Notifiable : pc' = Notified(W)
  <2>1. CASE \E drain \in BOOLEAN : stop(drain)
    BY <2>1, Zenon DEF stop
  <2>2. CASE \E t \in Service : SpuriousWakeup(t)
    <3>1. PICK t \in Service : SpuriousWakeup(t)
      BY <2>2
    <3>2. {t} \in SUBSET Notifiable /\ pc' = Notified({t})
      BY <3>1 DEF SpuriousWakeup, Notifiable
    <3> QED
      BY <3>2, Zenon
  <2> QED
    BY <2>1, <2>2
<1> HIDE DEF Notified, Notifiable
<1> QED
  BY <1>1, <1>2, NotifiedFacts DEF Kept

-----------------------------------------------------------------------------
(* Types *)

(* The initial state satisfies the invariant.                               *)
LEMMA InitIInv == Init => IInv
<1> SUFFICES ASSUME Init PROVE IInv
  OBVIOUS
<1> USE SchedulerAssumption DEF Init
<1>1. Main \in Thread /\ \A t \in Thread : t \in Service \/ t \in Caller \/ t = Main
  BY DEF Thread
<1>2. Typed
  <2>1. taskQueue \in Seq(Entry) /\ Sorted(taskQueue) /\ callbacksPending \in Seq(1..MaxCallbacks)
    BY DEF Sorted
  <2>2. pc \in [Thread -> Places] /\ back \in [Thread -> Backs] /\ \A t \in Thread : pc[t] # "insert"
    BY DEF Places, Backs
  <2> QED
    <3>1. until \in [Thread -> Nat] /\ task \in [Thread -> Function \cup {ProcessQueue, None}]
      OBVIOUS
    <3>2. callback \in [Thread -> 1..MaxCallbacks \cup {None}]
      OBVIOUS
    <3>3. now \in 0..MaxTime /\ added \in 0..MaxCallbacks /\ submitted \subseteq Function
      OBVIOUS
    <3> QED
      BY <2>1, <2>2, <3>1, <3>2, <3>3, Zenon DEF Typed
<1>3. CallbackInv
  BY DEF CallbackInv
<1>4. ShutdownInv
  <2>1. Serving = {}
    BY DEF Serving, Thread
  <2>2. nThreadsServicingQueue = Cardinality(Serving)
    BY <2>1, FS_EmptySet
  <2> QED
    BY <1>1, <2>2 DEF ShutdownInv, Thread
<1>5. ScheduleInv
  BY DEF ScheduleInv, NoLostSchedule
<1> QED
  BY <1>2, <1>3, <1>4, <1>5 DEF IInv

(* Every step keeps the types and the order of the task queue.              *)
LEMMA TypedStep ==
  ASSUME Typed, Next
  PROVE  Typed'
<1> USE SchedulerAssumption
<1>0. /\ Service \subseteq Thread /\ Caller \subseteq Thread /\ Main \in Thread
      /\ Backs \subseteq Places /\ \A t \in Thread : back[t] # "insert"
      /\ {"start", "seed", "wait", "timed", "due", "relock", "left", "process", "callback",
          "maybe", "insert", "notify", "join", "check", "done"} \subseteq Places
  BY Zenon DEF Thread, Backs, Places, Typed
<1>1. ASSUME NEW t \in Service, Look(t) PROVE Typed'
  <2>1. pc' \in [Thread -> Places] /\ until' \in [Thread -> Nat] /\ Kept(Thread \ {t}) /\ pc'[t] # "insert"
    BY <1>1, LookFacts, Zenon
  <2>2. task' = [task EXCEPT ![t] = None] /\ UNCHANGED <<queueVars, clientVars, back, now, submitted>>
    BY <1>1, Zenon DEF Look
  <2>3. \A u \in Thread : pc'[u] = "insert" => task'[u] # None
    BY <1>0, <2>1, <2>2, Zenon DEF Kept, Typed
  <2> QED
    BY <2>1, <2>2, <2>3, Zenon DEF Typed, queueVars, clientVars
<1>2. ASSUME NEW t \in Service, Timeout(t) PROVE Typed'
  BY <1>0, <1>2 DEF Timeout, Goto, Typed, queueVars, clientVars
<1>3. ASSUME NEW t \in Service, Take(t) PROVE Typed'
  <2>1. /\ pc' \in [Thread -> Places] /\ until' \in [Thread -> Nat] /\ Kept(Thread \ {t}) /\ pc'[t] # "insert"
        /\ \/ taskQueue' = taskQueue /\ task' = task
           \/ /\ taskQueue # <<>> /\ taskQueue' = Tail(taskQueue)
              /\ task' = [task EXCEPT ![t] = Head(taskQueue).f]
    BY <1>3, TakeFacts, Zenon
  <2>2. UNCHANGED <<stopRequested, stopWhenEmpty, clientVars, back, now, submitted>>
    BY <1>3, Zenon DEF Take
  <2>3. taskQueue' \in Seq(Entry) /\ Sorted(taskQueue') /\ task' \in [Thread -> Function \cup {ProcessQueue, None}]
    <3>1. CASE taskQueue' = taskQueue /\ task' = task
      BY <3>1 DEF Typed
    <3>2. CASE /\ taskQueue # <<>> /\ taskQueue' = Tail(taskQueue)
               /\ task' = [task EXCEPT ![t] = Head(taskQueue).f]
      <4>1. Head(taskQueue) \in Entry /\ Tail(taskQueue) \in Seq(Entry) /\ Sorted(Tail(taskQueue))
        BY <3>2, TailFacts DEF Typed
      <4>2. Head(taskQueue).f \in Function \cup {ProcessQueue, None}
        BY <4>1 DEF Entry
      <4> QED
        BY <3>2, <4>1, <4>2, Zenon DEF Typed
    <3> QED
      BY <2>1, <3>1, <3>2, Zenon
  <2>4. \A u \in Thread : pc'[u] = "insert" => task'[u] # None
    BY <1>0, <2>1, Zenon DEF Kept, Typed
  <2> QED
    BY <2>1, <2>2, <2>3, <2>4 DEF Typed, clientVars
<1>4. ASSUME NEW t \in Service, Return(t) PROVE Typed'
  <2>1. /\ UNCHANGED <<queueVars, clientVars, nThreadsServicingQueue, task, until, now, submitted>>
        /\ pc' = [pc EXCEPT ![t] = IF task[t] \in Every THEN "insert" ELSE "relock"]
        /\ back' = [back EXCEPT ![t] = IF task[t] \in Every THEN "relock" ELSE "out"]
    BY <1>4, Zenon DEF Return, Goto
  <2>2. task[t] \in Every => task[t] # None
    BY DEF Function
  <2>3. back' \in [Thread -> Backs]
    BY <2>1, Zenon DEF Typed, Backs
  <2> QED
    BY <1>0, <2>1, <2>2, <2>3 DEF Typed, queueVars, clientVars
<1>5. ASSUME NEW t \in Service, Unwind(t) PROVE Typed'
  BY <1>0, <1>5 DEF Unwind, Goto, Typed, queueVars, clientVars
<1>6. ASSUME NEW t \in Thread, Insert(t) PROVE Typed'
  <2>1. task[t] \in Function \cup {ProcessQueue}
    BY <1>6 DEF Insert, Typed
  <2>2. PICK e \in Entry : taskQueue' = Inserted(taskQueue, e)
    <3>1. (IF task[t] = ProcessQueue THEN now ELSE now + Delay[task[t]]) \in Nat
      BY <2>1 DEF Typed
    <3>2. [time |-> IF task[t] = ProcessQueue THEN now ELSE now + Delay[task[t]], f |-> task[t]] \in Entry
      BY <2>1, <3>1 DEF Entry
    <3> QED
      BY <1>6, <3>2, Zenon DEF Insert
  <2>3. taskQueue' \in Seq(Entry) /\ Sorted(taskQueue')
    BY <2>2, InsertedFacts DEF Typed
  <2> QED
    BY <1>0, <1>6, <2>3 DEF Insert, Goto, Typed, clientVars
<1>7. ASSUME NEW t \in Thread, Notify(t) PROVE Typed'
  <2>1. pc' \in [Thread -> Places] /\ Kept(Thread \ {t}) /\ pc'[t] # "insert"
    BY <1>0, <1>7, NotifyFacts
  <2>2. /\ back' = [back EXCEPT ![t] = "out"]
        /\ UNCHANGED <<queueVars, clientVars, nThreadsServicingQueue, task, until, now, submitted>>
    BY <1>7, Zenon DEF Notify
  <2>3. \A u \in Thread : pc'[u] = "insert" => task'[u] # None
    BY <2>1, <2>2, Zenon DEF Kept, Typed
  <2>4. back' \in [Thread -> Backs]
    BY <2>2 DEF Typed, Backs
  <2> QED
    BY <2>1, <2>2, <2>3, <2>4 DEF Typed, queueVars, clientVars
<1>8. ASSUME NEW t \in Thread, MaybeScheduleProcessQueue(t) PROVE Typed'
  <2>1. back' \in [Thread -> Backs]
    BY <1>8, Zenon DEF MaybeScheduleProcessQueue, Typed, Backs
  <2>2. pc' \in [Thread -> Places] /\ task' \in [Thread -> Function \cup {ProcessQueue, None}]
    <3>1. PICK place \in {back[t], "insert"} : pc' = [pc EXCEPT ![t] = place]
      BY <1>8 DEF MaybeScheduleProcessQueue, Goto
    <3>2. place \in Places
      BY <1>0, <3>1 DEF Typed
    <3>3. pc' \in [Thread -> Places]
      BY <3>1, <3>2 DEF Typed
    <3>4. task' \in [Thread -> Function \cup {ProcessQueue, None}]
      BY <1>8, Zenon DEF MaybeScheduleProcessQueue, Typed
    <3> QED
      BY <3>3, <3>4
  <2>3. \A u \in Thread : pc'[u] = "insert" => task'[u] # None
    BY <1>0, <1>8, Zenon DEF MaybeScheduleProcessQueue, Goto, Typed
  <2> QED
    BY <1>8, <2>1, <2>2, <2>3 DEF MaybeScheduleProcessQueue, Typed, queueVars, clientVars
<1>9. ASSUME NEW t \in Thread, BeginCallback(t) PROVE Typed'
  <2>1. Outer(t) \in {"check", "relock"}
    BY DEF Outer
  <2>2. CASE callbacksRunning \/ callbacksPending = <<>>
    <3>1. /\ pc' = [pc EXCEPT ![t] = Outer(t)] /\ task' = [task EXCEPT ![t] = None]
          /\ UNCHANGED <<queueVars, clientVars, nThreadsServicingQueue, back, until, now, submitted>>
      BY <1>9, <2>2, Zenon DEF BeginCallback, Goto, clientVars
    <3> QED
      BY <1>0, <2>1, <3>1 DEF Typed, queueVars, clientVars
  <2>3. CASE ~(callbacksRunning \/ callbacksPending = <<>>)
    <3>1. /\ pc' = [pc EXCEPT ![t] = "callback"] /\ task' = [task EXCEPT ![t] = None]
          /\ callback' = [callback EXCEPT ![t] = Head(callbacksPending)]
          /\ callbacksPending' = Tail(callbacksPending) /\ callbacksRunning' = TRUE
          /\ UNCHANGED <<queueVars, nThreadsServicingQueue, back, until, now, added, submitted>>
      BY <1>9, <2>3, Zenon DEF BeginCallback, Goto
    <3>2. Head(callbacksPending) \in 1..MaxCallbacks /\ Tail(callbacksPending) \in Seq(1..MaxCallbacks)
      BY <2>3 DEF Typed
    <3> QED
      BY <1>0, <3>1, <3>2 DEF Typed, queueVars
  <2> QED
    BY <2>2, <2>3, Zenon
<1>10. ASSUME NEW t \in Thread, EndCallback(t) PROVE Typed'
  <2>1. back' \in [Thread -> Backs]
    BY <1>10, Zenon DEF EndCallback, Outer, Typed, Backs
  <2> QED
    BY <1>0, <1>10, <2>1, Zenon DEF EndCallback, Goto, Typed, queueVars
<1>11. ASSUME (\E drain \in BOOLEAN : stop(drain)) \/ (\E t \in Service : SpuriousWakeup(t)) PROVE Typed'
  <2>1. pc' \in [Thread -> Places] /\ Kept(Thread)
    BY <1>11, WakeFacts
  <2>2. /\ stopRequested' \in BOOLEAN /\ stopWhenEmpty' \in BOOLEAN
        /\ UNCHANGED <<taskQueue, clientVars, nThreadsServicingQueue, back, task, until, now, submitted>>
    BY <1>11, Zenon DEF stop, SpuriousWakeup, queueVars, Typed
  <2>3. \A u \in Thread : pc'[u] = "insert" => task'[u] # None
    BY <2>1, <2>2, Zenon DEF Kept, Typed
  <2> QED
    BY <2>1, <2>2, <2>3 DEF Typed, clientVars
<1>12. ASSUME NEW t \in Thread, AddToProcessQueue(t) PROVE Typed'
  <2>1. pc[t] \in Backs
    BY <1>12 DEF AddToProcessQueue, Backs
  <2>2. added' \in 1..MaxCallbacks /\ callbacksPending' = Append(callbacksPending, added')
    BY <1>12 DEF AddToProcessQueue, Typed
  <2>3. callbacksPending' \in Seq(1..MaxCallbacks)
    BY <2>2 DEF Typed
  <2>4. back' \in [Thread -> Backs]
    BY <1>12, <2>1 DEF AddToProcessQueue, Typed
  <2>5. pc' = [pc EXCEPT ![t] = "maybe"] /\ UNCHANGED <<queueVars, nThreadsServicingQueue,
           callbacksRunning, task, callback, until, now, submitted>>
    BY <1>12, Zenon DEF AddToProcessQueue, Goto
  <2> QED
    BY <1>0, <2>2, <2>3, <2>4, <2>5 DEF Typed, queueVars
<1>13. ASSUME NEW c \in Caller, NEW f \in Function, scheduleFromNow(c, f) PROVE Typed'
  <2>1. back' \in [Thread -> Backs]
    BY <1>13, Zenon DEF scheduleFromNow, Typed, Backs
  <2>2. c \in Thread /\ f # None
    BY <1>0
  <2> QED
    BY <1>0, <1>13, <2>1, <2>2 DEF scheduleFromNow, Goto, Typed, queueVars, clientVars
<1>14. ASSUME Interrupt \/ EmptyQueue \/ ShouldContinue PROVE Typed'
  <2>1. PICK place \in {"join", "process", "done"} : pc' = [pc EXCEPT ![Main] = place]
    BY <1>14 DEF Interrupt, EmptyQueue, ShouldContinue, Goto
  <2>2. UNCHANGED <<queueVars, clientVars, nThreadsServicingQueue, back, task, until, now, submitted>>
    BY <1>14, Zenon DEF Interrupt, EmptyQueue, ShouldContinue
  <2> QED
    BY <1>0, <2>1, <2>2 DEF Typed, queueVars, clientVars
<1>15. ASSUME Tick PROVE Typed'
  BY <1>15 DEF Tick, Typed, queueVars, clientVars
<1> QED
  BY <1>0, <1>1, <1>2, <1>3, <1>4, <1>5, <1>6, <1>7, <1>8, <1>9, <1>10, <1>11, <1>12, <1>13, <1>14, <1>15,
     Zenon DEF Next, ThreadStep

-----------------------------------------------------------------------------
(* One callback at a time *)

(* A thread that moves inside the client, its own callback apart.           *)
LEMMA ClientStep ==
  ASSUME Typed, CallbackInv, NEW t \in Thread,
         callback' = callback, callbacksRunning' = callbacksRunning,
         callback[t] # None => pc'[t] = "callback" \/ (pc'[t] \in {"maybe", "insert", "notify"} /\ back'[t] = "callback"),
         callback[t] = None => pc'[t] # "callback" /\ back'[t] # "callback",
         \A u \in Thread \ {t} : back'[u] = back[u], Kept(Thread \ {t})
  PROVE  CallbackInv'
<1>1. ASSUME NEW u \in Thread
      PROVE  /\ callback'[u] # None =>
                  /\ callbacksRunning' = TRUE
                  /\ \/ pc'[u] = "callback"
                     \/ pc'[u] \in {"maybe", "insert", "notify"} /\ back'[u] = "callback"
                  /\ \A v \in Thread : callback'[v] # None => v = u
             /\ (pc'[u] = "callback" \/ back'[u] = "callback") => callback'[u] # None
  <2>1. /\ callback[u] # None =>
             /\ callbacksRunning = TRUE
             /\ pc[u] = "callback" \/ (pc[u] \in {"maybe", "insert", "notify"} /\ back[u] = "callback")
             /\ \A v \in Thread : callback[v] # None => v = u
        /\ (pc[u] = "callback" \/ back[u] = "callback") => callback[u] # None
    BY DEF CallbackInv
  <2>2. CASE u = t
    BY <2>1, <2>2
  <2>3. CASE u # t
    <3>1. back'[u] = back[u] /\ (pc'[u] = pc[u] \/ (pc[u] \in {"wait", "timed"} /\ pc'[u] \in {"woken", "rewait"}))
      BY <2>3 DEF Kept
    <3> QED
      BY <2>1, <3>1
  <2> QED
    BY <2>2, <2>3, Zenon
<1> QED
  BY <1>1, Zenon DEF CallbackInv

(* A thread that moves outside the client disturbs nobody's callback.       *)
LEMMA QuietStep ==
  ASSUME Typed, CallbackInv, NEW t \in Thread,
         callback' = callback, callbacksRunning' = callbacksRunning,
         pc[t] \notin {"callback", "maybe", "insert", "notify"}, pc'[t] # "callback",
         back'[t] = back[t] \/ back'[t] # "callback",
         \A u \in Thread \ {t} : back'[u] = back[u], Kept(Thread \ {t})
  PROVE  CallbackInv'
<1>1. callback[t] = None /\ back[t] # "callback"
  BY DEF CallbackInv
<1> QED
  BY <1>1, ClientStep

(* Every step keeps the callbacks apart.                                    *)
LEMMA CallbackStep ==
  ASSUME Typed, CallbackInv, Next
  PROVE  CallbackInv'
<1> USE SchedulerAssumption
<1>0. /\ Service \subseteq Thread /\ Caller \subseteq Thread /\ Main \in Thread
      /\ pc \in [Thread -> Places] /\ back \in [Thread -> Backs] /\ callback \in [Thread -> 1..MaxCallbacks \cup {None}]
  BY DEF Thread, Typed
<1>1. ASSUME NEW t \in Service, Look(t) PROVE CallbackInv'
  <2>1. pc[t] \notin {"callback", "maybe", "insert", "notify"} /\ pc'[t] # "callback" /\ Kept(Thread \ {t})
    BY <1>1, LookFacts, Zenon
  <2>2. callback' = callback /\ callbacksRunning' = callbacksRunning /\ back' = back
    BY <1>1 DEF Look, clientVars
  <2> QED
    BY <1>0, <2>1, <2>2, QuietStep
<1>2. ASSUME NEW t \in Service, Timeout(t) PROVE CallbackInv'
  <2>1. pc[t] = "timed" /\ pc'[t] = "due" /\ Kept(Thread \ {t})
    BY <1>0, <1>2 DEF Timeout, Goto, Kept
  <2>2. callback' = callback /\ callbacksRunning' = callbacksRunning /\ back' = back
    BY <1>2 DEF Timeout, clientVars
  <2> QED
    BY <1>0, <2>1, <2>2, QuietStep
<1>3. ASSUME NEW t \in Service, Take(t) PROVE CallbackInv'
  <2>1. pc[t] = "due" /\ pc'[t] # "callback" /\ Kept(Thread \ {t})
    BY <1>3, TakeFacts, Zenon
  <2>2. callback' = callback /\ callbacksRunning' = callbacksRunning /\ back' = back
    BY <1>3 DEF Take, clientVars
  <2> QED
    BY <1>0, <2>1, <2>2, QuietStep
<1>4. ASSUME NEW t \in Service, Return(t) PROVE CallbackInv'
  <2>1. /\ pc[t] = "run" /\ pc'[t] # "callback" /\ Kept(Thread \ {t})
        /\ back'[t] # "callback" /\ \A u \in Thread \ {t} : back'[u] = back[u]
    BY <1>0, <1>4 DEF Return, Goto, Kept
  <2>2. callback' = callback /\ callbacksRunning' = callbacksRunning
    BY <1>4 DEF Return, clientVars
  <2> QED
    BY <1>0, <2>1, <2>2, QuietStep
<1>5. ASSUME NEW t \in Service, Unwind(t) PROVE CallbackInv'
  <2>1. pc[t] \notin {"callback", "maybe", "insert", "notify"} /\ pc'[t] = "left" /\ Kept(Thread \ {t})
    BY <1>0, <1>5 DEF Unwind, Goto, Kept
  <2>2. callback' = callback /\ callbacksRunning' = callbacksRunning /\ back' = back
    BY <1>5 DEF Unwind, clientVars
  <2> QED
    BY <1>0, <2>1, <2>2, QuietStep
<1>6. ASSUME NEW t \in Thread, Insert(t) PROVE CallbackInv'
  <2>1. pc[t] = "insert" /\ pc'[t] = "notify" /\ Kept(Thread \ {t})
    BY <1>0, <1>6 DEF Insert, Goto, Kept
  <2>2. callback' = callback /\ callbacksRunning' = callbacksRunning /\ back' = back
    BY <1>6 DEF Insert, clientVars
  <2> QED
    BY <2>1, <2>2, ClientStep, Zenon DEF CallbackInv
<1>7. ASSUME NEW t \in Thread, Notify(t) PROVE CallbackInv'
  <2>1. pc[t] = "notify" /\ pc'[t] = back[t] /\ Kept(Thread \ {t})
    BY <1>7, NotifyFacts
  <2>2. callback' = callback /\ callbacksRunning' = callbacksRunning /\ back' = [back EXCEPT ![t] = "out"]
    BY <1>7 DEF Notify, clientVars
  <2>3. /\ callback[t] # None => pc'[t] = "callback"
        /\ callback[t] = None => pc'[t] # "callback" /\ back'[t] # "callback"
        /\ \A u \in Thread \ {t} : back'[u] = back[u]
    BY <1>0, <2>1, <2>2 DEF CallbackInv
  <2> QED
    BY <2>1, <2>2, <2>3, ClientStep
<1>8. ASSUME NEW t \in Thread, MaybeScheduleProcessQueue(t) PROVE CallbackInv'
  <2>1. pc[t] = "maybe" /\ callback' = callback /\ callbacksRunning' = callbacksRunning
    BY <1>8 DEF MaybeScheduleProcessQueue, clientVars
  <2>2. /\ Kept(Thread \ {t}) /\ \A u \in Thread \ {t} : back'[u] = back[u]
        /\ \/ pc'[t] = back[t] /\ back'[t] = "out"
           \/ pc'[t] = "insert" /\ back'[t] = back[t]
    BY <1>0, <1>8 DEF MaybeScheduleProcessQueue, Goto, Kept
  <2>3. /\ callback[t] # None => back[t] = "callback"
        /\ callback[t] = None => back[t] # "callback"
    BY <2>1 DEF CallbackInv
  <2> QED
    BY <2>1, <2>2, <2>3, ClientStep, Zenon
<1>9. ASSUME NEW t \in Thread, BeginCallback(t) PROVE CallbackInv'
  <2>0. pc[t] = "process" /\ back' = back
    BY <1>9, Zenon DEF BeginCallback
  <2>1. CASE callbacksRunning \/ callbacksPending = <<>>
    <3>1. pc' = [pc EXCEPT ![t] = Outer(t)] /\ callback' = callback /\ callbacksRunning' = callbacksRunning
      BY <1>9, <2>1, Zenon DEF BeginCallback, Goto
    <3>2. pc'[t] # "callback" /\ Kept(Thread \ {t})
      BY <1>0, <3>1 DEF Outer, Kept
    <3> QED
      BY <1>0, <2>0, <3>1, <3>2, QuietStep
  <2>2. CASE ~(callbacksRunning \/ callbacksPending = <<>>)
    <3>1. /\ pc' = [pc EXCEPT ![t] = "callback"] /\ callbacksRunning' = TRUE
          /\ callback' = [callback EXCEPT ![t] = Head(callbacksPending)]
      BY <1>9, <2>2, Zenon DEF BeginCallback, Goto
    <3>2. Head(callbacksPending) # None
      BY <2>2 DEF Typed
    <3>3. \A u \in Thread : callback[u] = None /\ pc[u] # "callback" /\ back[u] # "callback"
      BY <2>2 DEF CallbackInv
    <3>4. /\ \A u \in Thread \ {t} : callback'[u] = None /\ pc'[u] # "callback" /\ back'[u] # "callback"
          /\ callback'[t] # None /\ pc'[t] = "callback" /\ back'[t] # "callback"
      BY <1>0, <2>0, <3>1, <3>2, <3>3
    <3> QED
      BY <3>1, <3>4 DEF CallbackInv
  <2> QED
    BY <2>1, <2>2, Zenon
<1>10. ASSUME NEW t \in Thread, EndCallback(t) PROVE CallbackInv'
  <2>1. /\ pc[t] = "callback" /\ pc' = [pc EXCEPT ![t] = "maybe"]
        /\ callback' = [callback EXCEPT ![t] = None]
        /\ \E place \in {"check", "relock", "unwind"} : back' = [back EXCEPT ![t] = place]
    BY <1>10 DEF EndCallback, Goto, Outer
  <2>2. \A u \in Thread \ {t} : callback[u] = None /\ pc[u] # "callback" /\ back[u] # "callback"
    BY <2>1 DEF CallbackInv
  <2>3. \A u \in Thread : callback'[u] = None /\ pc'[u] # "callback" /\ back'[u] # "callback"
    BY <1>0, <2>1, <2>2
  <2> QED
    BY <2>3 DEF CallbackInv
<1>11. ASSUME (\E drain \in BOOLEAN : stop(drain)) \/ (\E t \in Service : SpuriousWakeup(t)) PROVE CallbackInv'
  <2>1. Kept(Thread)
    BY <1>11, WakeFacts
  <2>2. callback' = callback /\ callbacksRunning' = callbacksRunning /\ back' = back
    BY <1>11, Zenon DEF stop, SpuriousWakeup, clientVars
  <2>3. pc'[Main] = pc[Main] /\ Kept(Thread \ {Main})
    BY <1>0, <2>1 DEF Kept
  <2> QED
    BY <1>0, <2>2, <2>3, ClientStep, Zenon DEF CallbackInv
<1>12. ASSUME NEW t \in Thread, AddToProcessQueue(t) PROVE CallbackInv'
  <2>1. /\ pc[t] \in {"out", "callback"} /\ pc' = [pc EXCEPT ![t] = "maybe"] /\ back' = [back EXCEPT ![t] = pc[t]]
        /\ callback' = callback /\ callbacksRunning' = callbacksRunning
    BY <1>12 DEF AddToProcessQueue, Goto
  <2>2. /\ pc'[t] = "maybe" /\ back'[t] = pc[t] /\ Kept(Thread \ {t})
        /\ \A u \in Thread \ {t} : back'[u] = back[u]
    BY <1>0, <2>1 DEF Kept
  <2>3. /\ callback[t] # None => pc[t] = "callback"
        /\ callback[t] = None => pc[t] # "callback"
    BY <2>1 DEF CallbackInv
  <2> QED
    BY <2>1, <2>2, <2>3, ClientStep
<1>13. ASSUME NEW c \in Caller, NEW f \in Function, scheduleFromNow(c, f) PROVE CallbackInv'
  <2>1. /\ pc[c] = "out" /\ pc'[c] = "insert" /\ back'[c] = "out" /\ Kept(Thread \ {c})
        /\ \A u \in Thread \ {c} : back'[u] = back[u]
    BY <1>0, <1>13 DEF scheduleFromNow, Goto, Kept
  <2>2. callback' = callback /\ callbacksRunning' = callbacksRunning
    BY <1>13 DEF scheduleFromNow, clientVars
  <2> QED
    BY <1>0, <2>1, <2>2, QuietStep
<1>14. ASSUME Interrupt \/ EmptyQueue \/ ShouldContinue PROVE CallbackInv'
  <2>1. pc[Main] \in {"up", "join", "check"} /\ pc'[Main] # "callback" /\ Kept(Thread \ {Main})
    BY <1>0, <1>14 DEF Interrupt, EmptyQueue, ShouldContinue, Goto, Kept
  <2>2. callback' = callback /\ callbacksRunning' = callbacksRunning /\ back' = back
    BY <1>14 DEF Interrupt, EmptyQueue, ShouldContinue, clientVars
  <2> QED
    BY <1>0, <2>1, <2>2, QuietStep
<1>15. ASSUME Tick PROVE CallbackInv'
  BY <1>15 DEF Tick, CallbackInv, clientVars
<1> QED
  BY <1>0, <1>1, <1>2, <1>3, <1>4, <1>5, <1>6, <1>7, <1>8, <1>9, <1>10, <1>11, <1>12, <1>13, <1>14, <1>15,
     Zenon DEF Next, ThreadStep

(* Every step of the scheduler adds, begins or ends a callback of the       *)
(* abstract queue, or leaves it alone.                                      *)
LEMMA SerialStep ==
  ASSUME Typed, CallbackInv, Next
  PROVE  [Promise!Next]_(Promise!vars)
<1> USE SchedulerAssumption
<1>0. Service \subseteq Thread /\ callback \in [Thread -> 1..MaxCallbacks \cup {None}]
  BY DEF Thread, Typed
<1>1. ASSUME callbacksPending' = callbacksPending, callback' = callback, added' = added
      PROVE  UNCHANGED Promise!vars
  BY <1>1 DEF Promise!vars, Running
<1>2. ASSUME NEW t \in Thread, BeginCallback(t) PROVE Promise!Next \/ UNCHANGED Promise!vars
  <2>1. CASE callbacksRunning \/ callbacksPending = <<>>
    BY <1>1, <1>2, <2>1, Zenon DEF BeginCallback
  <2>2. CASE ~(callbacksRunning \/ callbacksPending = <<>>)
    <3>1. /\ callback' = [callback EXCEPT ![t] = Head(callbacksPending)]
          /\ callbacksPending' = Tail(callbacksPending) /\ added' = added
      BY <1>2, <2>2, Zenon DEF BeginCallback
    <3>2. Head(callbacksPending) # None
      BY <2>2 DEF Typed
    <3>3. \A u \in Thread : callback[u] = None
      BY <2>2 DEF CallbackInv
    <3>4. Running = {}
      BY <3>3 DEF Running
    <3>5. callback'[t] = Head(callbacksPending) /\ \A u \in Thread \ {t} : callback'[u] = None
      BY <1>0, <3>1, <3>3
    <3>6. Running' = {Head(callbacksPending)}
      BY <3>2, <3>5 DEF Running
    <3> QED
      BY <2>2, <3>1, <3>4, <3>6, Zenon DEF Promise!Next, Promise!Begin
  <2> QED
    BY <2>1, <2>2, Zenon
<1>3. ASSUME NEW t \in Thread, EndCallback(t) PROVE Promise!Next
  <2>1. /\ pc[t] = "callback" /\ callback' = [callback EXCEPT ![t] = None]
        /\ callbacksPending' = callbacksPending /\ added' = added
    BY <1>3, Zenon DEF EndCallback
  <2>2. callback[t] # None /\ \A u \in Thread \ {t} : callback[u] = None
    BY <2>1 DEF CallbackInv
  <2>3. Running # {}
    BY <2>2 DEF Running
  <2>4. \A u \in Thread : callback'[u] = None
    BY <1>0, <2>1, <2>2
  <2>5. Running' = {}
    BY <2>4 DEF Running
  <2> QED
    BY <2>1, <2>3, <2>5, Zenon DEF Promise!Next, Promise!End
<1>4. ASSUME NEW t \in Thread, AddToProcessQueue(t) PROVE Promise!Next
  <2>1. /\ added' = added + 1 /\ callbacksPending' = Append(callbacksPending, added') /\ callback' = callback
    BY <1>4, Zenon DEF AddToProcessQueue
  <2>2. Running' = Running
    BY <2>1 DEF Running
  <2> QED
    BY <2>1, <2>2, Zenon DEF Promise!Next, Promise!Add
<1>5. ASSUME NEW t \in Thread,
             \/ t \in Service /\ (Look(t) \/ Timeout(t) \/ Take(t) \/ Return(t) \/ Unwind(t))
             \/ Insert(t) \/ Notify(t) \/ MaybeScheduleProcessQueue(t)
      PROVE  UNCHANGED Promise!vars
  <2>1. UNCHANGED clientVars
    BY <1>5, Zenon DEF Look, Timeout, Take, Return, Unwind, Insert, Notify, MaybeScheduleProcessQueue
  <2> QED
    BY <1>1, <2>1 DEF clientVars
<1>6. ASSUME \/ \E t \in Service : SpuriousWakeup(t)
             \/ \E c \in Caller, f \in Function : scheduleFromNow(c, f)
             \/ \E drain \in BOOLEAN : stop(drain)
             \/ Interrupt \/ EmptyQueue \/ ShouldContinue \/ Tick
      PROVE  UNCHANGED Promise!vars
  <2>1. UNCHANGED clientVars
    BY <1>6, Zenon DEF SpuriousWakeup, scheduleFromNow, stop, Interrupt, EmptyQueue, ShouldContinue, Tick
  <2> QED
    BY <1>1, <2>1 DEF clientVars
<1> QED
  BY <1>0, <1>2, <1>3, <1>4, <1>5, <1>6, Zenon DEF Next, ThreadStep

-----------------------------------------------------------------------------
(* No schedule is lost *)

HasProcess(s) == \E i \in DOMAIN s : s[i].f = ProcessQueue

(* What a step of thread t has to keep so that no schedule is lost: if work *)
(* waits afterwards, t is about to look, or work waited before and t hands  *)
(* on whatever it or the task queue held.                                   *)
LEMMA ScheduleKept ==
  ASSUME Typed, ScheduleInv, NEW t \in Thread,
         Kept(Thread \ {t}), \A u \in Thread \ {t} : task'[u] = task[u],
         task'[t] = ProcessQueue => pc'[t] \in {"process", "insert"},
         (callbacksPending' # <<>> /\ ~callbacksRunning') =>
           \/ pc'[t] \in {"maybe", "process"}
           \/ /\ callbacksPending # <<>> /\ ~callbacksRunning
              /\ HasProcess(taskQueue) => HasProcess(taskQueue')
              /\ (pc[t] \in {"maybe", "process", "check"} \/ task[t] = ProcessQueue) =>
                   (task'[t] = ProcessQueue \/ HasProcess(taskQueue'))
  PROVE  ScheduleInv'
<1> USE SchedulerAssumption
<1>1. ASSUME NEW u \in Thread, task'[u] = ProcessQueue PROVE pc'[u] \in {"process", "insert"}
  <2>1. CASE u = t
    BY <1>1, <2>1
  <2>2. CASE u # t
    BY <1>1, <2>2 DEF Kept, ScheduleInv
  <2> QED
    BY <2>1, <2>2
<1>2. ASSUME callbacksPending' # <<>>, ~callbacksRunning'
      PROVE  \/ HasProcess(taskQueue')
             \/ \E u \in Thread : pc'[u] \in {"maybe", "process"} \/ task'[u] = ProcessQueue
             \/ pc'[Main] = "check"
  <2>1. CASE pc'[t] \in {"maybe", "process"}
    BY <2>1, Zenon
  <2>2. CASE pc'[t] \notin {"maybe", "process"}
    <3>1. /\ callbacksPending # <<>> /\ ~callbacksRunning
          /\ HasProcess(taskQueue) => HasProcess(taskQueue')
          /\ (pc[t] \in {"maybe", "process", "check"} \/ task[t] = ProcessQueue) =>
               (task'[t] = ProcessQueue \/ HasProcess(taskQueue'))
      BY <1>2, <2>2, Zenon
    <3>2. \/ HasProcess(taskQueue)
          \/ \E u \in Thread : pc[u] \in {"maybe", "process"} \/ task[u] = ProcessQueue
          \/ pc[Main] = "check"
      BY <3>1, Zenon DEF ScheduleInv, NoLostSchedule, HasProcess
    <3>3. CASE HasProcess(taskQueue)
      BY <3>1, <3>3
    <3>4. CASE \E u \in Thread : pc[u] \in {"maybe", "process"} \/ task[u] = ProcessQueue
      <4>1. PICK u \in Thread : pc[u] \in {"maybe", "process"} \/ task[u] = ProcessQueue
        BY <3>4
      <4>2. CASE u = t
        BY <3>1, <4>1, <4>2
      <4>3. CASE u # t
        <5>1. task'[u] = task[u] /\ (pc[u] \in {"maybe", "process"} => pc'[u] = pc[u])
          BY <4>3 DEF Kept
        <5> QED
          BY <4>1, <5>1
      <4> QED
        BY <4>2, <4>3
    <3>5. CASE pc[Main] = "check"
      <4>1. Main \in Thread
        BY DEF Thread
      <4>2. CASE t = Main
        BY <3>1, <3>5, <4>1, <4>2
      <4>3. CASE t # Main
        BY <3>5, <4>1, <4>3 DEF Kept
      <4> QED
        BY <4>2, <4>3
    <3> QED
      BY <3>2, <3>3, <3>4, <3>5
  <2> QED
    BY <2>1, <2>2
<1>3. NoLostSchedule'
  BY <1>2, Zenon DEF NoLostSchedule, HasProcess
<1> QED
  BY <1>1, <1>3, Zenon DEF ScheduleInv

(* Every step keeps the schedule of ProcessQueue.                           *)
LEMMA ScheduleStep ==
  ASSUME Typed, ScheduleInv, Next
  PROVE  ScheduleInv'
<1> USE SchedulerAssumption
<1>0. /\ Service \subseteq Thread /\ Caller \subseteq Thread /\ Main \in Thread
      /\ pc \in [Thread -> Places] /\ task \in [Thread -> Function \cup {ProcessQueue, None}]
  BY DEF Thread, Typed
<1> HIDE DEF HasProcess
<1>1. ASSUME NEW t \in Service, Look(t) PROVE ScheduleInv'
  <2>1. pc[t] \in {"start", "relock", "seed", "woken", "rewait"} /\ Kept(Thread \ {t})
    BY <1>1, LookFacts
  <2>2. /\ task' = [task EXCEPT ![t] = None] /\ taskQueue' = taskQueue
        /\ callbacksPending' = callbacksPending /\ callbacksRunning' = callbacksRunning
    BY <1>1 DEF Look, queueVars, clientVars
  <2>3. task[t] # ProcessQueue
    BY <1>0, <2>1 DEF ScheduleInv
  <2>4. task'[t] # ProcessQueue /\ \A u \in Thread \ {t} : task'[u] = task[u]
    BY <1>0, <2>2, Zenon
  <2> QED
    BY <1>0, <2>1, <2>2, <2>3, <2>4, ScheduleKept
<1>2. ASSUME NEW t \in Service, Timeout(t) \/ Unwind(t) PROVE ScheduleInv'
  <2>1. pc[t] \in {"wait", "woken", "timed", "rewait", "due", "run", "unwind"} /\ Kept(Thread \ {t})
    BY <1>0, <1>2 DEF Timeout, Unwind, Goto, Kept
  <2>2. /\ task' = task \/ task' = [task EXCEPT ![t] = None]
        /\ taskQueue' = taskQueue
        /\ callbacksPending' = callbacksPending /\ callbacksRunning' = callbacksRunning
    BY <1>2 DEF Timeout, Unwind, queueVars, clientVars
  <2>3. task[t] # ProcessQueue
    BY <1>0, <2>1 DEF ScheduleInv
  <2>4. task'[t] # ProcessQueue /\ \A u \in Thread \ {t} : task'[u] = task[u]
    BY <1>0, <2>2, <2>3
  <2> QED
    BY <1>0, <2>1, <2>2, <2>3, <2>4, ScheduleKept, Zenon
<1>3. ASSUME NEW t \in Service, Take(t) PROVE ScheduleInv'
  <2>1. /\ pc[t] = "due" /\ Kept(Thread \ {t})
        /\ \/ taskQueue' = taskQueue /\ task' = task
           \/ /\ taskQueue # <<>> /\ taskQueue' = Tail(taskQueue)
              /\ task' = [task EXCEPT ![t] = Head(taskQueue).f]
              /\ pc'[t] = IF Head(taskQueue).f = ProcessQueue THEN "process" ELSE "run"
    BY <1>3, TakeFacts
  <2>2. callbacksPending' = callbacksPending /\ callbacksRunning' = callbacksRunning
    BY <1>3 DEF Take, clientVars
  <2>3. task[t] # ProcessQueue
    BY <1>0, <2>1 DEF ScheduleInv
  <2>4. CASE taskQueue' = taskQueue /\ task' = task
    BY <1>0, <2>1, <2>2, <2>3, <2>4, ScheduleKept
  <2>5. CASE /\ taskQueue # <<>> /\ taskQueue' = Tail(taskQueue)
             /\ task' = [task EXCEPT ![t] = Head(taskQueue).f]
             /\ pc'[t] = IF Head(taskQueue).f = ProcessQueue THEN "process" ELSE "run"
    <3>1. task'[t] = Head(taskQueue).f /\ \A u \in Thread \ {t} : task'[u] = task[u]
      BY <1>0, <2>5
    <3>2. CASE Head(taskQueue).f = ProcessQueue
      BY <1>0, <2>1, <2>5, <3>1, <3>2, ScheduleKept, Zenon
    <3>3. CASE Head(taskQueue).f # ProcessQueue
      <4>1. HasProcess(taskQueue) => HasProcess(taskQueue')
        <5> SUFFICES ASSUME NEW i \in DOMAIN taskQueue, taskQueue[i].f = ProcessQueue
                     PROVE  HasProcess(taskQueue')
          BY Zenon DEF HasProcess
        <5>1. taskQueue \in Seq(Entry) /\ taskQueue # <<>>
          BY <1>0, <2>5 DEF Typed
        <5>2. taskQueue[i] = Head(taskQueue) \/ \E j \in DOMAIN Tail(taskQueue) : Tail(taskQueue)[j] = taskQueue[i]
          BY <5>1, TailFacts, Zenon
        <5>3. PICK j \in DOMAIN Tail(taskQueue) : Tail(taskQueue)[j] = taskQueue[i]
          BY <3>3, <5>2, Zenon
        <5> QED
          BY <2>5, <5>3, Zenon DEF HasProcess
      <4> QED
        BY <1>0, <2>1, <2>2, <2>3, <3>1, <3>3, <4>1, ScheduleKept
    <3> QED
      BY <3>2, <3>3
  <2> QED
    BY <2>1, <2>4, <2>5, Zenon
<1>4. ASSUME NEW t \in Service, Return(t) PROVE ScheduleInv'
  <2>1. pc[t] = "run" /\ Kept(Thread \ {t})
    BY <1>0, <1>4 DEF Return, Goto, Kept
  <2>2. /\ task' = task /\ taskQueue' = taskQueue
        /\ callbacksPending' = callbacksPending /\ callbacksRunning' = callbacksRunning
    BY <1>4 DEF Return, queueVars, clientVars
  <2>3. task[t] # ProcessQueue
    BY <1>0, <2>1 DEF ScheduleInv
  <2> QED
    BY <1>0, <2>1, <2>2, <2>3, ScheduleKept
<1>5. ASSUME NEW t \in Thread, Insert(t) PROVE ScheduleInv'
  <2>1. /\ pc[t] = "insert" /\ Kept(Thread \ {t}) /\ task' = [task EXCEPT ![t] = None]
        /\ callbacksPending' = callbacksPending /\ callbacksRunning' = callbacksRunning
    BY <1>0, <1>5 DEF Insert, Goto, Kept, clientVars
  <2>2. task'[t] # ProcessQueue /\ \A u \in Thread \ {t} : task'[u] = task[u]
    BY <1>0, <2>1, Zenon
  <2>3. task[t] \in Function \cup {ProcessQueue}
    BY <1>0, <2>1 DEF Typed
  <2>4. PICK e \in Entry : taskQueue' = Inserted(taskQueue, e) /\ e.f = task[t]
    <3>1. (IF task[t] = ProcessQueue THEN now ELSE now + Delay[task[t]]) \in Nat
      BY <2>3 DEF Typed
    <3>2. PICK x \in Nat : x = IF task[t] = ProcessQueue THEN now ELSE now + Delay[task[t]]
      BY <3>1
    <3>3. taskQueue' = Inserted(taskQueue, [time |-> x, f |-> task[t]])
      BY <1>5, <3>2, Zenon DEF Insert
    <3>4. [time |-> x, f |-> task[t]] \in Entry /\ [time |-> x, f |-> task[t]].f = task[t]
      BY <2>3 DEF Entry
    <3> QED
      BY <3>3, <3>4, Zenon
  <2>5. /\ HasProcess(taskQueue) => HasProcess(taskQueue')
        /\ task[t] = ProcessQueue => HasProcess(taskQueue')
    <3>1. /\ \E j \in DOMAIN taskQueue' : taskQueue'[j] = e
          /\ \A i \in DOMAIN taskQueue : \E j \in DOMAIN taskQueue' : taskQueue'[j] = taskQueue[i]
      <4>1. taskQueue \in Seq(Entry)
        BY DEF Typed
      <4>2. /\ \E j \in DOMAIN Inserted(taskQueue, e) : Inserted(taskQueue, e)[j] = e
            /\ \A i \in DOMAIN taskQueue : \E j \in DOMAIN Inserted(taskQueue, e) :
                 Inserted(taskQueue, e)[j] = taskQueue[i]
        BY <4>1, InsertedFacts, Zenon
      <4> QED
        BY <2>4, <4>2, Zenon
    <3> QED
      BY <2>4, <3>1, Zenon DEF HasProcess
  <2> QED
    BY <2>1, <2>2, <2>5, ScheduleKept, Zenon
<1>6. ASSUME NEW t \in Thread, Notify(t) PROVE ScheduleInv'
  <2>1. pc[t] = "notify" /\ Kept(Thread \ {t})
    BY <1>6, NotifyFacts
  <2>2. /\ task' = task /\ taskQueue' = taskQueue
        /\ callbacksPending' = callbacksPending /\ callbacksRunning' = callbacksRunning
    BY <1>6 DEF Notify, queueVars, clientVars
  <2>3. task[t] # ProcessQueue
    BY <2>1 DEF ScheduleInv
  <2> QED
    BY <2>1, <2>2, <2>3, ScheduleKept
<1>7. ASSUME NEW t \in Thread, MaybeScheduleProcessQueue(t) PROVE ScheduleInv'
  <2>1. /\ pc[t] = "maybe" /\ taskQueue' = taskQueue
        /\ callbacksPending' = callbacksPending /\ callbacksRunning' = callbacksRunning
    BY <1>7 DEF MaybeScheduleProcessQueue, queueVars, clientVars
  <2>2. Kept(Thread \ {t})
    BY <1>0, <1>7 DEF MaybeScheduleProcessQueue, Goto, Kept
  <2>3. task[t] # ProcessQueue
    BY <2>1 DEF ScheduleInv
  <2>4. CASE callbacksRunning \/ callbacksPending = <<>>
    <3>1. task' = task
      BY <1>7, <2>4, Zenon DEF MaybeScheduleProcessQueue
    <3> QED
      BY <2>1, <2>2, <2>3, <2>4, <3>1, ScheduleKept
  <2>5. CASE ~(callbacksRunning \/ callbacksPending = <<>>)
    <3>1. pc' = [pc EXCEPT ![t] = "insert"] /\ task' = [task EXCEPT ![t] = ProcessQueue]
      BY <1>7, <2>5, Zenon DEF MaybeScheduleProcessQueue, Goto
    <3>2. pc'[t] = "insert" /\ task'[t] = ProcessQueue /\ \A u \in Thread \ {t} : task'[u] = task[u]
      BY <1>0, <3>1, Zenon
    <3> QED
      BY <2>1, <2>2, <2>5, <3>2, ScheduleKept
  <2> QED
    BY <2>4, <2>5, Zenon
<1>8. ASSUME NEW t \in Thread, BeginCallback(t) PROVE ScheduleInv'
  <2>1. pc[t] = "process" /\ task' = [task EXCEPT ![t] = None]
    BY <1>8, Zenon DEF BeginCallback
  <2>2. Kept(Thread \ {t})
    BY <1>0, <1>8 DEF BeginCallback, Goto, Kept
  <2>3. callbacksPending' = <<>> \/ callbacksRunning'
    <3>1. CASE callbacksRunning \/ callbacksPending = <<>>
      BY <1>8, <3>1, Zenon DEF BeginCallback
    <3>2. CASE ~(callbacksRunning \/ callbacksPending = <<>>)
      BY <1>8, <3>2, Zenon DEF BeginCallback
    <3> QED
      BY <3>1, <3>2, Zenon
  <2>4. task'[t] # ProcessQueue /\ \A u \in Thread \ {t} : task'[u] = task[u]
    BY <1>0, <2>1, Zenon
  <2> QED
    BY <2>2, <2>3, <2>4, ScheduleKept
<1>9. ASSUME NEW t \in Thread, EndCallback(t) \/ AddToProcessQueue(t) PROVE ScheduleInv'
  <2>1. pc[t] \in {"out", "callback"} /\ pc'[t] = "maybe" /\ Kept(Thread \ {t}) /\ task' = task
    BY <1>0, <1>9, Zenon DEF EndCallback, AddToProcessQueue, Goto, Kept
  <2>2. task[t] # ProcessQueue
    BY <2>1, Zenon DEF ScheduleInv
  <2> QED
    BY <2>1, <2>2, ScheduleKept, Zenon
<1>10. ASSUME (\E drain \in BOOLEAN : stop(drain)) \/ (\E t \in Service : SpuriousWakeup(t)) PROVE ScheduleInv'
  <2>1. Kept(Thread)
    BY <1>10, WakeFacts
  <2>2. /\ task' = task /\ taskQueue' = taskQueue
        /\ callbacksPending' = callbacksPending /\ callbacksRunning' = callbacksRunning
    BY <1>10, Zenon DEF stop, SpuriousWakeup, queueVars, clientVars
  <2>3. \A u \in Thread : pc[u] \in {"maybe", "process", "insert", "check"} => pc'[u] = pc[u]
    BY <2>1, Zenon DEF Kept
  <2> QED
    BY <1>0, <2>2, <2>3 DEF ScheduleInv, NoLostSchedule
<1>11. ASSUME NEW c \in Caller, NEW f \in Function, scheduleFromNow(c, f) PROVE ScheduleInv'
  <2>1. pc[c] = "out" /\ Kept(Thread \ {c}) /\ task' = [task EXCEPT ![c] = f]
    BY <1>0, <1>11 DEF scheduleFromNow, Goto, Kept
  <2>2. taskQueue' = taskQueue /\ callbacksPending' = callbacksPending /\ callbacksRunning' = callbacksRunning
    BY <1>11 DEF scheduleFromNow, queueVars, clientVars
  <2>3. task[c] # ProcessQueue
    BY <1>0, <2>1 DEF ScheduleInv
  <2>4. task'[c] # ProcessQueue /\ \A u \in Thread \ {c} : task'[u] = task[u]
    BY <1>0, <2>1, Zenon
  <2> QED
    BY <1>0, <2>1, <2>2, <2>3, <2>4, ScheduleKept
<1>12. ASSUME Interrupt \/ EmptyQueue \/ ShouldContinue PROVE ScheduleInv'
  <2>1. /\ pc[Main] \in {"up", "join", "check"} /\ Kept(Thread \ {Main})
        /\ pc[Main] = "check" => callbacksPending = <<>> \/ pc'[Main] = "process"
    BY <1>0, <1>12 DEF Interrupt, EmptyQueue, ShouldContinue, Goto, Kept
  <2>2. /\ task' = task /\ taskQueue' = taskQueue
        /\ callbacksPending' = callbacksPending /\ callbacksRunning' = callbacksRunning
    BY <1>12 DEF Interrupt, EmptyQueue, ShouldContinue, queueVars, clientVars
  <2>3. task[Main] # ProcessQueue
    BY <1>0, <2>1, Zenon DEF ScheduleInv
  <2> QED
    BY <1>0, <2>1, <2>2, <2>3, ScheduleKept, Zenon
<1>13. ASSUME Tick PROVE ScheduleInv'
  BY <1>13 DEF Tick, ScheduleInv, NoLostSchedule, queueVars, clientVars
<1> QED
  BY <1>0, <1>1, <1>2, <1>3, <1>4, <1>5, <1>6, <1>7, <1>8, <1>9, <1>10, <1>11, <1>12, <1>13,
     Zenon DEF Next, ThreadStep

-----------------------------------------------------------------------------
(* Shutdown *)

(* A step that keeps the set of counted threads keeps its size; one thread  *)
(* more or less changes it by one.                                          *)
LEMMA ServingFacts ==
  ASSUME NEW S \in SUBSET Service, NEW t \in Service
  PROVE  /\ Cardinality(S) \in Nat /\ Cardinality(S) <= Cardinality(Service) /\ Cardinality(Service) \in Nat
         /\ t \notin S => Cardinality(S \cup {t}) = Cardinality(S) + 1
         /\ t \in S => Cardinality(S \ {t}) = Cardinality(S) - 1
<1>1. IsFiniteSet(Service) /\ IsFiniteSet(S) /\ Cardinality(S) <= Cardinality(Service)
  BY SchedulerAssumption, FS_Subset
<1>2. Cardinality(S) \in Nat /\ Cardinality(Service) \in Nat
  BY <1>1, FS_CardinalityType
<1>3. t \notin S => Cardinality(S \cup {t}) = Cardinality(S) + 1
  BY <1>1, FS_AddElement
<1>4. t \in S => Cardinality(S \ {t}) = Cardinality(S) - 1
  BY <1>1, FS_RemoveElement
<1> QED
  BY <1>1, <1>2, <1>3, <1>4

(* The counter follows a service thread t that moves while others are kept. *)
LEMMA CountKept ==
  ASSUME Typed, NEW t \in Service, Kept(Thread \ {t}),
         nThreadsServicingQueue = Cardinality(Serving),
         LET n == IF pc[t] = "start" THEN nThreadsServicingQueue + 1 ELSE nThreadsServicingQueue
         IN \/ pc'[t] = "left" /\ nThreadsServicingQueue' = n - 1
            \/ pc'[t] \notin {"start", "left"} /\ nThreadsServicingQueue' = n,
         pc[t] # "left"
  PROVE  nThreadsServicingQueue' = Cardinality(Serving')
<1>1. t \in Thread /\ Service \subseteq Thread
  BY DEF Thread
<1>2. \A u \in Service \ {t} : (u \in Serving') <=> (u \in Serving)
  BY <1>1 DEF Serving, Kept
<1>3. Serving \in SUBSET Service /\ Serving' \in SUBSET Service
  BY DEF Serving
<1>4. (t \in Serving) <=> pc[t] # "start"
  BY DEF Serving
<1>5. (t \in Serving') <=> pc'[t] \notin {"start", "left"}
  BY DEF Serving
<1>6. Cardinality(Serving) \in Nat
  BY <1>3, ServingFacts, Zenon
<1>7. CASE pc[t] = "start" /\ pc'[t] = "left"
  <2>1. Serving' = Serving
    BY <1>2, <1>3, <1>4, <1>5, <1>7
  <2> QED
    BY <1>6, <1>7, <2>1
<1>8. CASE pc[t] = "start" /\ pc'[t] # "left"
  <2>1. Serving' = Serving \cup {t} /\ t \notin Serving
    BY <1>2, <1>3, <1>4, <1>5, <1>8
  <2>2. Cardinality(Serving \cup {t}) = Cardinality(Serving) + 1
    BY <1>3, <2>1, ServingFacts
  <2> QED
    BY <1>6, <1>8, <2>1, <2>2
<1>9. CASE pc[t] # "start" /\ pc'[t] = "left"
  <2>1. Serving' = Serving \ {t} /\ t \in Serving
    BY <1>2, <1>3, <1>4, <1>5, <1>9
  <2>2. Cardinality(Serving \ {t}) = Cardinality(Serving) - 1
    BY <1>3, <2>1, ServingFacts
  <2> QED
    BY <1>6, <1>9, <2>1, <2>2
<1>10. CASE pc[t] # "start" /\ pc'[t] # "left"
  <2>1. Serving' = Serving
    BY <1>2, <1>3, <1>4, <1>5, <1>10
  <2> QED
    BY <1>6, <1>10, <2>1
<1> QED
  BY <1>7, <1>8, <1>9, <1>10

(* Steps that count nobody in or out.                                       *)
LEMMA CountSame ==
  ASSUME Typed, nThreadsServicingQueue = Cardinality(Serving),
         nThreadsServicingQueue' = nThreadsServicingQueue,
         NEW t \in Thread, Kept(Thread \ {t}),
         t \in Service => pc[t] \notin {"start", "left"} /\ pc'[t] \notin {"start", "left"}
  PROVE  nThreadsServicingQueue' = Cardinality(Serving')
<1>1. \A u \in Service : (u \in Serving') <=> (u \in Serving)
  <2>1. ASSUME NEW u \in Service, u # t PROVE (u \in Serving') <=> (u \in Serving)
    BY <2>1 DEF Serving, Kept, Thread
  <2>2. ASSUME t \in Service PROVE (t \in Serving') <=> (t \in Serving)
    BY <2>2 DEF Serving
  <2> QED
    BY <2>1, <2>2, Zenon
<1>2. Serving' = Serving
  BY <1>1 DEF Serving
<1> QED
  BY <1>2

(* What a step of thread t has to keep for the join and for EmptyQueue.     *)
LEMMA ShutdownKept ==
  ASSUME Typed, ShutdownInv, NEW t \in Thread, Kept(Thread \ {t}),
         nThreadsServicingQueue' = Cardinality(Serving'),
         \A u \in Thread \ {t} : back'[u] = back[u],
         t \in Caller => pc'[t] \in {"out", "maybe", "insert", "notify"} /\ back'[t] = "out",
         t \in Service => pc[t] # "left",
         t = Main => pc'[Main] \in {"up", "join"} \/ \A s \in Service : pc[s] = "left",
         pc'[Main] = "done" => callbacksPending' = <<>>
  PROVE  ShutdownInv'
<1> USE SchedulerAssumption
<1>1. Service \subseteq Thread /\ Caller \subseteq Thread /\ Main \in Thread
  BY Zenon DEF Thread
<1>2. \A u \in Thread \ {t} : u \notin Service => pc'[u] = pc[u]
  BY Zenon DEF Kept
<1>3. \A c \in Caller : pc'[c] \in {"out", "maybe", "insert", "notify"} /\ back'[c] = "out"
  <2> SUFFICES ASSUME NEW c \in Caller
               PROVE  pc'[c] \in {"out", "maybe", "insert", "notify"} /\ back'[c] = "out"
    BY Zenon
  <2>1. c \in Thread /\ c \notin Service /\ pc[c] \in {"out", "maybe", "insert", "notify"} /\ back[c] = "out"
    BY <1>1, Zenon DEF ShutdownInv
  <2>2. CASE c = t
    BY <2>2
  <2>3. CASE c # t
    BY <1>2, <2>1, <2>3, Zenon
  <2> QED
    BY <2>2, <2>3
<1>4. ASSUME pc'[Main] \notin {"up", "join"} PROVE \A s \in Service : pc'[s] = "left"
  <2>1. \A s \in Service : pc[s] = "left"
    <3>1. CASE t = Main
      BY <1>4, <3>1, Zenon
    <3>2. CASE t # Main
      BY <1>1, <1>2, <1>4, <3>2, Zenon DEF ShutdownInv
    <3> QED
      BY <3>1, <3>2
  <2>2. t \notin Service
    BY <2>1, Zenon
  <2> QED
    BY <1>1, <2>1, <2>2 DEF Kept
<1> QED
  BY <1>3, <1>4, Zenon DEF ShutdownInv

(* The steps of schedule and of the client.                                 *)
LEMMA ClientShutdown ==
  ASSUME Typed, ShutdownInv, NEW t \in Thread, Kept(Thread \ {t}),
         pc[t] \in {"insert", "notify", "maybe", "process", "callback"}, pc'[t] \notin {"start", "left", "done"},
         nThreadsServicingQueue' = nThreadsServicingQueue,
         \A u \in Thread \ {t} : back'[u] = back[u],
         t \in Caller => pc'[t] \in {"out", "maybe", "insert", "notify"} /\ back'[t] = "out",
         pc'[Main] # "done" \/ (callbacksPending = <<>> => callbacksPending' = <<>>)
  PROVE  ShutdownInv'
<1> USE SchedulerAssumption
<1>1. Main \in Thread /\ Main \notin Service
  BY Zenon DEF Thread
<1>2. nThreadsServicingQueue' = Cardinality(Serving')
  BY CountSame DEF ShutdownInv
<1>3. t = Main => \A s \in Service : pc[s] = "left"
  BY DEF ShutdownInv
<1>4. ASSUME pc'[Main] = "done" PROVE callbacksPending' = <<>>
  <2>1. t # Main
    BY <1>4
  <2>2. pc[Main] = "done"
    BY <1>1, <1>4, <2>1 DEF Kept
  <2> QED
    BY <1>4, <2>2 DEF ShutdownInv
<1> QED
  BY <1>2, <1>3, <1>4, ShutdownKept

(* The steps of serviceQueue, by a thread that has not left it.             *)
LEMMA ServiceShutdown ==
  ASSUME Typed, ShutdownInv, NEW t \in Service, Kept(Thread \ {t}),
         pc[t] # "left", callbacksPending' = callbacksPending,
         LET n == IF pc[t] = "start" THEN nThreadsServicingQueue + 1 ELSE nThreadsServicingQueue
         IN \/ pc'[t] = "left" /\ nThreadsServicingQueue' = n - 1
            \/ pc'[t] \notin {"start", "left"} /\ nThreadsServicingQueue' = n,
         \A u \in Thread \ {t} : back'[u] = back[u]
  PROVE  ShutdownInv'
<1> USE SchedulerAssumption
<1>1. t \in Thread /\ Main \in Thread /\ t \notin Caller /\ t # Main /\ Main \notin Service
  BY DEF Thread
<1>2. nThreadsServicingQueue' = Cardinality(Serving')
  BY CountKept, Zenon DEF ShutdownInv
<1>3. pc'[Main] = pc[Main]
  BY <1>1 DEF Kept
<1>4. pc'[Main] = "done" => callbacksPending' = <<>>
  BY <1>3 DEF ShutdownInv
<1> QED
  BY <1>1, <1>2, <1>4, ShutdownKept, Zenon

(* Every step keeps the counter and what the shutdown has settled.          *)
LEMMA ShutdownStep ==
  ASSUME Typed, ShutdownInv, Next
  PROVE  ShutdownInv'
<1> USE SchedulerAssumption
<1>0. /\ Service \subseteq Thread /\ Caller \subseteq Thread /\ Main \in Thread
      /\ pc \in [Thread -> Places] /\ back \in [Thread -> Backs]
      /\ nThreadsServicingQueue = Cardinality(Serving)
      /\ \A c \in Caller : pc[c] \in {"out", "maybe", "insert", "notify"} /\ back[c] = "out"
  BY Zenon DEF Thread, Typed, ShutdownInv
<1>1. ASSUME NEW t \in Service, Look(t) PROVE ShutdownInv'
  <2>1. back' = back /\ callbacksPending' = callbacksPending
    BY <1>1 DEF Look, clientVars
  <2> QED
    BY <1>0, <1>1, <2>1, LookFacts, ServiceShutdown, Zenon
<1>2. ASSUME NEW t \in Service, Timeout(t) \/ Return(t) PROVE ShutdownInv'
  <2>1. /\ pc[t] \in {"timed", "run"} /\ pc'[t] \in {"due", "insert", "relock"} /\ Kept(Thread \ {t})
        /\ \A u \in Thread \ {t} : back'[u] = back[u]
    BY <1>0, <1>2 DEF Timeout, Return, Goto, Kept
  <2>2. callbacksPending' = callbacksPending /\ nThreadsServicingQueue' = nThreadsServicingQueue
    BY <1>2, Zenon DEF Timeout, Return, clientVars
  <2> QED
    BY <2>1, <2>2, ServiceShutdown
<1>3. ASSUME NEW t \in Service, Take(t) PROVE ShutdownInv'
  <2>1. back' = back /\ callbacksPending' = callbacksPending
    BY <1>3 DEF Take, clientVars
  <2>2. /\ pc[t] = "due" /\ Kept(Thread \ {t})
        /\ \/ pc'[t] = "left" /\ nThreadsServicingQueue' = nThreadsServicingQueue - 1
           \/ pc'[t] \notin {"start", "left"} /\ nThreadsServicingQueue' = nThreadsServicingQueue
    BY <1>3, TakeFacts, Zenon
  <2> QED
    BY <2>1, <2>2, ServiceShutdown
<1>4. ASSUME NEW t \in Service, Unwind(t) PROVE ShutdownInv'
  <2>1. pc[t] \notin {"start", "left"} /\ pc'[t] = "left" /\ Kept(Thread \ {t})
    BY <1>0, <1>4 DEF Unwind, Goto, Kept
  <2>2. /\ back' = back /\ callbacksPending' = callbacksPending
        /\ nThreadsServicingQueue' = nThreadsServicingQueue - 1
    BY <1>4 DEF Unwind, clientVars
  <2> QED
    BY <2>1, <2>2, ServiceShutdown
<1>5. ASSUME NEW t \in Thread, Insert(t) PROVE ShutdownInv'
  <2>1. pc[t] = "insert" /\ pc'[t] = "notify" /\ Kept(Thread \ {t})
    BY <1>0, <1>5, Zenon DEF Insert, Goto, Kept
  <2>2. /\ back' = back /\ callbacksPending' = callbacksPending
        /\ nThreadsServicingQueue' = nThreadsServicingQueue
    BY <1>5 DEF Insert, clientVars
  <2> QED
    BY <1>0, <2>1, <2>2, ClientShutdown
<1>6. ASSUME NEW t \in Thread, Notify(t) PROVE ShutdownInv'
  <2>1. pc[t] = "notify" /\ pc'[t] = back[t] /\ Kept(Thread \ {t})
    BY <1>6, NotifyFacts
  <2>2. /\ back' = [back EXCEPT ![t] = "out"] /\ callbacksPending' = callbacksPending
        /\ nThreadsServicingQueue' = nThreadsServicingQueue
    BY <1>6 DEF Notify, clientVars
  <2>3. back[t] \notin {"start", "left", "done"}
    BY <1>0 DEF Backs
  <2>4. back'[t] = "out" /\ \A u \in Thread \ {t} : back'[u] = back[u]
    BY <1>0, <2>2, Zenon
  <2> QED
    BY <1>0, <2>1, <2>2, <2>3, <2>4, ClientShutdown, Zenon
<1>7. ASSUME NEW t \in Thread, MaybeScheduleProcessQueue(t) PROVE ShutdownInv'
  <2>1. /\ pc[t] = "maybe" /\ Kept(Thread \ {t}) /\ \A u \in Thread \ {t} : back'[u] = back[u]
        /\ pc'[t] \in {back[t], "insert"} /\ back'[t] \in {"out", back[t]}
    BY <1>0, <1>7, Zenon DEF MaybeScheduleProcessQueue, Goto, Kept
  <2>2. callbacksPending' = callbacksPending /\ nThreadsServicingQueue' = nThreadsServicingQueue
    BY <1>7, Zenon DEF MaybeScheduleProcessQueue, clientVars
  <2>3. back[t] \notin {"start", "left", "done"}
    BY <1>0 DEF Backs
  <2>4. t \in Caller => pc'[t] \in {"out", "maybe", "insert", "notify"} /\ back'[t] = "out"
    BY <1>0, <2>1
  <2>5. pc'[t] \notin {"start", "left", "done"}
    BY <2>1, <2>3, Zenon
  <2> QED
    BY <2>1, <2>2, <2>4, <2>5, ClientShutdown
<1>8. ASSUME NEW t \in Thread, BeginCallback(t) PROVE ShutdownInv'
  <2>1. /\ pc[t] = "process" /\ Kept(Thread \ {t}) /\ pc'[t] \in {"check", "relock", "callback"}
        /\ back' = back /\ nThreadsServicingQueue' = nThreadsServicingQueue
    BY <1>0, <1>8 DEF BeginCallback, Goto, Outer, Kept
  <2>2. callbacksPending = <<>> => callbacksPending' = <<>>
    BY <1>8, Zenon DEF BeginCallback
  <2>3. t \notin Caller
    BY <1>0, <2>1
  <2> QED
    BY <2>1, <2>2, <2>3, ClientShutdown
<1>9. ASSUME NEW t \in Thread, EndCallback(t) PROVE ShutdownInv'
  <2>1. /\ pc[t] = "callback" /\ Kept(Thread \ {t}) /\ pc'[t] = "maybe"
        /\ \A u \in Thread \ {t} : back'[u] = back[u]
    BY <1>0, <1>9 DEF EndCallback, Goto, Kept
  <2>2. callbacksPending' = callbacksPending /\ nThreadsServicingQueue' = nThreadsServicingQueue
    BY <1>9, Zenon DEF EndCallback
  <2>3. t \notin Caller
    BY <1>0, <2>1, Zenon
  <2> QED
    BY <2>1, <2>2, <2>3, ClientShutdown
<1>10. ASSUME NEW t \in Thread, AddToProcessQueue(t) PROVE ShutdownInv'
  <2>1. /\ Kept(Thread \ {t}) /\ pc'[t] = "maybe" /\ back'[t] = pc[t]
        /\ \A u \in Thread \ {t} : back'[u] = back[u]
        /\ (pc[t] = "out" /\ pc[Main] \in {"up", "join"}) \/ pc[t] = "callback"
        /\ nThreadsServicingQueue' = nThreadsServicingQueue
    BY <1>0, <1>10, Zenon DEF AddToProcessQueue, Goto, Kept
  <2>2. nThreadsServicingQueue' = Cardinality(Serving')
    BY <1>0, <2>1, CountSame, Zenon
  <2>3. t = Main => \A s \in Service : pc[s] = "left"
    BY <2>1, Zenon DEF ShutdownInv
  <2>4. t \in Caller => pc'[t] \in {"out", "maybe", "insert", "notify"} /\ back'[t] = "out"
    BY <1>0, <2>1
  <2>5. pc'[Main] # "done"
    <3>1. CASE t = Main
      BY <2>1, <3>1
    <3>2. CASE t # Main
      <4>1. pc'[Main] = pc[Main]
        BY <1>0, <2>1, <3>2 DEF Kept
      <4>2. pc[t] = "callback" => t \in Service
        BY <1>0, <3>2, Zenon DEF Thread
      <4>3. pc[Main] # "done"
        BY <2>1, <4>2, Zenon DEF ShutdownInv
      <4> QED
        BY <4>1, <4>3, Zenon
    <3> QED
      BY <3>1, <3>2, Zenon
  <2> QED
    BY <2>1, <2>2, <2>3, <2>4, <2>5, ShutdownKept, Zenon
<1>11. ASSUME (\E drain \in BOOLEAN : stop(drain)) \/ (\E t \in Service : SpuriousWakeup(t)) PROVE ShutdownInv'
  <2>1. Kept(Thread)
    BY <1>11, WakeFacts
  <2>2. /\ back' = back /\ callbacksPending' = callbacksPending
        /\ nThreadsServicingQueue' = nThreadsServicingQueue
    BY <1>11, Zenon DEF stop, SpuriousWakeup, clientVars
  <2>3. pc'[Main] = pc[Main] /\ Kept(Thread \ {Main}) /\ Main \notin Service /\ Main \notin Caller
    BY <1>0, <2>1, Zenon DEF Kept
  <2>4. nThreadsServicingQueue' = Cardinality(Serving')
    BY <1>0, <2>2, <2>3, CountSame, Zenon
  <2>5. /\ pc'[Main] \in {"up", "join"} \/ \A s \in Service : pc[s] = "left"
        /\ pc'[Main] = "done" => callbacksPending' = <<>>
    BY <2>2, <2>3, Zenon DEF ShutdownInv
  <2> QED
    BY <1>0, <2>2, <2>3, <2>4, <2>5, ShutdownKept
<1>12. ASSUME NEW c \in Caller, NEW f \in Function, scheduleFromNow(c, f) PROVE ShutdownInv'
  <2>1. /\ pc'[c] = "insert" /\ back'[c] = "out" /\ Kept(Thread \ {c})
        /\ \A u \in Thread \ {c} : back'[u] = back[u]
    BY <1>0, <1>12, Zenon DEF scheduleFromNow, Goto, Kept
  <2>2. callbacksPending' = callbacksPending /\ nThreadsServicingQueue' = nThreadsServicingQueue
    BY <1>12 DEF scheduleFromNow, clientVars
  <2>3. c \in Thread /\ c \notin Service /\ c # Main /\ Main \notin Service
    BY <1>0, Zenon
  <2>4. nThreadsServicingQueue' = Cardinality(Serving')
    BY <1>0, <2>1, <2>2, <2>3, CountSame, Zenon
  <2>5. pc'[Main] = "done" => callbacksPending' = <<>>
    BY <1>0, <2>1, <2>2, <2>3, Zenon DEF Kept, ShutdownInv
  <2> QED
    BY <2>1, <2>3, <2>4, <2>5, ShutdownKept, Zenon
<1>13. ASSUME Interrupt \/ EmptyQueue \/ ShouldContinue PROVE ShutdownInv'
  <2>1. /\ Kept(Thread \ {Main}) /\ Main \notin Service /\ Main \notin Caller
        /\ pc'[Main] = "join" \/ (\A s \in Service : pc[s] = "left") \/ pc[Main] = "check"
        /\ pc'[Main] = "done" => callbacksPending = <<>>
    BY <1>0, <1>13, Zenon DEF Interrupt, EmptyQueue, ShouldContinue, Goto, Kept
  <2>2. /\ back' = back /\ callbacksPending' = callbacksPending
        /\ nThreadsServicingQueue' = nThreadsServicingQueue
    BY <1>13, Zenon DEF Interrupt, EmptyQueue, ShouldContinue, clientVars
  <2>3. nThreadsServicingQueue' = Cardinality(Serving')
    BY <1>0, <2>1, <2>2, CountSame, Zenon
  <2>4. pc'[Main] \in {"up", "join"} \/ \A s \in Service : pc[s] = "left"
    BY <2>1, Zenon DEF ShutdownInv
  <2> QED
    BY <1>0, <2>1, <2>2, <2>3, <2>4, ShutdownKept, Zenon
<1>14. ASSUME Tick PROVE ShutdownInv'
  BY <1>14 DEF Tick, ShutdownInv, Serving, clientVars
<1> QED
  BY <1>0, <1>1, <1>2, <1>3, <1>4, <1>5, <1>6, <1>7, <1>8, <1>9, <1>10, <1>11, <1>12, <1>13, <1>14,
     Zenon DEF Next, ThreadStep

-----------------------------------------------------------------------------
(* Theorems *)

(* The invariant is inductive.                                              *)
LEMMA IInvStep == IInv /\ [Next]_vars => IInv'
<1> SUFFICES ASSUME IInv, [Next]_vars PROVE IInv'
  OBVIOUS
<1>1. CASE Next
  BY <1>1, TypedStep, CallbackStep, ShutdownStep, ScheduleStep DEF IInv
<1>2. CASE UNCHANGED vars
  BY <1>2, Zenon DEF vars, IInv, Typed, CallbackInv, ShutdownInv, Serving, ScheduleInv, NoLostSchedule
<1> QED
  BY <1>1, <1>2

(* In every behaviour of the scheduler, its client and the shutdown the     *)
(* invariant holds, whatever the numbers of threads, functions, callbacks.  *)
THEOREM Invariance == Spec => []IInv
  BY InitIInv, IInvStep, PTL DEF Spec

(* taskQueue holds functions in the order of their times, as the multimap   *)
(* does, and nThreadsServicingQueue never counts more than the threads that *)
(* run serviceQueue nor falls below zero.                                   *)
THEOREM TypeCorrect == Spec => []TypeOK
<1>1. IInv => TypeOK
  <2> SUFFICES ASSUME IInv PROVE TypeOK
    OBVIOUS
  <2>1. Typed /\ nThreadsServicingQueue = Cardinality(Serving)
    BY DEF IInv, ShutdownInv
  <2>2. Serving \in SUBSET Service /\ IsFiniteSet(Service)
    BY SchedulerAssumption DEF Serving
  <2>3. Cardinality(Serving) <= Cardinality(Service)
    BY <2>2, FS_Subset
  <2>4. Cardinality(Serving) \in Nat /\ Cardinality(Service) \in Nat
    BY <2>2, FS_Subset, FS_CardinalityType
  <2>5. nThreadsServicingQueue \in 0..Cardinality(Service)
    BY <2>1, <2>3, <2>4
  <2>6. \A i, j \in DOMAIN taskQueue : i < j => taskQueue[i].time <= taskQueue[j].time
    BY <2>1, Zenon DEF Typed, Sorted
  <2>7. back \in [Thread -> Places]
    BY <2>1 DEF Typed, Backs, Places
  <2>8. taskQueue \in Seq([time : Nat, f : Function \cup {ProcessQueue}])
    BY <2>1, Zenon DEF Typed, Entry
  <2> QED
    BY <2>1, <2>5, <2>6, <2>7, <2>8, Zenon DEF TypeOK, Typed
<1> QED
  BY <1>1, Invariance, PTL

(* MaybeScheduleProcessQueue may return early only when somebody else has   *)
(* the callbacks in hand: no schedule of ProcessQueue is lost.              *)
THEOREM NothingLost == Spec => []NoLostSchedule
<1>1. IInv => NoLostSchedule
  BY Zenon DEF IInv, ScheduleInv
<1> QED
  BY <1>1, Invariance, PTL

(* The assertions of ~CScheduler and EmptyQueue: after the join no thread   *)
(* is counted in serviceQueue, and when EmptyQueue ends no callback waits   *)
(* or runs.                                                                 *)
THEOREM ShutdownLeavesNothing == Spec => []ShutdownComplete
<1>1. IInv => ShutdownComplete
  <2> SUFFICES ASSUME IInv PROVE ShutdownComplete
    OBVIOUS
  <2> USE SchedulerAssumption DEF IInv
  <2>1. ASSUME pc[Main] \in {"process", "check", "done"} PROVE nThreadsServicingQueue = 0
    <3>1. \A t \in Service : pc[t] = "left"
      BY <2>1 DEF ShutdownInv
    <3>2. Serving = {}
      BY <3>1 DEF Serving
    <3> QED
      BY <3>2, FS_EmptySet DEF ShutdownInv
  <2>2. ASSUME pc[Main] = "done" PROVE callbacksPending = <<>> /\ Running = {}
    <3>1. callbacksPending = <<>> /\ \A t \in Service : pc[t] = "left"
      BY <2>2, Zenon DEF ShutdownInv
    <3>2. \A c \in Caller : pc[c] \in {"out", "maybe", "insert", "notify"} /\ back[c] = "out"
      BY Zenon DEF ShutdownInv
    <3>3. ASSUME NEW t \in Thread PROVE callback[t] = None
      <4>1. /\ pc[t] # "callback"
            /\ pc[t] \in {"maybe", "insert", "notify"} => back[t] # "callback"
        BY <2>2, <3>1, <3>2 DEF Thread
      <4> QED
        BY <4>1, Zenon DEF CallbackInv
    <3>4. Running = {}
      BY <3>3 DEF Running
    <3> QED
      BY <3>1, <3>4
  <2> QED
    BY <2>1, <2>2, Zenon DEF ShutdownComplete
<1> QED
  BY <1>1, Invariance, PTL

(* SingleThreadedSchedulerClient implements the serial queue: one callback  *)
(* at a time, each once, in the order of AddToProcessQueue, for any number  *)
(* of service threads, of callers and of callbacks, and through shutdown.   *)
THEOREM SerialImplementation == Spec => OneAtATime
<1>1. Init => Promise!Init
  <2> SUFFICES ASSUME Init PROVE Promise!Init
    OBVIOUS
  <2>1. \A t \in Thread : callback[t] = None
    BY DEF Init
  <2>2. Running = {}
    BY <2>1 DEF Running
  <2> QED
    BY <2>2, Zenon DEF Init, Promise!Init
<1>2. IInv /\ [Next]_vars => [Promise!Next]_(Promise!vars)
  <2> SUFFICES ASSUME IInv, [Next]_vars PROVE [Promise!Next]_(Promise!vars)
    OBVIOUS
  <2>1. CASE Next
    BY <2>1, SerialStep DEF IInv
  <2>2. CASE UNCHANGED vars
    BY <2>2 DEF vars, Promise!vars, Running
  <2> QED
    BY <2>1, <2>2
<1> QED
  BY <1>1, <1>2, Invariance, PTL DEF Spec, OneAtATime, Promise!Serial
=============================================================================
