----------------------------- MODULE CheckQueue -----------------------------
(***************************************************************************)
(* The script check queue (checkqueue.h).  A master, the thread that       *)
(* connects a block, takes the queue through a CCheckQueueControl, adds    *)
(* batches of checks while it walks the block, and then joins the workers  *)
(* until every check is done; the verdict it gets is the verdict on the    *)
(* block's scripts.  Each section under CCheckQueue::mutex is one step;    *)
(* the checks of a batch, which touch nothing shared, are one step too.    *)
(*                                                                         *)
(* fQuit is false here: no code sets it.  Threads leave at shutdown by     *)
(* boost's interruption, after the last block, which is not modelled.      *)
(***************************************************************************)
EXTENDS Integers, Sequences, FiniteSets, FiniteSetsExt, Functions

CONSTANTS Master,       \* threads that open a CCheckQueueControl
          Worker,       \* threads that run CCheckQueue::Thread
          MaxChecks,    \* a bound: the checks one block can bring
          nBatchSize,   \* the most checks a thread takes at once
          None

ASSUME QueueAssumption ==
  /\ IsFiniteSet(Master) /\ IsFiniteSet(Worker)
  /\ Master \cap Worker = {} /\ None \notin Master
  /\ MaxChecks \in Nat /\ nBatchSize \in Nat \ {0}

VARIABLES queue,         \* the shared LIFO of checks
          nIdle, nTotal, \* threads in cond.wait, threads inside Loop
          fAllOk,        \* the running verdict
          nTodo,         \* checks added and not yet accounted for
          ControlMutex,  \* its owner, or None
          pc,            \* where each thread stands
          vChecks,       \* each thread's own batch
          nNow, fOk,     \* Loop's locals
          fails,         \* the checks of this block that return false
          nAdded, ran,   \* how many were added, which were executed
          verdict        \* what Wait returned to each master

vars == <<queue, nIdle, nTotal, fAllOk, nTodo, ControlMutex, pc, vChecks,
          nNow, fOk, fails, nAdded, ran, verdict>>

Thread == Master \cup Worker
Check == 1..MaxChecks      \* numbered in the order the master adds them

\* "out"   a master without a control
\* "add"   a master that holds the control and adds checks
\* "enter" about to lock the mutex at the head of Loop
\* "sleep" in cond.wait;  "woken" notified, about to lock the mutex again
\* "work"  running its batch without the mutex
\* "done"  a master back from Wait, still holding the control
Places == {"out", "add", "enter", "sleep", "woken", "work", "done"}

TypeOK ==
  /\ queue \in Seq(Check) /\ nAdded \in 0..MaxChecks
  /\ ran \subseteq Check /\ fails \subseteq Check
  /\ nIdle \in Nat /\ nTotal \in Nat /\ nTodo \in Nat
  /\ fAllOk \in BOOLEAN /\ ControlMutex \in Master \cup {None}
  /\ pc \in [Thread -> Places]
  /\ vChecks \in [Thread -> Seq(Check)] /\ nNow \in [Thread -> Nat]
  /\ fOk \in [Thread -> BOOLEAN] /\ verdict \in [Master -> BOOLEAN]

-----------------------------------------------------------------------------
(* CCheckQueueControl *)

\* The constructor locks ControlMutex.
Control(m) ==
  /\ pc[m] = "out" /\ ControlMutex = None
  /\ pc' = [pc EXCEPT ![m] = "add"] /\ ControlMutex' = m
  /\ fails' = {} /\ nAdded' = 0 /\ ran' = {}
  /\ UNCHANGED <<queue, nIdle, nTotal, fAllOk, nTodo, vChecks, nNow, fOk, verdict>>

Sleepers == {w \in Worker : pc[w] = "sleep"}

\* notify_one wakes one waiting worker if there is one, notify_all all of them.
Notified(n) ==
  IF n = 1 /\ Sleepers # {} THEN {{w} : w \in Sleepers} ELSE {Sleepers}

Woken(W) == [t \in Thread |-> IF t \in W THEN "woken" ELSE pc[t]]

\* The n checks of a transaction's inputs are pushed; any of them may be one
\* that will fail.
Add(m, n) ==
  /\ pc[m] = "add"
  /\ queue' = queue \o [i \in 1..n |-> nAdded + i]
  /\ nTodo' = nTodo + n
  /\ nAdded' = nAdded + n
  /\ \E F \in SUBSET ((nAdded + 1)..(nAdded + n)) : fails' = fails \cup F
  /\ \E W \in Notified(n) : pc' = Woken(W)
  /\ UNCHANGED <<nIdle, nTotal, fAllOk, ControlMutex, vChecks, nNow, fOk, ran, verdict>>

\* Wait, called by ConnectBlock at its end or by the destructor when
\* ConnectBlock returned early.
Wait(m) ==
  /\ pc[m] = "add"
  /\ pc' = [pc EXCEPT ![m] = "enter"]
  /\ nNow' = [nNow EXCEPT ![m] = 0] /\ fOk' = [fOk EXCEPT ![m] = TRUE]
  /\ UNCHANGED <<queue, nIdle, nTotal, fAllOk, nTodo, ControlMutex, vChecks,
                 fails, nAdded, ran, verdict>>

\* The destructor unlocks ControlMutex.
Release(m) ==
  /\ pc[m] = "done"
  /\ pc' = [pc EXCEPT ![m] = "out"] /\ ControlMutex' = None
  /\ UNCHANGED <<queue, nIdle, nTotal, fAllOk, nTodo, vChecks, nNow, fOk,
                 fails, nAdded, ran, verdict>>

-----------------------------------------------------------------------------
(* CCheckQueue::Loop.  The operators take the shared counters as the       *)
(* clean-up at the head of the section, or the end of a wait, left them.   *)

\* How many checks to take.
BatchSizeZero(total, idle) ==
  Min({nBatchSize, Len(queue) \div (total + idle + 1)})

BatchSize(total, idle) ==
  Max({1, Min({nBatchSize, Len(queue) \div (total + idle + 1)})})

\* The queue has work: take checks from its back, remember fAllOk.
Take(t, allOk, total, idle, places) ==
  /\ queue # <<>>
  /\ LET n == BatchSize(total, idle)
     IN /\ vChecks' = [vChecks EXCEPT ![t] = [i \in 1..n |-> queue[Len(queue) - i + 1]]]
        /\ queue' = SubSeq(queue, 1, Len(queue) - n)
        /\ nNow' = [nNow EXCEPT ![t] = n]
  /\ fOk' = [fOk EXCEPT ![t] = allOk]
  /\ pc' = [places EXCEPT ![t] = "work"]
  /\ nTotal' = total /\ nIdle' = idle /\ fAllOk' = allOk
  /\ UNCHANGED verdict

\* Nothing left anywhere: the master takes the verdict and resets it.
ReturnKeepsVerdict(t, allOk, todo, total, idle, places) ==
  /\ queue = <<>> /\ t \in Master /\ todo = 0
  /\ verdict' = [verdict EXCEPT ![t] = allOk]
  /\ fAllOk' = allOk
  /\ pc' = [places EXCEPT ![t] = "done"]
  /\ nTotal' = total - 1 /\ nIdle' = idle
  /\ UNCHANGED <<queue, vChecks, nNow, fOk>>

ReturnEarly(t, allOk, todo, total, idle, places) ==
  /\ queue = <<>> /\ t \in Master
  /\ verdict' = [verdict EXCEPT ![t] = allOk]
  /\ fAllOk' = TRUE
  /\ pc' = [places EXCEPT ![t] = "done"]
  /\ nTotal' = total - 1 /\ nIdle' = idle
  /\ UNCHANGED <<queue, vChecks, nNow, fOk>>

Return(t, allOk, todo, total, idle, places) ==
  /\ queue = <<>> /\ t \in Master /\ todo = 0
  /\ verdict' = [verdict EXCEPT ![t] = allOk]
  /\ fAllOk' = TRUE
  /\ pc' = [places EXCEPT ![t] = "done"]
  /\ nTotal' = total - 1 /\ nIdle' = idle
  /\ UNCHANGED <<queue, vChecks, nNow, fOk>>

\* Nothing to take: wait for a notification.
SleepUncounted(t, allOk, todo, total, idle, places) ==
  /\ queue = <<>> /\ (t \in Worker \/ todo # 0)
  /\ pc' = [places EXCEPT ![t] = "sleep"]
  /\ fAllOk' = allOk /\ nTotal' = total /\ nIdle' = idle
  /\ UNCHANGED <<queue, vChecks, nNow, fOk, verdict>>

Sleep(t, allOk, todo, total, idle, places) ==
  /\ queue = <<>> /\ (t \in Worker \/ todo # 0)
  /\ pc' = [places EXCEPT ![t] = "sleep"]
  /\ fAllOk' = allOk /\ nTotal' = total /\ nIdle' = idle + 1
  /\ UNCHANGED <<queue, vChecks, nNow, fOk, verdict>>

LoopBody(t, allOk, todo, total, idle, places) ==
  /\ nTodo' = todo
  /\ \/ Take(t, allOk, total, idle, places)
     \/ Return(t, allOk, todo, total, idle, places)
     \/ Sleep(t, allOk, todo, total, idle, places)
  /\ UNCHANGED <<ControlMutex, fails, nAdded, ran>>

\* The clean-up that a thread does for its last batch: it tells the master
\* when that was the last check of all.
PlacesAfterCleanUpSilent(t) == pc

PlacesAfterCleanUp(t) ==
  IF nNow[t] > 0 /\ nTodo = nNow[t] /\ t \in Worker
  THEN [u \in Thread |-> IF u \in Master /\ pc[u] = "sleep" THEN "woken" ELSE pc[u]]
  ELSE pc

Enter(t) ==
  /\ pc[t] = "enter"
  /\ LoopBody(t, fAllOk /\ (nNow[t] > 0 => fOk[t]), nTodo - nNow[t],
              IF nNow[t] > 0 THEN nTotal ELSE nTotal + 1, nIdle,
              PlacesAfterCleanUp(t))

\* A thread comes back from cond.wait; boost allows it without a notification.
Wake(t) ==
  /\ pc[t] = "woken"
  /\ LoopBody(t, fAllOk, nTodo, nTotal, nIdle - 1, pc)

SpuriousWakeup(t) ==
  /\ pc[t] = "sleep"
  /\ pc' = [pc EXCEPT ![t] = "woken"]
  /\ UNCHANGED <<queue, nIdle, nTotal, fAllOk, nTodo, ControlMutex, vChecks,
                 nNow, fOk, fails, nAdded, ran, verdict>>

\* The batch runs up to its first failing check, and not at all when fAllOk
\* was already false.
Executed(t) ==
  {vChecks[t][i] : i \in {j \in DOMAIN vChecks[t] :
     fOk[t] /\ \A k \in 1..(j - 1) : vChecks[t][k] \notin fails}}

Execute(t) ==
  /\ pc[t] = "work"
  /\ pc' = [pc EXCEPT ![t] = "enter"]
  /\ ran' = ran \cup Executed(t)
  /\ fOk' = [fOk EXCEPT ![t] = @ /\ Range(vChecks[t]) \cap fails = {}]
  /\ vChecks' = [vChecks EXCEPT ![t] = <<>>]
  /\ UNCHANGED <<queue, nIdle, nTotal, fAllOk, nTodo, ControlMutex, nNow, fails,
                 nAdded, verdict>>

-----------------------------------------------------------------------------
\* The worker threads start in Loop; no block is being connected.
Init ==
  /\ queue = <<>> /\ nIdle = 0 /\ nTotal = 0 /\ fAllOk = TRUE /\ nTodo = 0
  /\ ControlMutex = None
  /\ pc = [t \in Thread |-> IF t \in Worker THEN "enter" ELSE "out"]
  /\ vChecks = [t \in Thread |-> <<>>] /\ nNow = [t \in Thread |-> 0]
  /\ fOk = [t \in Thread |-> TRUE]
  /\ fails = {} /\ nAdded = 0 /\ ran = {} /\ verdict = [m \in Master |-> TRUE]

LoopStep(t) == Enter(t) \/ Wake(t) \/ Execute(t)

Next ==
  \/ \E m \in Master : Control(m) \/ Wait(m) \/ Release(m)
  \/ \E m \in Master, n \in 1..(MaxChecks - nAdded) : Add(m, n)
  \/ \E t \in Thread : LoopStep(t) \/ SpuriousWakeup(t)

\* A thread inside Loop is scheduled again and gets the mutex in the end; no
\* fairness is assumed of spurious wake-ups, nor of masters outside Loop.
Spec == Init /\ [][Next]_vars /\ \A t \in Thread : WF_vars(LoopStep(t))

-----------------------------------------------------------------------------
(* Properties *)

\* The counters that drive every decision of Loop are what their comments
\* in checkqueue.h say: nTodo counts the checks queued or in a batch that is
\* not accounted for, nIdle the threads in cond.wait, nTotal those in Loop.
CountersExact ==
  /\ nTodo = Len(queue) + MapThenSumSet(LAMBDA t : IF pc[t] \in {"work", "enter"} THEN nNow[t] ELSE 0, Thread)
  /\ nIdle = Cardinality({t \in Thread : pc[t] \in {"sleep", "woken"}})
  /\ nTotal = Cardinality({t \in Thread : pc[t] \in {"sleep", "woken", "work"}
                                          \/ (pc[t] = "enter" /\ nNow[t] > 0)})

\* CCheckQueueControl::Wait answers for the whole block: true exactly when
\* none of the checks added under this control fails, and then all have run.
VerdictOfAllChecks ==
  \A m \in Master : pc[m] = "done" =>
    /\ verdict[m] = (fails = {})
    /\ verdict[m] => ran = 1..nAdded

\* Nothing of one block leaks into the next: when no control is held, no
\* check is queued or running and the running verdict is reset.
NextBlockStartsClean ==
  (ControlMutex = None \/ \E m \in Master : pc[m] = "done") =>
    /\ queue = <<>> /\ nTodo = 0 /\ fAllOk
    /\ \A t \in Thread : pc[t] # "work"

\* The master that joined the pool gets its verdict: no wake-up is lost.
WaitReturns ==
  \A m \in Master : (pc[m] = "enter") ~> (pc[m] = "done")
=============================================================================
