----------------------------- MODULE Scheduler -----------------------------
(***************************************************************************)
(* The task scheduler and its serial client (scheduler.cpp, scheduler.h).  *)
(* Threads run CScheduler::serviceQueue; other threads schedule functions  *)
(* and add callbacks; at shutdown the main thread interrupts the service   *)
(* threads, joins them and runs what is left with EmptyQueue.              *)
(*                                                                         *)
(* A section under newTaskMutex or m_cs_callbacks_pending is one step, and *)
(* so is a notification, which follows the unlock.  A scheduled function   *)
(* is either the client's ProcessQueue or one that touches nothing here.   *)
(***************************************************************************)
EXTENDS Naturals, Sequences, FiniteSets

CONSTANTS Service,      \* threads that run serviceQueue
          Caller,       \* threads that schedule functions and add callbacks
          Main,         \* the thread that shuts the node down
          Once,         \* functions scheduled with scheduleFromNow
          Every,        \* functions scheduled with scheduleEvery
          Delay,        \* the delay each of them is scheduled with
          ProcessQueue, \* the function the client schedules
          None,
          MaxCallbacks, \* a bound on the callbacks added
          MaxTime       \* a bound on the clock

Function == Once \cup Every
Thread == Service \cup Caller \cup {Main}

ASSUME SchedulerAssumption ==
  /\ IsFiniteSet(Service) /\ IsFiniteSet(Caller)
  /\ Service \cap Caller = {} /\ Main \notin Service \cup Caller
  /\ Once \cap Every = {} /\ ProcessQueue \notin Function /\ None \notin Function
  /\ ProcessQueue # None /\ None \notin 1..MaxCallbacks
  /\ Delay \in [Function -> Nat] /\ MaxTime \in Nat /\ MaxCallbacks \in Nat

VARIABLES taskQueue,               \* functions by time, first inserted first
          nThreadsServicingQueue,
          stopRequested, stopWhenEmpty,
          callbacksPending,        \* m_callbacks_pending
          callbacksRunning,        \* m_are_callbacks_running
          pc, back,                \* where a thread is, where a call returns to
          task,                    \* the function a thread runs or schedules
          callback,                \* the callback a thread runs
          until,                   \* what a thread in wait_until waits for
          now,                     \* the system clock
          added, submitted         \* callbacks and functions given so far

queueVars == <<taskQueue, stopRequested, stopWhenEmpty>>
clientVars == <<callbacksPending, callbacksRunning, callback, added>>
vars == <<taskQueue, nThreadsServicingQueue, stopRequested, stopWhenEmpty,
          callbacksPending, callbacksRunning, pc, back, task,
          callback, until, now, added, submitted>>

\* serviceQueue: "start" not yet entered; "seed" in RandAddSeedSleep; "wait",
\*   "timed" in wait and wait_until; "woken", "rewait" notified there; "due"
\*   timed out; "run" in a function; "relock" back from it; "unwind" an
\*   exception passes through; "left" returned.
\* The client: "process" entering ProcessQueue; "callback" in a callback;
\*   "maybe" entering MaybeScheduleProcessQueue; "insert", "notify" in schedule.
\* "out" a caller at rest.  Main: "up", "join", "check" in EmptyQueue, "done".
Places == {"start", "seed", "wait", "woken", "timed", "rewait", "due", "run",
           "relock", "unwind", "left", "process", "callback", "maybe",
           "insert", "notify", "out", "up", "join", "check", "done"}

Goto(t, place) == pc' = [pc EXCEPT ![t] = place]

\* threadGroup.interrupt_all has been called.
interrupted == pc[Main] # "up"

shouldStop == stopRequested \/ (stopWhenEmpty /\ taskQueue = <<>>)

-----------------------------------------------------------------------------
(* The condition variable newTaskScheduled *)

Notifiable == {t \in Service : pc[t] \in {"wait", "timed"}}

\* The places of the threads once those of W are notified.
Notified(W) ==
  [t \in Thread |-> IF t \notin W THEN pc[t]
                    ELSE IF pc[t] = "wait" THEN "woken" ELSE "rewait"]

\* notify_one wakes one of the waiting threads, if there is one.
OneOf(S) == IF S = {} THEN {{}} ELSE {{t} : t \in S}

\* Both waits may end without a notification; a wait_until whose time has
\* come ends with a timeout.
SpuriousWakeup(t) ==
  /\ pc[t] = "wait" \/ (pc[t] = "timed" /\ now < until[t])
  /\ pc' = Notified({t})
  /\ UNCHANGED <<queueVars, clientVars, nThreadsServicingQueue,
                 back, task, until, now, submitted>>

-----------------------------------------------------------------------------
(* CScheduler::serviceQueue *)

\* With the mutex held and n threads counted, go round the loop to where the
\* thread waits next: on an empty queue at idle.  At the end of the loop the
\* next thread is notified.
Settle(t, n, idle) ==
  \/ /\ shouldStop
     /\ nThreadsServicingQueue' = n - 1
     /\ \E W \in OneOf(Notifiable) : pc' = [Notified(W) EXCEPT ![t] = "left"]
     /\ UNCHANGED until
  \/ /\ ~shouldStop /\ taskQueue = <<>>
     /\ nThreadsServicingQueue' = n
     /\ Goto(t, idle) /\ UNCHANGED until
  \/ /\ ~shouldStop /\ taskQueue # <<>>
     /\ nThreadsServicingQueue' = n
     /\ Goto(t, "timed") /\ until' = [until EXCEPT ![t] = Head(taskQueue).time]

\* The steps of the loop that only look: the start, the return from a
\* function, from RandAddSeedSleep, and from a wait that was notified.
Look(t) ==
  /\ \/ pc[t] = "start" /\ Settle(t, nThreadsServicingQueue + 1, "seed")
     \/ pc[t] = "relock" /\ Settle(t, nThreadsServicingQueue, "seed")
     \/ pc[t] = "seed" /\ Settle(t, nThreadsServicingQueue, "wait")
     \/ pc[t] = "woken" /\ ~interrupted /\ Settle(t, nThreadsServicingQueue, "wait")
     \/ pc[t] = "rewait" /\ ~interrupted /\ Settle(t, nThreadsServicingQueue, "seed")
  /\ task' = [task EXCEPT ![t] = None]
  /\ UNCHANGED <<queueVars, clientVars, back, now, submitted>>

Timeout(t) ==
  /\ pc[t] = "timed" /\ now >= until[t]
  /\ Goto(t, "due") /\ until' = [until EXCEPT ![t] = 0]
  /\ UNCHANGED <<queueVars, clientVars, nThreadsServicingQueue,
                 back, task, now, submitted>>

\* After the timeout: the first function of the queue, if there is one.
Take(t) ==
  /\ pc[t] = "due" /\ ~interrupted
  /\ IF shouldStop \/ taskQueue = <<>>
     THEN /\ Settle(t, nThreadsServicingQueue, "seed")
          /\ UNCHANGED <<taskQueue, task>>
     ELSE /\ task' = [task EXCEPT ![t] = Head(taskQueue).f]
          /\ taskQueue' = Tail(taskQueue)
          /\ Goto(t, IF task'[t] = ProcessQueue THEN "process" ELSE "run")
          /\ UNCHANGED <<nThreadsServicingQueue, until>>
  /\ UNCHANGED <<stopRequested, stopWhenEmpty, clientVars, back, now,
                 submitted>>

\* A function returns; Repeat then schedules it again.
Return(t) ==
  /\ pc[t] = "run"
  /\ Goto(t, IF task[t] \in Every THEN "insert" ELSE "relock")
  /\ back' = [back EXCEPT ![t] = IF task[t] \in Every THEN "relock" ELSE "out"]
  /\ UNCHANGED <<queueVars, clientVars, nThreadsServicingQueue,
                 task, until, now, submitted>>

\* boost::thread_interrupted, thrown out of a wait or out of a function; a
\* callback's ProcessQueue has been unwound when it comes here.
UnwindCounted(t) ==
  /\ \/ pc[t] \in {"wait", "woken", "timed", "rewait", "due", "run"} /\ interrupted
     \/ pc[t] = "unwind"
  /\ Goto(t, "left")
  /\ until' = [until EXCEPT ![t] = 0] /\ task' = [task EXCEPT ![t] = None]
  /\ UNCHANGED <<queueVars, clientVars, nThreadsServicingQueue,
                 back, now, submitted>>

Unwind(t) ==
  /\ \/ pc[t] \in {"wait", "woken", "timed", "rewait", "due", "run"} /\ interrupted
     \/ pc[t] = "unwind"
  /\ nThreadsServicingQueue' = nThreadsServicingQueue - 1
  /\ Goto(t, "left")
  /\ until' = [until EXCEPT ![t] = 0] /\ task' = [task EXCEPT ![t] = None]
  /\ UNCHANGED <<queueVars, clientVars, back, now, submitted>>

-----------------------------------------------------------------------------
(* CScheduler::stop and schedule *)

StopSilent(drain) ==
  /\ IF drain THEN stopWhenEmpty' = TRUE /\ UNCHANGED stopRequested
              ELSE stopRequested' = TRUE /\ UNCHANGED stopWhenEmpty
  /\ UNCHANGED <<taskQueue, clientVars, nThreadsServicingQueue, pc,
                 back, task, until, now, submitted>>

\* The flag and notify_all; a thread between them behaves as after both.
stop(drain) ==
  /\ IF drain THEN stopWhenEmpty' = TRUE /\ UNCHANGED stopRequested
              ELSE stopRequested' = TRUE /\ UNCHANGED stopWhenEmpty
  /\ pc' = Notified(Notifiable)
  /\ UNCHANGED <<taskQueue, clientVars, nThreadsServicingQueue,
                 back, task, until, now, submitted>>

\* scheduleFromNow and scheduleEvery, called with each function once.
scheduleFromNow(c, f) ==
  /\ pc[c] = "out" /\ f \notin submitted
  /\ submitted' = submitted \cup {f}
  /\ task' = [task EXCEPT ![c] = f]
  /\ back' = [back EXCEPT ![c] = "out"] /\ Goto(c, "insert")
  /\ UNCHANGED <<queueVars, clientVars, nThreadsServicingQueue,
                 until, now>>

\* multimap::insert places an element after those with the same key.
InsertedLast(s, e) == Append(s, e)

Inserted(s, e) ==
  LET n == Cardinality({i \in DOMAIN s : s[i].time <= e.time})
  IN SubSeq(s, 1, n) \o <<e>> \o SubSeq(s, n + 1, Len(s))

\* schedule, under the lock.  ProcessQueue is scheduled for now.
Insert(t) ==
  /\ pc[t] = "insert"
  /\ taskQueue' = Inserted(taskQueue,
       [time |-> IF task[t] = ProcessQueue THEN now ELSE now + Delay[task[t]], f |-> task[t]])
  /\ task' = [task EXCEPT ![t] = None] /\ Goto(t, "notify")
  /\ UNCHANGED <<stopRequested, stopWhenEmpty, clientVars, nThreadsServicingQueue, back, until, now, submitted>>

NotifyNobody(t) ==
  /\ pc[t] = "notify"
  /\ Goto(t, back[t])
  /\ back' = [back EXCEPT ![t] = "out"]
  /\ UNCHANGED <<queueVars, clientVars, nThreadsServicingQueue, task, until, now,
                 submitted>>

Notify(t) ==
  /\ pc[t] = "notify"
  /\ \E W \in OneOf(Notifiable) : pc' = [Notified(W) EXCEPT ![t] = back[t]]
  /\ back' = [back EXCEPT ![t] = "out"]
  /\ UNCHANGED <<queueVars, clientVars, nThreadsServicingQueue, task, until, now,
                 submitted>>

-----------------------------------------------------------------------------
(* SingleThreadedSchedulerClient *)

\* AddToProcessQueue, called by a thread at rest or by a callback.
AddToProcessQueue(t) ==
  /\ \/ pc[t] = "out" /\ pc[Main] \in {"up", "join"}
     \/ pc[t] = "callback"
  /\ added < MaxCallbacks
  /\ added' = added + 1
  /\ callbacksPending' = Append(callbacksPending, added')
  /\ back' = [back EXCEPT ![t] = pc[t]] /\ Goto(t, "maybe")
  /\ UNCHANGED <<queueVars, nThreadsServicingQueue, callbacksRunning,
                 task, callback, until, now, submitted>>

MaybeScheduleProcessQueue(t) ==
  /\ pc[t] = "maybe"
  /\ IF callbacksRunning \/ callbacksPending = <<>>
     THEN Goto(t, back[t]) /\ back' = [back EXCEPT ![t] = "out"] /\ UNCHANGED task
     ELSE Goto(t, "insert") /\ task' = [task EXCEPT ![t] = ProcessQueue] /\ UNCHANGED back
  /\ UNCHANGED <<queueVars, clientVars, nThreadsServicingQueue, until, now, submitted>>

\* Where ProcessQueue returns to: serviceQueue or EmptyQueue.
Outer(t) == IF t = Main THEN "check" ELSE "relock"

\* ProcessQueue takes the first callback, unless one is being run.
BeginUnchecked(t) ==
  /\ pc[t] = "process"
  /\ task' = [task EXCEPT ![t] = None]
  /\ IF callbacksPending = <<>>
     THEN Goto(t, Outer(t)) /\ UNCHANGED <<callbacksPending, callbacksRunning, callback>>
     ELSE /\ callbacksRunning' = TRUE
          /\ callback' = [callback EXCEPT ![t] = Head(callbacksPending)]
          /\ callbacksPending' = Tail(callbacksPending)
          /\ Goto(t, "callback")
  /\ UNCHANGED <<queueVars, nThreadsServicingQueue, back, until,
                 now, added, submitted>>

BeginCallback(t) ==
  /\ pc[t] = "process"
  /\ task' = [task EXCEPT ![t] = None]
  /\ IF callbacksRunning \/ callbacksPending = <<>>
     THEN Goto(t, Outer(t)) /\ UNCHANGED <<callbacksPending, callbacksRunning, callback>>
     ELSE /\ callbacksRunning' = TRUE
          /\ callback' = [callback EXCEPT ![t] = Head(callbacksPending)]
          /\ callbacksPending' = Tail(callbacksPending)
          /\ Goto(t, "callback")
  /\ UNCHANGED <<queueVars, nThreadsServicingQueue, back, until,
                 now, added, submitted>>

\* The callback returns, or an interruption leaves it: in both cases the
\* destructor of RAIICallbacksRunning resets the flag and schedules the rest.
EndUnscheduled(t) ==
  /\ pc[t] = "callback"
  /\ callbacksRunning' = FALSE
  /\ callback' = [callback EXCEPT ![t] = None]
  /\ Goto(t, Outer(t))
  /\ UNCHANGED <<queueVars, nThreadsServicingQueue, callbacksPending, back,
                 task, until, now, added, submitted>>

EndCallback(t) ==
  /\ pc[t] = "callback"
  /\ callbacksRunning' = FALSE
  /\ callback' = [callback EXCEPT ![t] = None]
  /\ Goto(t, "maybe")
  /\ \/ back' = [back EXCEPT ![t] = Outer(t)]
     \/ t \in Service /\ interrupted /\ back' = [back EXCEPT ![t] = "unwind"]
  /\ UNCHANGED <<queueVars, nThreadsServicingQueue, callbacksPending,
                 task, until, now, added, submitted>>

-----------------------------------------------------------------------------
(* Shutdown (aviand.cpp WaitForShutdown, init.cpp Interrupt, PrepareShutdown) *)

Interrupt ==
  /\ pc[Main] = "up"
  /\ Goto(Main, "join")
  /\ UNCHANGED <<queueVars, clientVars, nThreadsServicingQueue, back, task,
                 until, now, submitted>>

\* The service threads are joined, the threads that add callbacks are
\* stopped, and EmptyQueue starts.
EmptyQueue ==
  /\ pc[Main] = "join"
  /\ \A t \in Service : pc[t] = "left"
  /\ \A c \in Caller : pc[c] = "out"
  /\ Goto(Main, "process")
  /\ UNCHANGED <<queueVars, clientVars, nThreadsServicingQueue,
                 back, task, until, now, submitted>>

ShouldContinue ==
  /\ pc[Main] = "check"
  /\ Goto(Main, IF callbacksPending = <<>> THEN "done" ELSE "process")
  /\ UNCHANGED <<queueVars, clientVars, nThreadsServicingQueue,
                 back, task, until, now, submitted>>

Tick ==
  /\ now < MaxTime /\ now' = now + 1
  /\ UNCHANGED <<queueVars, clientVars, nThreadsServicingQueue, pc, back, task, until, submitted>>

-----------------------------------------------------------------------------
Init ==
  /\ taskQueue = <<>> /\ nThreadsServicingQueue = 0
  /\ stopRequested = FALSE /\ stopWhenEmpty = FALSE
  /\ callbacksPending = <<>> /\ callbacksRunning = FALSE
  /\ pc = [t \in Thread |-> IF t \in Service THEN "start" ELSE IF t = Main THEN "up" ELSE "out"]
  /\ back = [t \in Thread |-> "out"] /\ task = [t \in Thread |-> None]
  /\ callback = [t \in Thread |-> None] /\ until = [t \in Thread |-> 0]
  /\ now = 0 /\ added = 0 /\ submitted = {}

\* The step a thread that is not waiting, or whose wait is over, takes next.
ThreadStep(t) ==
  \/ t \in Service /\ (Look(t) \/ Timeout(t) \/ Take(t) \/ Return(t) \/ Unwind(t))
  \/ Insert(t) \/ Notify(t) \/ MaybeScheduleProcessQueue(t)
  \/ BeginCallback(t) \/ EndCallback(t)

Next ==
  \/ \E t \in Thread : ThreadStep(t)
  \/ \E t \in Service : SpuriousWakeup(t)
  \/ \E t \in Thread : AddToProcessQueue(t)
  \/ \E c \in Caller, f \in Function : scheduleFromNow(c, f)
  \/ \E drain \in BOOLEAN : stop(drain)
  \/ Interrupt \/ EmptyQueue \/ ShouldContinue
  \/ Tick

\* Every thread that can run is run, functions and callbacks return, and the
\* clock advances.  Nothing makes a caller call, or the node stop.
Fairness ==
  /\ \A t \in Thread : WF_vars(ThreadStep(t))
  /\ WF_vars(EmptyQueue) /\ WF_vars(ShouldContinue) /\ WF_vars(Tick)

Spec == Init /\ [][Next]_vars /\ Fairness

-----------------------------------------------------------------------------
(* Properties *)

TypeOK ==
  /\ taskQueue \in Seq([time : Nat, f : Function \cup {ProcessQueue}])
  /\ \A i, j \in DOMAIN taskQueue : i < j => taskQueue[i].time <= taskQueue[j].time
  /\ nThreadsServicingQueue \in 0..Cardinality(Service)
  /\ stopRequested \in BOOLEAN /\ stopWhenEmpty \in BOOLEAN
  /\ callbacksPending \in Seq(1..MaxCallbacks) /\ callbacksRunning \in BOOLEAN
  /\ pc \in [Thread -> Places] /\ back \in [Thread -> Places]
  /\ task \in [Thread -> Function \cup {ProcessQueue, None}]
  /\ callback \in [Thread -> 1..MaxCallbacks \cup {None}]
  /\ until \in [Thread -> Nat] /\ now \in 0..MaxTime
  /\ added \in 0..MaxCallbacks /\ submitted \subseteq Function

\* The client keeps its promise: one callback at a time, each once, in the
\* order of AddToProcessQueue, and every one is run, if not by a service
\* thread then by EmptyQueue at shutdown.
Running == {callback[t] : t \in Thread} \ {None}
Promise == INSTANCE SerialQueue WITH queue <- callbacksPending, current <- Running

OneAtATime == Promise!Serial

\* No schedule is lost (the early returns of MaybeScheduleProcessQueue): while
\* callbacks wait and none is run, a ProcessQueue is in the task queue, or a
\* thread is about to put one there or to enter it, or EmptyQueue will look.
NoLostSchedule ==
  (callbacksPending # <<>> /\ ~callbacksRunning) =>
    \/ \E i \in DOMAIN taskQueue : taskQueue[i].f = ProcessQueue
    \/ \E t \in Thread : pc[t] \in {"maybe", "process"} \/ task[t] = ProcessQueue
    \/ pc[Main] = "check"

\* The assertions of EmptyQueue and of ~CScheduler: once the service threads
\* are joined none is counted, and EmptyQueue leaves no callback behind.
ShutdownComplete ==
  /\ pc[Main] \in {"process", "check", "done"} => nThreadsServicingQueue = 0
  /\ pc[Main] = "done" => callbacksPending = <<>> /\ Running = {}

\* A function is taken from the queue at or after its time ("Call func
\* at/after time t").
AtOrAfterItsTime ==
  [][Len(taskQueue') < Len(taskQueue) => Head(taskQueue).time <= now]_vars

Stopped == stopRequested \/ stopWhenEmpty

\* Nothing scheduled is forgotten: no wake-up is lost between schedule and the
\* threads in serviceQueue, so a function is run when its time has come, and
\* every callback is run, by a service thread or at shutdown by EmptyQueue.
ScheduledWorkRuns ==
  /\ \A f \in Function :
       (\E i \in DOMAIN taskQueue : taskQueue[i].f = f /\ taskQueue[i].time <= MaxTime)
         ~> (Stopped \/ interrupted \/ \E t \in Service : task[t] = f)
  /\ \A n \in 1..MaxCallbacks :
       (\E i \in DOMAIN callbacksPending : callbacksPending[i] = n)
         ~> (n \in Running \/ (Stopped /\ pc[Main] = "up"))

\* stop ends the threads when asked not to drain, and the shutdown of the
\* node, its join and its EmptyQueue, comes to an end.
StopAndShutdownEnd ==
  /\ stopRequested ~> \A t \in Service : pc[t] = "left"
  /\ (pc[Main] = "join") ~> (pc[Main] = "done")
=============================================================================
