---------------------------- MODULE MCScheduler ----------------------------
(* Two service threads, a thread that calls them and the main thread; a    *)
(* repeating function that comes due within the clock's bound.             *)
EXTENDS Scheduler
MCService == {"s1", "s2"}
MCCaller == {"c1"}
MCDelay == [f \in Function |-> 1]
MCDelays == [f \in Function |-> IF f = "once" THEN 1 ELSE 5]
=============================================================================
