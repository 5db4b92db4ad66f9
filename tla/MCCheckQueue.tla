---------------------------- MODULE MCCheckQueue ----------------------------
(* The thread that connects blocks and two workers; four checks are enough *)
(* for a thread that is alone in the loop to take two of them at once.     *)
EXTENDS CheckQueue
MCMaster == {"m1"}
MCWorker == {"w1", "w2"}
=============================================================================
