---------------------------- MODULE SerialQueue ----------------------------
(***************************************************************************)
(* What SingleThreadedSchedulerClient promises its users (scheduler.h,     *)
(* validationinterface.cpp): the callbacks added to it are run one at a    *)
(* time, each once, in the order in which they were added, and every one   *)
(* of them is run.                                                         *)
(***************************************************************************)
EXTENDS Naturals, Sequences

VARIABLES queue,     \* callbacks that have not begun, oldest first
          current,   \* the callbacks being run: none or one
          added      \* how many were added; they are numbered in that order

vars == <<queue, current, added>>

Init == queue = <<>> /\ current = {} /\ added = 0

Add ==
  /\ added' = added + 1
  /\ queue' = Append(queue, added')
  /\ UNCHANGED current

Begin ==
  /\ current = {} /\ queue # <<>>
  /\ current' = {Head(queue)} /\ queue' = Tail(queue)
  /\ UNCHANGED added

End ==
  /\ current # {} /\ current' = {}
  /\ UNCHANGED <<queue, added>>

Next == Add \/ Begin \/ End

\* The safety half, and the whole promise.
Serial == Init /\ [][Next]_vars
Spec == Serial /\ WF_vars(Begin) /\ WF_vars(End)
=============================================================================
