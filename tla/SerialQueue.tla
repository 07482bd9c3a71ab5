---------------------------- MODULE SerialQueue ----------------------------
(***************************************************************************)
(* What SingleThreadedSchedulerClient promises (scheduler.h): "callbacks   *)
(* can behave as if they are executed in order by a single thread".        *)
(***************************************************************************)
EXTENDS Sequences

CONSTANTS Callbacks, None

VARIABLES
  queue,     \* callbacks added and not started
  current    \* the callback being executed, or None

vars == <<queue, current>>

Init == queue = <<>> /\ current = None

Enqueue == \E c \in Callbacks : queue' = Append(queue, c) /\ UNCHANGED current

Start ==
  /\ queue # <<>> /\ current = None
  /\ current' = Head(queue) /\ queue' = Tail(queue)

Finish == current # None /\ current' = None /\ UNCHANGED queue

Next == Enqueue \/ Start \/ Finish

Spec == Init /\ [][Next]_vars
=============================================================================
