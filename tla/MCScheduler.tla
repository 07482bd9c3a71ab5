---------------------------- MODULE MCScheduler ----------------------------
(* Scheduler with one task that runs once and one that repeats. *)
EXTENDS Scheduler
=============================================================================
