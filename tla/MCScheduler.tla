---------------------------- MODULE MCScheduler ----------------------------
(* A small instance of Scheduler for TLC; see MCScheduler.cfg. *)
EXTENDS Scheduler
=============================================================================
