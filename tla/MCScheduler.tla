---------------------------- MODULE MCScheduler ----------------------------
(* Scheduler for TLC; the configurations choose the series and disturbances. *)
EXTENDS Scheduler
=============================================================================
